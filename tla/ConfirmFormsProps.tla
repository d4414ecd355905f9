-------------------------- MODULE ConfirmFormsProps --------------------------
(***************************************************************************)
(* What the confirmation dialog owes the user: the properties checked on   *)
(* ConfirmForms; ConfirmFormsProofs proves the first three.                *)
(***************************************************************************)
EXTENDS ConfirmForms

\* The questions come to an end: with the dialog closed and its close event
\* handled, no onClose of an earlier question is left that a later answer
\* would also run, and no form is marked as confirmed.
NothingLeft ==
  asked = NoForm /\ closes = 0 => listeners = <<>> /\ confirmed = {}

A == INSTANCE AgreedForms

\* Whatever form is sent is the one whose question the user confirmed, as his
\* last answer, and it is sent once for it.
OnlyAgreed == A!Spec

\* A confirmed form is sent, unless the user goes on to something else, or
\* the dialog opened before the close event of the last one was handled.
Sent == \A f \in Forms : (agreed = f /\ listeners # <<>>) ~> (agreed # f)

-----------------------------------------------------------------------------
(* The same without the condition: fails, see the README. *)

\* A confirmed form is sent, however fast the user is.
AlwaysSent == \A f \in Forms : (agreed = f) ~> (agreed # f)
=============================================================================
