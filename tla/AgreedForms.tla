----------------------------- MODULE AgreedForms -----------------------------
(***************************************************************************)
(* What the confirmation dialog promises (src/server/tmpl/static/js/app.js,*)
(* "Confirm-before-submit forms"): the form that is sent is the one the    *)
(* user was asked about last and agreed to send, it is sent once for every *)
(* such answer, and nothing is sent otherwise.                             *)
(***************************************************************************)
EXTENDS Sequences

CONSTANTS Forms, NoForm

VARIABLES
  asked,    \* the form the user is being asked about
  agreed,   \* the form the user agreed to send
  sent      \* the forms sent so far, in order

Init == asked = NoForm /\ agreed = NoForm /\ sent = <<>>

Ask(f) == asked' = f /\ agreed' = NoForm /\ sent' = sent

Confirm == asked # NoForm /\ agreed' = asked /\ asked' = NoForm /\ sent' = sent
Cancel  == asked # NoForm /\ agreed' = NoForm /\ asked' = NoForm /\ sent' = sent

Send ==
  /\ agreed # NoForm
  /\ sent' = Append(sent, agreed) /\ agreed' = NoForm
  /\ asked' = asked

\* Another page is loaded.
Leave == asked' = NoForm /\ agreed' = NoForm /\ sent' = sent

Next == (\E f \in Forms : Ask(f)) \/ Confirm \/ Cancel \/ Send \/ Leave

Spec == Init /\ [][Next]_<<asked, agreed, sent>>
=============================================================================
