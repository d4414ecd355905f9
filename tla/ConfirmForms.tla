---------------------------- MODULE ConfirmForms -----------------------------
(***************************************************************************)
(* Forms that ask before they are sent (form[data-confirm]) and the one    *)
(* <dialog> they share: askConfirm and the submit handlers of              *)
(* src/server/tmpl/static/js/app.js on one page.                           *)
(*                                                                         *)
(* A click or key the user gives the page is one step, with every handler  *)
(* it runs; so is the dispatch of a close event.  The dialog is closed in  *)
(* the first and its close event is queued: user input may be handled      *)
(* before the event is.  An open dialog is modal: the forms cannot be      *)
(* reached.                                                                *)
(***************************************************************************)
EXTENDS Naturals, Sequences, Functions

CONSTANTS
  Forms,           \* the forms of the page
  NoForm,
  Dialog,          \* the engine has HTMLDialogElement.showModal
  RequestSubmit,   \* the engine has HTMLFormElement.requestSubmit
  QueuedClicks,    \* clicks that may be handled while a close event is queued
  MaxSent          \* bound on the forms sent

ASSUME ConfirmAssumption ==
  /\ NoForm \notin Forms
  /\ Dialog \in BOOLEAN /\ RequestSubmit \in BOOLEAN
  /\ QueuedClicks \in Nat /\ MaxSent \in Nat

VARIABLES
  asked,       \* the form whose question the open dialog shows, or NoForm
  listeners,   \* the forms onClose was added for, in order
  returned,    \* confirmDialog.returnValue
  closes,      \* close events queued
  clicks,      \* clicks handled since one was queued or dispatched
  confirmed,   \* the forms with the attribute data-confirmed
  sent,        \* the forms sent, in order
  agreed       \* history: the form the user confirmed and that is not yet
               \* sent, if the user gave nothing else to do since

vars == <<asked, listeners, returned, closes, clicks, confirmed, sent, agreed>>

TypeOK ==
  /\ asked \in Forms \cup {NoForm} /\ agreed \in Forms \cup {NoForm}
  /\ listeners \in Seq(Forms)
  /\ returned \in {"cancel", "confirm"}
  /\ closes \in Nat /\ clicks \in 0..QueuedClicks
  /\ confirmed \subseteq Forms /\ sent \in Seq(Forms)

Init ==
  /\ asked = NoForm /\ listeners = <<>> /\ returned = "cancel"
  /\ closes = 0 /\ clicks = 0 /\ confirmed = {} /\ agreed = NoForm
  /\ sent = <<>>

\* User input is handled, if not too much of it overtakes a close event.
Input ==
  \/ closes = 0 /\ clicks' = 0
  \/ closes > 0 /\ clicks < QueuedClicks /\ clicks' = clicks + 1

\* Mutant: the handlers share one variable for the form, which is the last
\* one of the loop by the time they run.
OnConfirm_Shared(s) ==
  LET last == CHOOSE f \in Forms : TRUE
  IN /\ confirmed' = IF RequestSubmit THEN confirmed \ {last} ELSE confirmed \cup {last}
     /\ sent' = sent \o [i \in DOMAIN s |-> last]

\* The listeners' onConfirm, one after the other: each sends the form of its
\* own closure.  requestSubmit runs the submit handler again, which takes the
\* attribute away; submit does not.
OnConfirm(s) ==
  /\ confirmed' = IF RequestSubmit THEN confirmed \ Range(s) ELSE confirmed \cup Range(s)
  /\ sent' = sent \o s

\* askConfirm: the question about f is shown, where the engine can show it.
AskConfirm(f) ==
  IF Dialog
  THEN /\ listeners' = Append(listeners, f)
       /\ returned' = "cancel" /\ asked' = f
       /\ UNCHANGED <<confirmed, sent>>
  ELSE OnConfirm(<<f>>) /\ UNCHANGED <<asked, listeners, returned>>

\* The user submits form f: the handler sends a form with data-confirmed and
\* asks about any other.
OnSubmit(f) ==
  /\ asked = NoForm /\ Input
  /\ agreed' = NoForm
  /\ IF f \in confirmed
     THEN /\ confirmed' = confirmed \ {f} /\ sent' = Append(sent, f)
          /\ UNCHANGED <<asked, listeners, returned>>
     ELSE AskConfirm(f)
  /\ UNCHANGED closes

\* Mutant: the buttons of the dialog have no value.
Choose_NoValue(value) ==
  /\ asked # NoForm /\ Input
  /\ asked' = NoForm
  /\ closes' = closes + 1
  /\ agreed' = IF value = "confirm" THEN asked ELSE NoForm
  /\ UNCHANGED <<returned, listeners, confirmed, sent>>

\* A button of the dialog, or Escape, which leaves the "cancel" askConfirm set.
Choose(value) ==
  /\ asked # NoForm /\ Input
  /\ returned' = value /\ asked' = NoForm
  /\ closes' = closes + 1
  /\ agreed' = IF value = "confirm" THEN asked ELSE NoForm
  /\ UNCHANGED <<listeners, confirmed, sent>>

\* Mutant: onClose removes itself only after a confirmation.
OnClose_Stays ==
  /\ closes > 0
  /\ closes' = closes - 1 /\ clicks' = 0
  /\ IF returned = "confirm" /\ listeners # <<>>
     THEN /\ OnConfirm(listeners)
          /\ agreed' = NoForm /\ listeners' = <<>>
     ELSE UNCHANGED <<listeners, confirmed, sent, agreed>>
  /\ UNCHANGED <<asked, returned>>

\* The close event: every onClose removes itself and looks at returnValue.
OnClose ==
  /\ closes > 0
  /\ closes' = closes - 1 /\ clicks' = 0
  /\ listeners' = <<>>
  /\ IF returned = "confirm" /\ listeners # <<>>
     THEN /\ OnConfirm(listeners)
          /\ agreed' = NoForm
     ELSE UNCHANGED <<confirmed, sent, agreed>>
  /\ UNCHANGED <<asked, returned>>

\* The browser shows another page: after a form was sent, unless the server
\* cannot be reached or the user stops it, or because the user leaves.
Leave ==
  /\ asked' = NoForm /\ listeners' = <<>> /\ returned' = "cancel"
  /\ closes' = 0 /\ clicks' = 0 /\ confirmed' = {} /\ agreed' = NoForm
  /\ sent' = sent

User ==
  \/ Len(sent) < MaxSent /\ \E f \in Forms : OnSubmit(f)
  \/ \E v \in {"cancel", "confirm"} : Choose(v)

Next ==
  \/ User
  \/ OnClose
  \/ Leave

Spec == Init /\ [][Next]_vars

\* The event loop dispatches what is queued.
FairSpec == Spec /\ WF_vars(OnClose)
=============================================================================
