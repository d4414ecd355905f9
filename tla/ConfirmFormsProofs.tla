------------------------- MODULE ConfirmFormsProofs --------------------------
(***************************************************************************)
(* Proofs about ConfirmForms for any number of forms, in an engine that    *)
(* has showModal and requestSubmit and for a user who gets in one click    *)
(* before a close event is dispatched.                                     *)
(***************************************************************************)
EXTENDS ConfirmFormsProps, SequenceTheorems, TLAPS

USE ConfirmAssumption

Engine == Dialog /\ RequestSubmit /\ QueuedClicks <= 1

\* Why forms are sent only when agreed to.  One close event is queued at
\* most: the click that overtakes it can open the dialog, not answer it.  It
\* finds what the user has just answered, or "cancel" when the dialog is open
\* again; and the only listener that may follow "confirm" is that of the form
\* the user agreed to.
Answered ==
  /\ confirmed = {}
  /\ closes \in {0, 1}
  /\ closes = 0 /\ asked = NoForm => listeners = <<>>
  /\ closes = 0 /\ asked # NoForm => listeners \in {<<>>, <<asked>>}
  /\ closes = 1 /\ asked # NoForm => clicks = 1 /\ returned = "cancel"
  /\ closes = 1 /\ asked = NoForm /\ returned = "confirm" /\ listeners # <<>>
     => agreed # NoForm /\ listeners = <<agreed>>

IInv == TypeOK /\ Answered

-----------------------------------------------------------------------------
(* Types *)

LEMMA InputType ==
  ASSUME TypeOK, Input
  PROVE  clicks' \in 0..QueuedClicks
BY DEF TypeOK, Input

LEMMA ConfirmType ==
  ASSUME TypeOK, NEW s \in Seq(Forms), OnConfirm(s)
  PROVE  confirmed' \subseteq Forms /\ sent' \in Seq(Forms)
<1>1. Range(s) \subseteq Forms
  BY DEF Range
<1>2. sent \o s \in Seq(Forms)
  BY ConcatProperties DEF TypeOK
<1>3. QED BY <1>1, <1>2 DEF OnConfirm, TypeOK

LEMMA TypeSubmit ==
  ASSUME TypeOK, NEW f \in Forms, OnSubmit(f)
  PROVE  TypeOK'
<1>1. clicks' \in 0..QueuedClicks
  BY InputType DEF OnSubmit
<1>2. CASE f \in confirmed
  <2>1. sent' \in Seq(Forms)
    BY <1>2, AppendProperties DEF OnSubmit, TypeOK
  <2>2. QED BY <1>1, <1>2, <2>1 DEF OnSubmit, TypeOK
<1>3. CASE f \notin confirmed /\ Dialog
  <2>1. listeners' = Append(listeners, f) /\ listeners \in Seq(Forms)
    BY <1>3 DEF OnSubmit, AskConfirm, TypeOK
  <2>2. listeners' \in Seq(Forms)
    BY <2>1
  <2>3. QED BY <1>1, <1>3, <2>2 DEF OnSubmit, AskConfirm, TypeOK
<1>4. CASE f \notin confirmed /\ ~Dialog
  <2>1. <<f>> \in Seq(Forms) /\ OnConfirm(<<f>>)
    BY <1>4 DEF OnSubmit, AskConfirm
  <2>2. confirmed' \in SUBSET Forms /\ sent' \in Seq(Forms)
    BY <2>1, ConfirmType
  <2>3. QED BY <1>1, <1>4, <2>2 DEF OnSubmit, AskConfirm, TypeOK
<1>5. QED BY <1>2, <1>3, <1>4

LEMMA TypeChoose ==
  ASSUME TypeOK, NEW v \in {"cancel", "confirm"}, Choose(v)
  PROVE  TypeOK'
<1>1. clicks' \in 0..QueuedClicks
  BY InputType DEF Choose
<1>2. agreed' \in Forms \cup {NoForm} /\ closes' \in Nat
  BY DEF Choose, TypeOK
<1>3. QED BY <1>1, <1>2 DEF Choose, TypeOK

LEMMA TypeClose ==
  ASSUME TypeOK, OnClose
  PROVE  TypeOK'
<1>1. closes' \in Nat /\ clicks' \in 0..QueuedClicks /\ listeners' \in Seq(Forms)
  BY DEF OnClose, TypeOK
<1>2. confirmed' \subseteq Forms /\ sent' \in Seq(Forms) /\ agreed' \in Forms \cup {NoForm}
  <2>1. CASE returned = "confirm" /\ listeners # <<>>
    <3>1. OnConfirm(listeners) /\ listeners \in Seq(Forms) /\ agreed' = NoForm
      BY <2>1 DEF OnClose, TypeOK
    <3>2. QED BY <3>1, ConfirmType
  <2>2. CASE ~(returned = "confirm" /\ listeners # <<>>)
    BY <2>2 DEF OnClose, TypeOK
  <2>3. QED BY <2>1, <2>2
<1>3. QED BY <1>1, <1>2 DEF OnClose, TypeOK

LEMMA TypeLeave ==
  ASSUME TypeOK, Leave
  PROVE  TypeOK'
BY DEF Leave, TypeOK

LEMMA TypeStep ==
  ASSUME TypeOK, [Next]_vars
  PROVE  TypeOK'
<1>1. CASE UNCHANGED vars
  BY <1>1 DEF TypeOK, vars
<1>2. CASE \E f \in Forms : OnSubmit(f)
  BY <1>2, TypeSubmit
<1>3. CASE \E v \in {"cancel", "confirm"} : Choose(v)
  BY <1>3, TypeChoose
<1>4. CASE OnClose
  BY <1>4, TypeClose
<1>5. CASE Leave
  BY <1>5, TypeLeave
<1>6. QED BY <1>1, <1>2, <1>3, <1>4, <1>5, Zenon DEF Next, User

\* The type invariant of the confirmation dialog, whatever the engine has.
THEOREM TypeCorrect == Spec => []TypeOK
<1>1. Init => TypeOK
  BY DEF Init, TypeOK
<1>2. QED BY <1>1, TypeStep, PTL DEF Spec

-----------------------------------------------------------------------------
(* The inductive invariant *)

LEMMA AnsweredSubmit ==
  ASSUME Engine, IInv, NEW f \in Forms, OnSubmit(f)
  PROVE  Answered'
<1>1. f # NoForm /\ f \notin confirmed
  BY DEF IInv, Answered
<1>2. /\ confirmed' = {} /\ asked' = f /\ returned' = "cancel"
      /\ listeners' = Append(listeners, f) /\ closes' = closes
  BY <1>1 DEF Engine, OnSubmit, AskConfirm, IInv, Answered
<1>3. CASE closes = 0
  <2>1. listeners = <<>>
    BY <1>3 DEF IInv, Answered, OnSubmit
  <2>2. listeners' = <<f>>
    BY <1>2, <2>1
  <2>3. QED BY <1>1, <1>2, <1>3, <2>2 DEF Answered
<1>4. CASE closes = 1
  <2>1. clicks' = 1
    BY <1>4 DEF OnSubmit, Input, Engine, IInv, TypeOK
  <2>2. QED BY <1>1, <1>2, <1>4, <2>1 DEF Answered
<1>5. QED BY <1>3, <1>4 DEF IInv, Answered

LEMMA AnsweredChoose ==
  ASSUME Engine, IInv, NEW v \in {"cancel", "confirm"}, Choose(v)
  PROVE  Answered'
<1>1. closes = 0
  BY DEF Choose, Input, Engine, IInv, TypeOK, Answered
<1>2. closes' = 1 /\ asked' = NoForm /\ confirmed' = {} /\ returned' = v
  BY <1>1 DEF Choose, IInv, Answered
<1>3. listeners' \in {<<>>, <<asked>>}
  BY <1>1 DEF Choose, IInv, Answered
<1>4. v = "confirm" => agreed' = asked /\ asked # NoForm
  BY DEF Choose
<1>5. QED BY <1>2, <1>3, <1>4 DEF Answered

LEMMA AnsweredClose ==
  ASSUME Engine, IInv, OnClose
  PROVE  Answered'
<1>1. closes = 1 /\ closes' = 0 /\ listeners' = <<>>
  BY DEF OnClose, IInv, Answered
<1>2. confirmed' = {}
  BY DEF OnClose, OnConfirm, Engine, IInv, Answered
<1>3. QED BY <1>1, <1>2 DEF Answered

LEMMA IInvStep ==
  ASSUME Engine, IInv, [Next]_vars
  PROVE  IInv'
<1>1. TypeOK'
  BY TypeStep DEF IInv
<1>2. CASE UNCHANGED vars
  BY <1>1, <1>2 DEF IInv, Answered, vars
<1>3. CASE \E f \in Forms : OnSubmit(f)
  BY <1>1, <1>3, AnsweredSubmit DEF IInv
<1>4. CASE \E v \in {"cancel", "confirm"} : Choose(v)
  BY <1>1, <1>4, AnsweredChoose DEF IInv
<1>5. CASE OnClose
  BY <1>1, <1>5, AnsweredClose DEF IInv
<1>6. CASE Leave
  BY <1>1, <1>6 DEF IInv, Answered, Leave
<1>7. QED BY <1>2, <1>3, <1>4, <1>5, <1>6, Zenon DEF Next, User

LEMMA Invariant ==
  ASSUME Engine
  PROVE  Spec => []IInv
<1>1. Init => IInv
  BY DEF Init, IInv, TypeOK, Answered
<1>2. IInv /\ [Next]_vars => IInv'
  BY IInvStep
<1>3. QED BY <1>1, <1>2, PTL DEF Spec

\* Once a question is answered and the answer handled, no listener of it is
\* left that the answer to a later one would run, and no form is marked.
THEOREM QuestionsEnd ==
  ASSUME Engine
  PROVE  Spec => []NothingLeft
<1>1. IInv => NothingLeft
  BY DEF IInv, Answered, NothingLeft
<1>2. QED BY <1>1, Invariant, PTL

-----------------------------------------------------------------------------
(* The dialog implements AgreedForms *)

LEMMA CloseSends ==
  ASSUME Engine, IInv, OnClose
  PROVE  A!Send \/ UNCHANGED <<asked, agreed, sent>>
<1>1. CASE returned = "confirm" /\ listeners # <<>>
  <2>1. closes = 1 /\ asked = NoForm
    BY <1>1 DEF OnClose, IInv, Answered
  <2>2. agreed # NoForm /\ listeners = <<agreed>>
    BY <1>1, <2>1 DEF IInv, Answered
  <2>3. sent' = Append(sent, agreed)
    <3>1. sent' = sent \o <<agreed>> /\ sent \in Seq(Forms)
      BY <1>1, <2>2 DEF OnClose, OnConfirm, IInv, TypeOK
    <3>2. QED BY <3>1
  <2>4. QED BY <1>1, <2>2, <2>3 DEF OnClose, A!Send
<1>2. CASE ~(returned = "confirm" /\ listeners # <<>>)
  BY <1>2 DEF OnClose
<1>3. QED BY <1>1, <1>2

LEMMA AbstractStep ==
  ASSUME Engine, IInv, [Next]_vars
  PROVE  [A!Next]_<<asked, agreed, sent>>
<1>1. CASE UNCHANGED vars
  BY <1>1 DEF vars
<1>2. CASE \E f \in Forms : OnSubmit(f)
  <2>1. PICK f \in Forms : OnSubmit(f)
    BY <1>2
  <2>2. A!Ask(f)
    BY <2>1 DEF OnSubmit, AskConfirm, A!Ask, Engine, IInv, Answered
  <2>3. QED BY <2>2 DEF A!Next
<1>3. CASE \E v \in {"cancel", "confirm"} : Choose(v)
  BY <1>3 DEF Choose, A!Next, A!Confirm, A!Cancel
<1>4. CASE OnClose
  BY <1>4, CloseSends DEF A!Next
<1>5. CASE Leave
  BY <1>5 DEF Leave, A!Next, A!Leave
<1>6. QED BY <1>1, <1>2, <1>3, <1>4, <1>5, Zenon DEF Next, User

\* The dialog implements AgreedForms: whatever the user clicks, whichever form
\* he asks about in whichever order, a form is sent only as the answer to the
\* last question, and once.
THEOREM Implementation ==
  ASSUME Engine
  PROVE  Spec => OnlyAgreed
<1>1. Init => A!Init
  BY DEF Init, A!Init
<1>2. IInv /\ [Next]_vars => [A!Next]_<<asked, agreed, sent>>
  BY AbstractStep
<1>3. QED BY <1>1, <1>2, Invariant, PTL DEF Spec, OnlyAgreed, A!Spec
=============================================================================
