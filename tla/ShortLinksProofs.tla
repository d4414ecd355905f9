-------------------------- MODULE ShortLinksProofs ---------------------------
(***************************************************************************)
(* Proofs about ShortLinks for any number of requests, codes, owners and   *)
(* links, any time zone and any number of click workers.                   *)
(***************************************************************************)
EXTENDS ShortLinksProps, FiniteSetTheorems, TLAPS

USE LinksAssumption DEF Ids, NoId, Slots, Fields

-----------------------------------------------------------------------------
(* Types *)

\* An idle request has empty local variables.
LEMMA IdleType == Idle \in Request
BY DEF Idle, Request

\* What a request may ask for as expiration is one.
LEMMA ExpirationType == Expiration \subseteq Expiries
<1>1. \A t \in Lifetimes, z \in {0, Zone} :
        [at |-> t, text |-> t + z] \in [at: Int, text: Int]
  OBVIOUS
<1>2. QED BY <1>1 DEF Expiration, Expiries

\* Time does not change the type of an expiration or of a copied row.
LEMMA AgedType ==
  /\ \A e \in Expiries : Earlier(e) \in Expiries
  /\ \A g \in Columns : g # NoColumns => Aged(g) \in Columns
  /\ \A g \in Columns \cup {NoColumns} : Aged(g) \in Columns \cup {NoColumns}
<1>1. \A e \in Expiries : Earlier(e) \in Expiries
  BY DEF Earlier, Expiries
<1>2. \A g \in Columns : [g EXCEPT !.expires_at = Earlier(@)] \in Columns
  BY <1>1 DEF Columns
<1>3. QED BY <1>1, <1>2 DEF Aged

\* The types of what CreateURL... inserts.
LEMMA NewLinkType ==
  ASSUME TypeOK, NEW r \in Requests, NEW o \in Owners \cup {NoOwner},
         NEW p \in Passwords \cup {NoPassword}, NewLink(r, o, p)
  PROVE  TypeOK'
<1>1. PICK u \in Urls, e \in Expiration :
        cols' = [cols EXCEPT ![nextId] =
                   [url |-> u, password |-> p, expires_at |-> e]]
  BY DEF NewLink
<1>2. [url |-> u, password |-> p, expires_at |-> e] \in Columns
  BY ExpirationType DEF Columns
<1>3. nextId \in Ids /\ nextId' \in 1..(MaxId + 1)
  BY DEF NewLink, Insertable, TypeOK
<1>4. /\ code' \in [Ids -> Codes \cup {NoCode}]
      /\ req[r].on \in Codes \cup {NoCode}
  BY DEF NewLink, TypeOK, Request
<1>5. /\ owner' \in [Ids -> Owners \cup {NoOwner}]
      /\ clicks' \in [Ids -> Nat] /\ slot' \in [Slots -> Ids \cup {NoId}]
      /\ follows' \in [Ids -> Nat]
  BY DEF NewLink, TypeOK
<1>6. /\ cols' \in [Ids -> Columns \cup {NoColumns}]
      /\ \A i \in Ids : Row(i)' => cols'[i] \in Columns
  BY <1>1, <1>2, <1>3 DEF NewLink, TypeOK, Row
<1>7. /\ req' \in [Requests -> Request]
      /\ \A q \in Requests : ~At(q, "idle")' => req'[q].on \in Codes
      /\ \A q \in Requests : Holds(q)' => req'[q].got \in Columns
  BY IdleType DEF NewLink, Answer, TypeOK, Holds, At, Idle
<1>8. since' \in [Requests -> SUBSET Fields]
  BY DEF NewLink, Missed, TypeOK
<1>9. QED BY <1>3, <1>4, <1>5, <1>6, <1>7, <1>8 DEF TypeOK

\* The steps of the other requests, and of the workers, keep the types.
LEMMA RequestTypes ==
  ASSUME TypeOK, NEW r \in Requests,
         \/ \E c \in Codes, w \in Owners \cup {Admin, NoOwner},
              p \in Passwords \cup {NoPassword} : CheckCode(r, c, w, p)
         \/ \E c \in Codes, w \in Owners, next \in {"read", "delete"} :
              CheckOwner(r, c, w, next)
         \/ \E c \in Codes, next \in {"read", "delete"} : PassAdmin(r, c, next)
         \/ \E c \in Codes, d \in Owners \cup {NoOwner},
              p \in Passwords \cup {NoPassword} : Lookup(r, c, d, p)
         \/ ReadLink(r)
  PROVE  TypeOK'
<1>1. ASSUME NEW x \in Request, req' = [req EXCEPT ![r] = x],
             x.on \in Codes, x.pc \in {"write", "gate"} => x.got \in Columns,
             UNCHANGED <<links, clicks, slot, history>>
      PROVE  TypeOK'
  BY <1>1 DEF TypeOK, Holds, At, Row, links, history
<1>2. ASSUME NEW c \in Codes, NEW w \in Owners \cup {Admin, NoOwner},
             NEW p \in Passwords \cup {NoPassword}, CheckCode(r, c, w, p)
      PROVE  TypeOK'
  <2>1. [Idle EXCEPT !.pc = "insert", !.who = w, !.on = c, !.body = p] \in Request
    BY DEF Idle, Request
  <2>2. QED BY <1>1, <1>2, <2>1 DEF CheckCode, Idle
<1>3. ASSUME NEW c \in Codes, NEW w \in Owners, NEW next \in {"read", "delete"},
             CheckOwner(r, c, w, next)
      PROVE  TypeOK'
  <2>1. PICK i \in Ids :
          req' = [req EXCEPT ![r] = [Idle EXCEPT !.pc = next, !.who = w,
                                                 !.on = c, !.seen = i]]
    BY <1>3 DEF CheckOwner, Bound
  <2>2. [Idle EXCEPT !.pc = next, !.who = w, !.on = c, !.seen = i] \in Request
    BY DEF Idle, Request
  <2>3. QED BY <1>1, <1>3, <2>1, <2>2 DEF CheckOwner, Idle
<1>4. ASSUME NEW c \in Codes, NEW next \in {"read", "delete"},
             PassAdmin(r, c, next)
      PROVE  TypeOK'
  <2>1. [Idle EXCEPT !.pc = next, !.who = Admin, !.on = c] \in Request
    BY DEF Idle, Request
  <2>2. QED BY <1>1, <1>4, <2>1 DEF PassAdmin, Idle
<1>5. ASSUME NEW c \in Codes, NEW d \in Owners \cup {NoOwner},
             NEW p \in Passwords \cup {NoPassword}, Lookup(r, c, d, p)
      PROVE  TypeOK'
  <2>1. PICK i \in Bound(c) :
          req' = [req EXCEPT ![r] =
                    [Idle EXCEPT !.pc = "gate", !.who = d, !.on = c,
                                 !.body = p, !.seen = i, !.got = cols[i]]]
    BY <1>5 DEF Lookup
  <2>2. i \in Ids /\ cols[i] \in Columns
    BY <2>1 DEF Bound, TypeOK, Row
  <2>3. [Idle EXCEPT !.pc = "gate", !.who = d, !.on = c, !.body = p,
                     !.seen = i, !.got = cols[i]] \in Request
    BY <2>2 DEF Idle, Request
  <2>4. QED BY <1>1, <1>5, <2>1, <2>2, <2>3 DEF Lookup, Idle
<1>6. CASE ReadLink(r)
  <2>1. PICK i \in Bound(req[r].on), F \in SUBSET Fields :
          req' = [req EXCEPT ![r].pc = "write", ![r].fields = F,
                             ![r].got = cols[i]]
    BY <1>6 DEF ReadLink
  <2>2. i \in Ids /\ req[r] \in Request /\ At(r, "read")
    BY <1>6, <2>1 DEF ReadLink, Bound, TypeOK
  <2>3. req[r].on \in Codes
    BY <2>2 DEF TypeOK, At
  <2>4. cols[i] \in Columns
    BY <2>1, <2>2, <2>3 DEF TypeOK, Row, Bound
  <2>5. DEFINE x == [req[r] EXCEPT !.pc = "write", !.fields = F, !.got = cols[i]]
  <2>6. /\ x \in Request /\ x.on = req[r].on /\ x.got = cols[i]
        /\ req' = [req EXCEPT ![r] = x]
    <3>1. F \in SUBSET Fields
      BY <2>1
    <3>2. req' = [req EXCEPT ![r] = x]
      BY <2>1, <2>2 DEF TypeOK, Request
    <3>3. QED BY <2>2, <2>4, <3>1, <3>2 DEF Request
  <2>7. QED BY <1>1, <1>6, <2>3, <2>4, <2>6 DEF ReadLink
<1>7. QED BY <1>2, <1>3, <1>4, <1>5, <1>6

\* A merged row has the type of a row.
LEMMA MergedType ==
  ASSUME NEW r \in Requests, req[r].got \in Columns,
         NEW new \in [url: Urls, password: Passwords \cup {NoPassword},
                     expires_at: Expiration]
  PROVE  Merged(r, new) \in Columns
BY ExpirationType DEF Merged, Columns

\* UPDATE keeps the types.
LEMMA WriteTypes ==
  ASSUME TypeOK, NEW r \in Requests, WriteLink(r)
  PROVE  TypeOK'
<1>1. PICK new \in [url: Urls, password: Passwords \cup {NoPassword},
                   expires_at: Expiration] :
        /\ cols' = [i \in Ids |-> IF i \in Bound(req[r].on)
                                  THEN Merged(r, new) ELSE cols[i]]
        /\ Missed(r, req[r].on,
                  {f \in Fields : \E i \in Bound(req[r].on) :
                                    Merged(r, new)[f] # cols[i][f]})
  BY DEF WriteLink
<1>2. Merged(r, new) \in Columns
  BY MergedType DEF TypeOK, WriteLink, Holds
<1>3. since' \in [Requests -> SUBSET Fields]
  <2> DEFINE F == {f \in Fields : \E i \in Bound(req[r].on) :
                                   Merged(r, new)[f] # cols[i][f]}
  <2>1. F \in SUBSET Fields /\ Missed(r, req[r].on, F)
    BY <1>1
  <2> HIDE DEF F
  <2>2. QED BY <2>1 DEF Missed, TypeOK
<1>4. /\ req' \in [Requests -> Request]
      /\ \A q \in Requests : ~At(q, "idle")' => req'[q].on \in Codes
      /\ \A q \in Requests : Holds(q)' => req'[q].got \in Columns
  BY IdleType DEF WriteLink, Answer, TypeOK, Holds, At, Idle
<1>5. /\ cols' \in [Ids -> Columns \cup {NoColumns}]
      /\ \A i \in Ids : Row(i)' => cols'[i] \in Columns
  BY <1>1, <1>2 DEF TypeOK, Row, WriteLink
<1>6. QED BY <1>3, <1>4, <1>5 DEF WriteLink, TypeOK

\* Deleting links keeps the types.
LEMMA RemoveTypes ==
  ASSUME TypeOK, NEW S \in SUBSET Ids, Remove(S),
         UNCHANGED req \/ \E r \in Requests : Answer(r)
  PROVE  TypeOK'
<1>1. /\ req' \in [Requests -> Request]
      /\ \A q \in Requests : ~At(q, "idle")' => req'[q].on \in Codes
      /\ \A q \in Requests : Holds(q)' => req'[q].got \in Columns
  <2>1. CASE UNCHANGED req
    BY <2>1 DEF TypeOK, Holds, At
  <2>2. ASSUME NEW r \in Requests, Answer(r)
        PROVE  /\ req' \in [Requests -> Request]
               /\ \A q \in Requests : ~At(q, "idle")' => req'[q].on \in Codes
               /\ \A q \in Requests : Holds(q)' => req'[q].got \in Columns
    BY <2>2, IdleType DEF Answer, TypeOK, Holds, At, Idle
  <2>3. QED BY <2>1, <2>2
<1>2. /\ code' \in [Ids -> Codes \cup {NoCode}]
      /\ owner' \in [Ids -> Owners \cup {NoOwner}]
      /\ cols' \in [Ids -> Columns \cup {NoColumns}]
      /\ \A i \in Ids : Row(i)' => cols'[i] \in Columns
      /\ clicks' \in [Ids -> Nat]
  BY DEF Remove, TypeOK, Row
<1>3. QED BY <1>1, <1>2 DEF Remove, TypeOK, history

\* A request may hold any copy of a row; nothing else of it changes.
LEMMA CopyType ==
  ASSUME NEW x \in Request, NEW c \in Columns \cup {NoColumns}
  PROVE  /\ [x EXCEPT !.got = c] \in Request
         /\ [x EXCEPT !.got = c].pc = x.pc
         /\ [x EXCEPT !.got = c].on = x.on
         /\ [x EXCEPT !.got = c].got = c
<1>1. [x EXCEPT !.got = c] \in Request
  BY DEF Request
<1>2. [x EXCEPT !.got = c].pc = x.pc
  BY DEF Request
<1>3. [x EXCEPT !.got = c].on = x.on
  BY DEF Request
<1>4. [x EXCEPT !.got = c].got = c
  BY DEF Request
<1>5. QED BY <1>1, <1>2, <1>3, <1>4

\* Redirects, clicks, failures and time keep the types.
LEMMA OtherTypes ==
  ASSUME TypeOK,
         \/ \E r \in Requests : Redirect(r) \/ Abort(r)
         \/ \E k \in Slots : RecordClick(k)
         \/ Tick
  PROVE  TypeOK'
<1>1. ASSUME NEW r \in Requests, Answer(r), UNCHANGED <<links, clicks>>,
             since' = [since EXCEPT ![r] = {}],
             slot' \in [Slots -> Ids \cup {NoId}], follows' \in [Ids -> Nat]
      PROVE  TypeOK'
  BY <1>1, IdleType DEF TypeOK, Answer, links, Holds, At, Idle, Row
<1>2. ASSUME NEW r \in Requests, Redirect(r) PROVE TypeOK'
  <2>1. req[r].seen \in Ids \cup {NoId}
    BY DEF TypeOK, Request
  <2>2. follows' \in [Ids -> Nat]
    <3>1. /\ follows' = [follows EXCEPT ![req[r].seen] = @ + 1]
          /\ follows \in [Ids -> Nat]
      BY <1>2 DEF Redirect, TypeOK
    <3>2. CASE req[r].seen \in Ids
      BY <3>1, <3>2
    <3>3. CASE req[r].seen \notin Ids
      BY <3>1, <3>3
    <3>4. QED BY <3>2, <3>3
  <2>3. slot' \in [Slots -> Ids \cup {NoId}]
    BY <1>2, <2>1 DEF Redirect, TypeOK
  <2>4. QED BY <1>1, <1>2, <2>2, <2>3 DEF Redirect
<1>3. ASSUME NEW r \in Requests, Abort(r) PROVE TypeOK'
  BY <1>1, <1>3 DEF Abort, TypeOK
<1>4. ASSUME NEW k \in Slots, RecordClick(k) PROVE TypeOK'
  <2>1. clicks' \in [Ids -> Nat]
    <3>1. CASE UNCHANGED clicks
      BY <3>1 DEF TypeOK
    <3>2. CASE \E j \in Counted(k) : clicks' = [clicks EXCEPT ![j] = @ + 1]
      <4>1. PICK j \in Counted(k) : clicks' = [clicks EXCEPT ![j] = @ + 1]
        BY <3>2
      <4>2. j \in Ids /\ clicks \in [Ids -> Nat]
        BY <4>1 DEF Counted, TypeOK
      <4>3. QED BY <4>1, <4>2
    <3>3. QED BY <1>4, <3>1, <3>2 DEF RecordClick
  <2>2. slot' \in [Slots -> Ids \cup {NoId}]
    BY <1>4 DEF RecordClick, TypeOK
  <2>3. QED
    BY <1>4, <2>1, <2>2 DEF RecordClick, TypeOK, links, history, Row, Holds, At
<1>5. CASE Tick
  <2>1. /\ cols' \in [Ids -> Columns \cup {NoColumns}]
        /\ \A i \in Ids : Row(i)' => cols'[i] \in Columns
    BY <1>5, AgedType DEF Tick, TypeOK, Row
  <2>2. /\ req' \in [Requests -> Request]
        /\ \A q \in Requests : ~At(q, "idle")' => req'[q].on \in Codes
        /\ \A q \in Requests : Holds(q)' => req'[q].got \in Columns
    <3>1. \A q \in Requests :
            /\ req[q] \in Request
            /\ req'[q] = [req[q] EXCEPT !.got = Aged(req[q].got)]
      BY <1>5 DEF Tick, TypeOK
    <3>2. ASSUME NEW q \in Requests
          PROVE  /\ req'[q] \in Request
                 /\ req'[q].pc = req[q].pc
                 /\ req'[q].on = req[q].on
                 /\ req'[q].got = Aged(req[q].got)
      <4>1. req[q] \in Request
        BY <3>1
      <4>2. Aged(req[q].got) \in Columns \cup {NoColumns}
        BY <4>1, AgedType DEF Request
      <4>3. req'[q] = [req[q] EXCEPT !.got = Aged(req[q].got)]
        BY <3>1
      <4>4. QED BY ONLY <4>1, <4>2, <4>3, CopyType
    <3>3. \A q \in Requests : req'[q] \in Request
      BY <3>2
    <3>4. req' \in [Requests -> Request]
      BY <1>5, <3>3 DEF Tick
    <3>5. \A q \in Requests : Holds(q)' => req'[q].got \in Columns
      <4>1. ASSUME NEW q \in Requests, Holds(q)' PROVE req'[q].got \in Columns
        <5>1. req[q].got \in Columns
          BY <3>2, <4>1 DEF Holds, At, TypeOK
        <5>2. QED BY <3>2, <5>1, AgedType
      <4>2. QED BY <4>1
    <3>6. QED BY <3>2, <3>4, <3>5 DEF TypeOK, At
  <2>3. QED BY <1>5, <2>1, <2>2 DEF Tick, TypeOK, history
<1>6. QED BY <1>2, <1>3, <1>4, <1>5

\* TypeOK is inductive.
LEMMA TypeNext == TypeOK /\ [Next]_vars => TypeOK'
<1> SUFFICES ASSUME TypeOK, [Next]_vars PROVE TypeOK'
  OBVIOUS
<1>1. ASSUME NEW r \in Requests, InsertLink(r) \/ InsertOwned(r) PROVE TypeOK'
  BY <1>1, NewLinkType DEF InsertLink, InsertOwned, TypeOK, Request
<1>2. ASSUME NEW r \in Requests, DeleteLink(r) PROVE TypeOK'
  BY <1>2, RemoveTypes DEF DeleteLink, Bound
<1>3. CASE ExpireURLs
  BY <1>3, RemoveTypes DEF ExpireURLs
<1>4. CASE UNCHANGED vars
  BY <1>4 DEF vars, links, history, TypeOK, Row, Holds, At
<1>5. QED BY <1>1, <1>2, <1>3, <1>4, RequestTypes, WriteTypes, OtherTypes DEF Next

\* The empty database and idle requests have the types.
LEMMA InitTypes == Init => TypeOK
BY IdleType DEF Init, TypeOK, Idle, Row, Holds, At

\* Every table column, request and worker keeps its type.
THEOREM TypeCorrect == Spec => []TypeOK
BY InitTypes, TypeNext, PTL DEF Spec

-----------------------------------------------------------------------------
(* What one step does to the table *)

\* Link i is inserted: its id and its code are new.
Inserted(i) ==
  /\ i = nextId /\ nextId' = nextId + 1
  /\ Row(i)' /\ Bound(code'[i]) = {}
  /\ \A j \in Ids : j # i => code'[j] = code[j] /\ owner'[j] = owner[j]

\* A step keeps code and owner of a link, or deletes it, or inserts it.
RowStep(i) ==
  \/ code'[i] = code[i] /\ owner'[i] = owner[i]
  \/ ~Row(i)'
  \/ Inserted(i)

\* INSERT is the one step that gives a link its code and its owner.
LEMMA InsertStep ==
  ASSUME TypeOK, NEW r \in Requests, NEW o \in Owners \cup {NoOwner},
         NEW p \in Passwords \cup {NoPassword}, NewLink(r, o, p)
  PROVE  nextId' = nextId + 1 /\ \A i \in Ids : RowStep(i)
<1>1. /\ nextId \in Ids
      /\ code' = [code EXCEPT ![nextId] = req[r].on]
      /\ owner' = [owner EXCEPT ![nextId] = o]
      /\ Bound(req[r].on) = {} /\ nextId' = nextId + 1
  BY DEF NewLink, Insertable, TypeOK
<1>2. req[r].on \in Codes
  BY DEF NewLink, TypeOK, At
<1>3. code'[nextId] = req[r].on
  BY <1>1 DEF TypeOK
<1>4. \A j \in Ids : j # nextId => code'[j] = code[j] /\ owner'[j] = owner[j]
  BY <1>1 DEF TypeOK
<1>5. ASSUME NEW i \in Ids, i = nextId PROVE Inserted(i)
  BY <1>1, <1>2, <1>3, <1>4, <1>5 DEF Inserted, Row
<1>6. QED BY <1>1, <1>4, <1>5 DEF RowStep

\* Every step of the program is a RowStep for every link.
LEMMA RowSteps ==
  ASSUME TypeOK, [Next]_vars
  PROVE  nextId' \in {nextId, nextId + 1} /\ \A i \in Ids : RowStep(i)
<1>1. ASSUME NEW r \in Requests, InsertLink(r) \/ InsertOwned(r)
      PROVE  nextId' = nextId + 1 /\ \A i \in Ids : RowStep(i)
  BY <1>1, InsertStep DEF InsertLink, InsertOwned, TypeOK, Request
<1>2. ASSUME NEW S \in SUBSET Ids, Remove(S)
      PROVE  nextId' = nextId /\ \A i \in Ids : RowStep(i)
  BY <1>2 DEF Remove, RowStep, Row
<1>3. ASSUME NEW r \in Requests, DeleteLink(r)
      PROVE  nextId' = nextId /\ \A i \in Ids : RowStep(i)
  BY <1>2, <1>3 DEF DeleteLink, Bound
<1>4. CASE ExpireURLs
  BY <1>2, <1>4 DEF ExpireURLs
<1>5. CASE UNCHANGED <<nextId, code, owner>>
  BY <1>5 DEF RowStep
<1>6. CASE UNCHANGED vars
  BY <1>5, <1>6 DEF vars, links
<1>7. ASSUME NEW r \in Requests,
             \/ WriteLink(r) \/ Redirect(r) \/ Abort(r) \/ ReadLink(r)
             \/ \E c \in Codes :
                  \/ \E w \in Owners \cup {Admin, NoOwner},
                        p \in Passwords \cup {NoPassword} : CheckCode(r, c, w, p)
                  \/ \E next \in {"read", "delete"} :
                       \/ \E w \in Owners : CheckOwner(r, c, w, next)
                       \/ PassAdmin(r, c, next)
                  \/ \E d \in Owners \cup {NoOwner},
                        p \in Passwords \cup {NoPassword} : Lookup(r, c, d, p)
      PROVE  UNCHANGED <<nextId, code, owner>>
  BY <1>7 DEF WriteLink, Redirect, Abort, ReadLink, CheckCode, CheckOwner,
              PassAdmin, Lookup, links
<1>8. ASSUME NEW k \in Slots, RecordClick(k)
      PROVE  UNCHANGED <<nextId, code, owner>>
  BY <1>8 DEF RecordClick, links
<1>9. CASE Tick
  BY <1>5, <1>9 DEF Tick
<1>10. QED
  BY <1>1, <1>3, <1>4, <1>5, <1>6, <1>7, <1>8, <1>9 DEF Next

-----------------------------------------------------------------------------
(* Codes *)

\* Ids are given out once.
Issued == \A i \in Ids : i >= nextId => ~Row(i)

RowInv == TypeOK /\ Issued /\ CodesUnique

\* The rows of the table stay apart.
LEMMA RowInvNext == RowInv /\ [Next]_vars => RowInv'
<1> SUFFICES ASSUME RowInv, [Next]_vars PROVE RowInv'
  OBVIOUS
<1>1. TypeOK /\ TypeOK' /\ nextId \in Int
  <2>1. TypeOK /\ TypeOK'
    BY TypeNext DEF RowInv
  <2>2. nextId \in Int
    BY <2>1 DEF TypeOK
  <2>3. QED BY <2>1, <2>2
<1>2. nextId' \in {nextId, nextId + 1} /\ \A i \in Ids : RowStep(i)
  BY <1>1, RowSteps
<1>3. Issued'
  <2>1. ASSUME NEW i \in Ids, i >= nextId' PROVE ~Row(i)'
    <3>1. i >= nextId /\ (i # nextId \/ nextId' = nextId)
      BY <1>1, <1>2, <2>1
    <3>2. ~Row(i)
      BY <1>1, <3>1 DEF RowInv, Issued
    <3>3. ~Inserted(i)
      BY <1>1, <2>1, <3>1 DEF Inserted
    <3>4. QED BY <1>2, <3>2, <3>3 DEF RowStep, Row
  <2>2. QED BY <2>1 DEF Issued
<1>4. CodesUnique'
  <2>1. SUFFICES ASSUME NEW i \in Ids, NEW j \in Ids, Row(i)', Row(j)',
                        code'[i] = code'[j], i # j
                 PROVE  FALSE
    BY DEF CodesUnique
  <2>2. ASSUME NEW m \in Ids, NEW n \in Ids, m # n, Inserted(m),
               code'[m] = code'[n]
        PROVE  FALSE
    BY <2>2 DEF Inserted, Bound
  <2>3. code'[i] = code[i] /\ code'[j] = code[j]
    BY <1>2, <2>1, <2>2 DEF RowStep
  <2>4. QED BY <2>1, <2>3 DEF RowInv, CodesUnique, Row
<1>5. QED BY <1>1, <1>3, <1>4 DEF RowInv

\* An empty table satisfies it.
LEMMA InitRows == Init => RowInv
<1>1. Init => TypeOK
  BY InitTypes
<1>2. Init => Issued /\ CodesUnique
  BY DEF Init, Issued, CodesUnique, Row
<1>3. QED BY <1>1, <1>2 DEF RowInv

\* Codes are unique, and ids not given out are free, in every state.
LEMMA RowInvAlways == Spec => []RowInv
BY InitRows, RowInvNext, PTL DEF Spec

\* A short code leads to one link at most, whatever creations race for it.
THEOREM UniqueCodes == Spec => []CodesUnique
<1>1. RowInv => CodesUnique
  BY DEF RowInv
<1>2. QED BY <1>1, RowInvAlways, PTL

-----------------------------------------------------------------------------
(* Owners *)

\* Link i, if it still exists, has code c, and w owns it or may be anyone.
Right(i, c, w) ==
  /\ i \in Ids /\ i < nextId
  /\ Row(i) => code[i] = c /\ w \in {NoOwner, owner[i]}

Mutates(r) == req[r].pc \in {"read", "write", "delete"}

\* What the first SELECT of a request found stays true of the link it found.
Checked ==
  \A r \in Requests :
    /\ Mutates(r) => req[r].who # NoOwner
    /\ At(r, "gate") \/ (Mutates(r) /\ req[r].who # Admin)
       => Right(req[r].seen, req[r].on, req[r].who)

\* A step of the program begins a request with a check, or keeps what it
\* checked, or ends it.
Keeps(r) ==
  /\ req'[r].who = req[r].who /\ req'[r].on = req[r].on
  /\ req'[r].seen = req[r].seen
  /\ req'[r].pc = req[r].pc \/ (At(r, "read") /\ req'[r].pc = "write")
Begins(r) ==
  /\ UNCHANGED links
  /\ \E i \in Bound(req'[r].on) :
       /\ req'[r].seen = i
       /\ req'[r].who \in {NoOwner, owner[i]}
       /\ req'[r].pc \in {"read", "delete", "gate"}
       /\ req'[r].pc # "gate" => req'[r].who # NoOwner
ReqStep(r) ==
  \/ req'[r].pc \in {"idle", "insert"}
  \/ Keeps(r)
  \/ Begins(r)
  \/ req'[r].who = Admin /\ req'[r].pc \in {"read", "delete"}

\* A step that answers a request is a ReqStep for every request.
LEMMA AnswerStep ==
  ASSUME TypeOK, NEW r \in Requests, Answer(r)
  PROVE  \A q \in Requests : ReqStep(q)
BY DEF Answer, TypeOK, ReqStep, Keeps, Idle

\* So is a step that moves request r alone.
LEMMA MoveStep ==
  ASSUME TypeOK, NEW r \in Requests, NEW x \in Request,
         req' = [req EXCEPT ![r] = x], req'[r] = x => ReqStep(r)
  PROVE  \A q \in Requests : ReqStep(q)
<1>1. ASSUME NEW q \in Requests, q # r PROVE ReqStep(q)
  BY <1>1 DEF TypeOK, ReqStep, Keeps
<1>2. req'[r] = x
  BY DEF TypeOK
<1>3. QED BY <1>1, <1>2

\* And so is every step.
LEMMA ReqSteps ==
  ASSUME TypeOK, [Next]_vars
  PROVE  \A q \in Requests : ReqStep(q)
<1>1. ASSUME NEW r \in Requests,
             \/ InsertLink(r) \/ InsertOwned(r) \/ WriteLink(r)
             \/ DeleteLink(r) \/ Redirect(r) \/ Abort(r)
      PROVE  \A q \in Requests : ReqStep(q)
  BY <1>1, AnswerStep
     DEF InsertLink, InsertOwned, NewLink, WriteLink, DeleteLink, Redirect, Abort
<1>2. ASSUME NEW r \in Requests, NEW c \in Codes,
             NEW w \in Owners \cup {Admin, NoOwner},
             NEW p \in Passwords \cup {NoPassword}, CheckCode(r, c, w, p)
      PROVE  \A q \in Requests : ReqStep(q)
  <2> DEFINE x == [Idle EXCEPT !.pc = "insert", !.who = w, !.on = c, !.body = p]
  <2>1. x \in Request /\ x.pc = "insert"
    BY DEF Idle, Request
  <2>2. req' = [req EXCEPT ![r] = x]
    BY <1>2 DEF CheckCode
  <2> HIDE DEF x
  <2>3. req'[r] = x => ReqStep(r)
    BY <2>1 DEF ReqStep
  <2>4. QED BY <2>1, <2>2, <2>3, MoveStep
<1>3. ASSUME NEW r \in Requests, NEW c \in Codes, NEW w \in Owners,
             NEW next \in {"read", "delete"}, CheckOwner(r, c, w, next)
      PROVE  \A q \in Requests : ReqStep(q)
  <2>1. PICK i \in Bound(c) :
          /\ Owns(w, i)
          /\ req' = [req EXCEPT ![r] = [Idle EXCEPT !.pc = next, !.who = w,
                                                    !.on = c, !.seen = i]]
    BY <1>3 DEF CheckOwner
  <2> DEFINE x == [Idle EXCEPT !.pc = next, !.who = w, !.on = c, !.seen = i]
  <2>2. /\ x \in Request /\ x.pc = next /\ x.who = w /\ x.on = c /\ x.seen = i
    BY <2>1 DEF Idle, Request, Bound
  <2>3. req' = [req EXCEPT ![r] = x] /\ UNCHANGED links
    BY <1>3, <2>1 DEF CheckOwner
  <2> HIDE DEF x
  <2>4. req'[r] = x => ReqStep(r)
    BY <2>1, <2>2, <2>3 DEF ReqStep, Begins, Owns
  <2>5. QED BY <2>2, <2>3, <2>4, MoveStep
<1>4. ASSUME NEW r \in Requests, NEW c \in Codes,
             NEW next \in {"read", "delete"}, PassAdmin(r, c, next)
      PROVE  \A q \in Requests : ReqStep(q)
  <2> DEFINE x == [Idle EXCEPT !.pc = next, !.who = Admin, !.on = c]
  <2>1. x \in Request /\ x.pc = next /\ x.who = Admin
    BY DEF Idle, Request
  <2>2. req' = [req EXCEPT ![r] = x]
    BY <1>4 DEF PassAdmin
  <2> HIDE DEF x
  <2>3. req'[r] = x => ReqStep(r)
    BY <2>1 DEF ReqStep
  <2>4. QED BY <2>1, <2>2, <2>3, MoveStep
<1>5. ASSUME NEW r \in Requests, NEW c \in Codes, NEW d \in Owners \cup {NoOwner},
             NEW p \in Passwords \cup {NoPassword}, Lookup(r, c, d, p)
      PROVE  \A q \in Requests : ReqStep(q)
  <2>1. PICK i \in Bound(c) :
          /\ Visible(i, d)
          /\ req' = [req EXCEPT ![r] =
                       [Idle EXCEPT !.pc = "gate", !.who = d, !.on = c,
                                    !.body = p, !.seen = i, !.got = cols[i]]]
    BY <1>5 DEF Lookup
  <2> DEFINE x == [Idle EXCEPT !.pc = "gate", !.who = d, !.on = c, !.body = p,
                               !.seen = i, !.got = cols[i]]
  <2>2. i \in Ids /\ cols[i] \in Columns
    BY <2>1 DEF Bound, TypeOK, Row
  <2>3. x \in Request /\ x.pc = "gate" /\ x.who = d /\ x.on = c /\ x.seen = i
    BY <2>2 DEF Idle, Request
  <2>4. req' = [req EXCEPT ![r] = x] /\ UNCHANGED links
    BY <1>5, <2>1 DEF Lookup
  <2> HIDE DEF x
  <2>5. req'[r] = x => ReqStep(r)
    BY <2>1, <2>3, <2>4 DEF ReqStep, Begins, Visible
  <2>6. QED BY <2>3, <2>4, <2>5, MoveStep
<1>6. ASSUME NEW r \in Requests, ReadLink(r)
      PROVE  \A q \in Requests : ReqStep(q)
  BY <1>6 DEF ReadLink, TypeOK, Request, ReqStep, Keeps, At
<1>7. CASE UNCHANGED req
  BY <1>7 DEF ReqStep, Keeps
<1>8. CASE Tick
  BY <1>8 DEF Tick, TypeOK, Request, ReqStep, Keeps
<1>9. CASE UNCHANGED vars \/ ExpireURLs \/ \E k \in Slots : RecordClick(k)
  BY <1>7, <1>9 DEF vars, ExpireURLs, RecordClick
<1>10. QED
  BY <1>1, <1>2, <1>3, <1>4, <1>5, <1>6, <1>8, <1>9 DEF Next

\* A right, once found, lasts as long as its link.
LEMMA RightLasts ==
  ASSUME TypeOK, [Next]_vars, NEW i, NEW c, NEW w, Right(i, c, w)
  PROVE  Right(i, c, w)'
<1>1. i \in Ids /\ i < nextId /\ nextId \in Int
  BY DEF Right, TypeOK
<1>2. nextId' \in {nextId, nextId + 1} /\ RowStep(i)
  BY <1>1, RowSteps
<1>3. i < nextId' /\ ~Inserted(i)
  BY <1>1, <1>2 DEF Inserted
<1>4. QED BY <1>1, <1>2, <1>3 DEF RowStep, Right, Row

OwnerInv == RowInv /\ Checked

\* OwnerInv is inductive.
LEMMA OwnerInvNext == OwnerInv /\ [Next]_vars => OwnerInv'
<1> SUFFICES ASSUME OwnerInv, [Next]_vars PROVE OwnerInv'
  OBVIOUS
<1>1. RowInv /\ RowInv' /\ Checked
  BY RowInvNext DEF OwnerInv
<1>2. TypeOK /\ Issued
  BY <1>1 DEF RowInv
<1>3. ASSUME NEW r \in Requests
      PROVE  /\ Mutates(r)' => req'[r].who # NoOwner
             /\ At(r, "gate")' \/ (Mutates(r)' /\ req'[r].who # Admin)
                => Right(req[r].seen, req[r].on, req[r].who)'
  <2>1. CASE req'[r].pc \in {"idle", "insert"}
    BY <2>1 DEF Mutates, At
  <2>2. CASE req'[r].who = Admin /\ req'[r].pc \in {"read", "delete"}
    BY <2>2 DEF Mutates, At
  <2>3. CASE Keeps(r)
    <3>1. Mutates(r)' => Mutates(r)
      BY <2>3 DEF Keeps, Mutates, At
    <3>2. At(r, "gate")' => At(r, "gate")
      BY <2>3 DEF Keeps, At
    <3>3. ASSUME Right(req[r].seen, req[r].on, req[r].who)
          PROVE  Right(req[r].seen, req[r].on, req[r].who)'
      <4>1. PICK i, c, w : /\ i = req[r].seen /\ c = req[r].on
                           /\ w = req[r].who
        OBVIOUS
      <4>2. Right(i, c, w)
        BY <3>3, <4>1
      <4>3. Right(i, c, w)'
        BY <1>2, <4>2, RightLasts
      <4>4. QED BY <2>3, <4>1, <4>3 DEF Keeps, Right, Row
    <3>4. QED BY <1>1, <2>3, <3>1, <3>2, <3>3 DEF Checked, Keeps
  <2>4. CASE Begins(r)
    <3>1. PICK i \in Bound(req'[r].on) :
            /\ req'[r].seen = i
            /\ req'[r].who \in {NoOwner, owner[i]}
            /\ req'[r].pc \in {"read", "delete", "gate"}
            /\ req'[r].pc # "gate" => req'[r].who # NoOwner
      BY <2>4 DEF Begins
    <3>2. UNCHANGED <<nextId, code, owner>>
      BY <2>4 DEF Begins, links
    <3>3. Row(i) => i < nextId
      BY <1>2, <3>1 DEF Issued, Bound, TypeOK
    <3>4. ~At(r, "idle")' => req'[r].on \in Codes
      BY <1>1 DEF RowInv, TypeOK
    <3>5. i \in Ids /\ code[i] = req'[r].on /\ Row(i)
      BY <3>1, <3>4 DEF Bound, At, Row
    <3>6. Right(req[r].seen, req[r].on, req[r].who)'
      BY <3>1, <3>2, <3>3, <3>5 DEF Right, Row
    <3>7. QED BY <3>1, <3>6 DEF Mutates, At
  <2>5. QED BY <1>2, <2>1, <2>2, <2>3, <2>4, ReqSteps DEF ReqStep
<1>4. QED BY <1>1, <1>3 DEF OwnerInv, Checked

\* What a request checked is right in every state.
LEMMA OwnerInvAlways == Spec => []OwnerInv
<1>1. Init => RowInv
  BY InitRows
<1>2. Init => Checked
  BY DEF Init, Checked, Mutates, At, Idle
<1>3. QED BY <1>1, <1>2, OwnerInvNext, PTL DEF Spec, OwnerInv

\* Only the UPDATE or DELETE of r itself, or a failure, answers r.
LEMMA ByItself ==
  ASSUME TypeOK, [Next]_vars, NEW r \in Requests,
         NEW step \in {"write", "delete", "gate"}, Does(r, step)
  PROVE  \/ step = "write" /\ WriteLink(r)
         \/ step = "delete" /\ DeleteLink(r)
         \/ step = "gate" /\ Redirect(r)
         \/ Abort(r)
<1>1. req[r].pc = step /\ req'[r].pc = "idle"
  BY DEF Does, At
<1>2. ASSUME NEW q \in Requests, NEW x \in Request,
             req' = [req EXCEPT ![q] = x], x.pc # "idle"
      PROVE  FALSE
  BY <1>1, <1>2 DEF TypeOK
<1>3. ASSUME NEW q \in Requests, Answer(q) PROVE q = r
  BY <1>1, <1>3 DEF Answer, TypeOK
<1>4. ASSUME \/ UNCHANGED vars \/ ExpireURLs \/ Tick
             \/ \E k \in Slots : RecordClick(k)
      PROVE  FALSE
  <2>1. UNCHANGED req \/ Tick
    BY <1>4 DEF vars, ExpireURLs, RecordClick
  <2>2. Tick => req'[r].pc = req[r].pc
    BY DEF Tick, TypeOK, Request
  <2>3. QED BY <1>1, <2>1, <2>2
<1>5. ASSUME NEW q \in Requests, ReadLink(q) PROVE FALSE
  BY <1>1, <1>5 DEF ReadLink, TypeOK, Request
<1>6. ASSUME NEW q \in Requests, NEW c \in Codes,
             \/ \E w \in Owners \cup {Admin, NoOwner},
                   p \in Passwords \cup {NoPassword} : CheckCode(q, c, w, p)
             \/ \E next \in {"read", "delete"} :
                  \/ \E w \in Owners : CheckOwner(q, c, w, next)
                  \/ PassAdmin(q, c, next)
             \/ \E d \in Owners \cup {NoOwner},
                   p \in Passwords \cup {NoPassword} : Lookup(q, c, d, p)
      PROVE  FALSE
  <2>1. At(q, "idle") /\ \A o \in Requests \ {q} : req'[o] = req[o]
    BY <1>6 DEF CheckCode, CheckOwner, PassAdmin, Lookup, TypeOK
  <2>2. q # r
    BY <1>1, <2>1 DEF At
  <2>3. QED BY <1>1, <2>1, <2>2
<1>7. ASSUME NEW q \in Requests,
             \/ InsertLink(q) \/ InsertOwned(q) \/ WriteLink(q)
             \/ DeleteLink(q) \/ Redirect(q) \/ Abort(q)
      PROVE  /\ q = r
             /\ ~InsertLink(q) /\ ~InsertOwned(q)
             /\ WriteLink(q) => step = "write"
             /\ DeleteLink(q) => step = "delete"
             /\ Redirect(q) => step = "gate"
  <2>1. q = r
    BY <1>3, <1>7 DEF InsertLink, InsertOwned, NewLink, WriteLink, DeleteLink,
                      Redirect, Abort
  <2>2. QED BY <1>1, <2>1 DEF InsertLink, InsertOwned, NewLink, WriteLink,
                              DeleteLink, Redirect, At
<1>8. \E q \in Requests :
        \/ InsertLink(q) \/ InsertOwned(q) \/ WriteLink(q)
        \/ DeleteLink(q) \/ Redirect(q) \/ Abort(q)
  BY <1>4, <1>5, <1>6 DEF Next
<1>9. QED BY <1>7, <1>8

\* A link is changed or deleted for its owner, an administrator, or a former
\* owner of its code whose own link is gone.
THEOREM OnlyOwners == Spec => OwnerOrFormerOwner
<1>1. ASSUME OwnerInv, [Next]_vars, NEW r \in Requests, NEW i \in Ids,
             Touched(i), NEW step \in {"write", "delete"}, Does(r, step)
      PROVE  req[r].who \in {Admin, owner[i]} \/ ~Row(req[r].seen)
  <2>1. TypeOK /\ CodesUnique /\ Checked
    BY <1>1 DEF OwnerInv, RowInv
  <2>2. ~Abort(r)
    BY <1>1 DEF Abort, links, Touched
  <2>3. WriteLink(r) \/ DeleteLink(r)
    BY <1>1, <2>1, <2>2, ByItself
  <2>4. i \in Bound(req[r].on)
    <3>1. CASE WriteLink(r)
      BY <1>1, <2>1, <3>1 DEF WriteLink, Touched, TypeOK
    <3>2. CASE DeleteLink(r)
      BY <1>1, <2>1, <3>2 DEF DeleteLink, Remove, Touched, TypeOK
    <3>3. QED BY <2>3, <3>1, <3>2
  <2>5. Mutates(r)
    BY <1>1 DEF Does, At, Mutates
  <2>6. SUFFICES ASSUME req[r].who # Admin, Row(req[r].seen)
                 PROVE  req[r].who = owner[i]
    OBVIOUS
  <2>7. /\ req[r].seen \in Ids /\ code[req[r].seen] = req[r].on
        /\ req[r].who = owner[req[r].seen]
    BY <2>1, <2>5, <2>6 DEF Checked, Right
  <2>8. req[r].seen = i
    BY <1>1, <2>1, <2>4, <2>6, <2>7 DEF CodesUnique, Bound, Touched
  <2>9. QED BY <2>7, <2>8
<1>2. OwnerInv /\ [Next]_vars
      => [\A r \in Requests, i \in Ids :
            Touched(i) /\ (Does(r, "write") \/ Does(r, "delete"))
            => \/ req[r].who \in {Admin, owner[i]}
               \/ ~Row(req[r].seen)]_vars
  BY <1>1
<1>3. QED BY <1>2, OwnerInvAlways, PTL DEF Spec, OwnerOrFormerOwner

-----------------------------------------------------------------------------
(* Copies *)

\* The copy r works on agrees with the link of its code in every column that
\* is not marked as changed since.
Agrees(r) ==
  \A i \in Bound(req[r].on), f \in Fields :
    f \in since[r] \/ req[r].got[f] = cols[i][f]

CopyInv == \A r \in Requests : Holds(r) => Agrees(r)

\* A step that moves request r alone, in an unchanged table, keeps the copies
\* of the others.
LEMMA MovedCopies ==
  ASSUME TypeOK, CopyInv, NEW r \in Requests, NEW x,
         req' = [req EXCEPT ![r] = x], UNCHANGED <<code, cols>>,
         \A q \in Requests : q # r => since'[q] = since[q],
         x.pc \in {"write", "gate"} => Agrees(r)'
  PROVE  CopyInv'
<1>1. ASSUME NEW q \in Requests, q # r, Holds(q)' PROVE Agrees(q)'
  <2>1. req'[q] = req[q] /\ since'[q] = since[q]
    BY <1>1 DEF TypeOK
  <2>2. Agrees(q)
    BY <1>1, <2>1 DEF CopyInv, Holds, At
  <2>3. QED BY <2>1, <2>2 DEF Agrees, Bound
<1>2. ASSUME Holds(r)' PROVE Agrees(r)'
  BY <1>2 DEF Holds, At, TypeOK
<1>3. QED BY <1>1, <1>2 DEF CopyInv

\* A code leads to one link.
LEMMA SoleLink ==
  ASSUME CodesUnique, NEW c \in Codes, NEW i \in Bound(c), NEW j \in Bound(c)
  PROVE  i = j
BY DEF CodesUnique, Bound, Row

\* A SELECT agrees with what it read.
LEMMA SelectCopies ==
  ASSUME RowInv, CopyInv, NEW r \in Requests,
         \/ ReadLink(r)
         \/ \E c \in Codes, d \in Owners \cup {NoOwner},
              p \in Passwords \cup {NoPassword} : Lookup(r, c, d, p)
  PROVE  CopyInv'
<1>1. TypeOK /\ CodesUnique
  BY DEF RowInv
<1>2. ASSUME NEW x, NEW c \in Codes, NEW i \in Bound(c), x.on = c,
             x.got = cols[i], req' = [req EXCEPT ![r] = x],
             UNCHANGED <<code, cols, since>>
      PROVE  CopyInv'
  <2>1. req'[r] = x
    BY <1>1, <1>2 DEF TypeOK
  <2>2. Bound(c)' = Bound(c)
    BY <1>2 DEF Bound
  <2>3. \A j \in Bound(c) : j = i
    BY <1>1, <1>2, SoleLink
  <2>4. Agrees(r)'
    BY <1>2, <2>1, <2>2, <2>3 DEF Agrees
  <2>5. QED BY <1>1, <1>2, <2>4, MovedCopies
<1>3. CASE ReadLink(r)
  <2>1. PICK i \in Bound(req[r].on), F \in SUBSET Fields :
          req' = [req EXCEPT ![r].pc = "write", ![r].fields = F,
                             ![r].got = cols[i]]
    BY <1>3 DEF ReadLink
  <2>2. req[r].on \in Codes /\ req[r] \in Request
    BY <1>1, <1>3 DEF ReadLink, TypeOK, At
  <2> DEFINE x == [req[r] EXCEPT !.pc = "write", !.fields = F, !.got = cols[i]]
  <2>3. x.on = req[r].on /\ x.got = cols[i] /\ req' = [req EXCEPT ![r] = x]
    BY <1>1, <2>1, <2>2 DEF TypeOK, Request
  <2>4. UNCHANGED <<code, cols, since>>
    BY <1>3 DEF ReadLink, links, history
  <2>5. QED BY <1>2, <2>2, <2>3, <2>4
<1>4. ASSUME NEW c \in Codes, NEW d \in Owners \cup {NoOwner},
             NEW p \in Passwords \cup {NoPassword}, Lookup(r, c, d, p)
      PROVE  CopyInv'
  <2>1. PICK i \in Bound(c) :
          req' = [req EXCEPT ![r] =
                    [Idle EXCEPT !.pc = "gate", !.who = d, !.on = c,
                                 !.body = p, !.seen = i, !.got = cols[i]]]
    BY <1>4 DEF Lookup
  <2> DEFINE x == [Idle EXCEPT !.pc = "gate", !.who = d, !.on = c,
                               !.body = p, !.seen = i, !.got = cols[i]]
  <2>2. x.on = c /\ x.got = cols[i] /\ req' = [req EXCEPT ![r] = x]
    BY <2>1 DEF Idle
  <2>3. UNCHANGED <<code, cols, since>>
    BY <1>4 DEF Lookup, links, history
  <2>4. QED BY <1>2, <2>2, <2>3
<1>5. QED BY <1>3, <1>4

\* A step that answers r and tells the others that hold a copy which columns
\* it changed, if it only changes the link of its own code, keeps the copies.
LEMMA MissedCopies ==
  ASSUME TypeOK, CopyInv, NEW r \in Requests, Answer(r),
         NEW F \in SUBSET Fields, Missed(r, req[r].on, F),
         \A i \in Ids :
           \/ code'[i] = code[i] /\ cols'[i] = cols[i]
           \/ code'[i] = req[r].on
              /\ \/ F = Fields
                 \/ code[i] = code'[i]
                    /\ \A f \in Fields : f \in F \/ cols'[i][f] = cols[i][f]
  PROVE  CopyInv'
<1>1. ASSUME NEW q \in Requests, Holds(q)' PROVE Agrees(q)'
  <2>1. q # r
    BY <1>1 DEF Answer, TypeOK, Holds, At, Idle
  <2>2. req'[q] = req[q] /\ Holds(q)
    BY <1>1, <2>1 DEF Answer, TypeOK, Holds, At
  <2>3. Agrees(q)
    BY <2>2 DEF CopyInv
  <2>4. since'[q] = IF req[q].on = req[r].on THEN since[q] \cup F ELSE since[q]
    BY <2>1, <2>2 DEF Missed
  <2>5. ASSUME NEW i \in Bound(req[q].on)', NEW f \in Fields
        PROVE  f \in since'[q] \/ req'[q].got[f] = cols'[i][f]
    <3>1. i \in Ids /\ code'[i] = req[q].on
      BY <2>2 DEF Bound
    <3>2. CASE code'[i] = code[i] /\ cols'[i] = cols[i]
      BY <2>2, <2>3, <2>4, <3>1, <3>2 DEF Agrees, Bound
    <3>3. CASE code'[i] = req[r].on /\ F = Fields
      BY <2>4, <3>1, <3>3
    <3>4. CASE /\ code'[i] = req[r].on /\ code[i] = code'[i]
               /\ f \in F \/ cols'[i][f] = cols[i][f]
      BY <2>2, <2>3, <2>4, <3>1, <3>4 DEF Agrees, Bound
    <3>5. QED BY <3>1, <3>2, <3>3, <3>4
  <2>6. QED BY <2>5 DEF Agrees
<1>2. QED BY <1>1 DEF CopyInv

\* So do INSERT and UPDATE.
LEMMA InsertCopies ==
  ASSUME TypeOK, CopyInv, NEW r \in Requests, NEW o, NEW p, NewLink(r, o, p)
  PROVE  CopyInv'
<1>1. PICK u \in Urls, e \in Expiration :
        cols' = [cols EXCEPT ![nextId] =
                   [url |-> u, password |-> p, expires_at |-> e]]
  BY DEF NewLink
<1>2. /\ Answer(r) /\ Missed(r, req[r].on, Fields)
      /\ code' = [code EXCEPT ![nextId] = req[r].on]
      /\ nextId \in Ids
  BY DEF NewLink, Insertable, TypeOK
<1>3. ASSUME NEW i \in Ids
      PROVE  \/ code'[i] = code[i] /\ cols'[i] = cols[i]
             \/ code'[i] = req[r].on
  BY <1>1, <1>2 DEF TypeOK
<1>4. QED BY <1>2, <1>3, MissedCopies

LEMMA UpdateCopies ==
  ASSUME TypeOK, CopyInv, NEW r \in Requests, WriteLink(r)
  PROVE  CopyInv'
<1>1. PICK new \in [url: Urls, password: Passwords \cup {NoPassword},
                   expires_at: Expiration] :
        /\ cols' = [i \in Ids |-> IF i \in Bound(req[r].on)
                                  THEN Merged(r, new) ELSE cols[i]]
        /\ Missed(r, req[r].on,
                  {f \in Fields : \E i \in Bound(req[r].on) :
                                    Merged(r, new)[f] # cols[i][f]})
  BY DEF WriteLink
<1> DEFINE F == {f \in Fields : \E i \in Bound(req[r].on) :
                                  Merged(r, new)[f] # cols[i][f]}
<1>2. F \in SUBSET Fields /\ Missed(r, req[r].on, F)
  BY <1>1
<1>3. Answer(r) /\ code' = code
  BY DEF WriteLink
<1>4. ASSUME NEW i \in Ids
      PROVE  \/ code'[i] = code[i] /\ cols'[i] = cols[i]
             \/ /\ code'[i] = req[r].on /\ code[i] = code'[i]
                /\ \A f \in Fields : f \in F \/ cols'[i][f] = cols[i][f]
  <2>1. CASE i \in Bound(req[r].on)
    <3>1. cols'[i] = Merged(r, new) /\ code[i] = req[r].on
      BY <1>1, <2>1 DEF Bound
    <3>2. \A f \in Fields : f \in F \/ cols'[i][f] = cols[i][f]
      BY <2>1, <3>1
    <3>3. QED BY <1>3, <3>1, <3>2
  <2>2. CASE i \notin Bound(req[r].on)
    BY <1>1, <1>3, <2>2
  <2>3. QED BY <2>1, <2>2
<1> HIDE DEF F
<1>5. QED BY <1>2, <1>3, <1>4, MissedCopies

\* Time makes a copy and its link older alike.
LEMMA AgedAlike ==
  ASSUME NEW g \in Columns, NEW h \in Columns, NEW f \in Fields, g[f] = h[f]
  PROVE  Aged(g)[f] = Aged(h)[f]
<1>1. /\ Aged(g) = [g EXCEPT !.expires_at = Earlier(g.expires_at)]
      /\ Aged(h) = [h EXCEPT !.expires_at = Earlier(h.expires_at)]
  BY ColumnsAssumption DEF Aged
<1>2. CASE f = "expires_at"
  BY <1>1, <1>2 DEF Columns
<1>3. CASE f # "expires_at"
  BY <1>1, <1>3 DEF Columns
<1>4. QED BY <1>2, <1>3

LEMMA TickCopies ==
  ASSUME TypeOK, CopyInv, Tick
  PROVE  CopyInv'
<1>1. ASSUME NEW q \in Requests, Holds(q)' PROVE Agrees(q)'
  <2>1. req[q] \in Request /\ req'[q] = [req[q] EXCEPT !.got = Aged(req[q].got)]
    BY DEF Tick, TypeOK
  <2>2. /\ req'[q].on = req[q].on /\ req'[q].pc = req[q].pc
        /\ req'[q].got = Aged(req[q].got)
    BY <2>1 DEF Request
  <2>3. Holds(q) /\ req[q].on \in Codes /\ req[q].got \in Columns
    BY <1>1, <2>2 DEF Holds, At, TypeOK
  <2>4. ASSUME NEW i \in Bound(req[q].on)', NEW f \in Fields
        PROVE  f \in since'[q] \/ req'[q].got[f] = cols'[i][f]
    <3>1. i \in Bound(req[q].on) /\ cols'[i] = Aged(cols[i])
      BY <2>2 DEF Tick, Bound
    <3>2. cols[i] \in Columns
      BY <2>3, <3>1 DEF TypeOK, Bound, Row
    <3>3. f \in since[q] \/ req[q].got[f] = cols[i][f]
      BY <2>3, <3>1 DEF CopyInv, Agrees
    <3>4. since' = since
      BY DEF Tick, history
    <3>5. QED BY <2>2, <2>3, <3>1, <3>2, <3>3, <3>4, AgedAlike
  <2>5. QED BY <2>4 DEF Agrees
<1>2. QED BY <1>1 DEF CopyInv

\* Deleted links have no copies to agree with.
LEMMA RemoveCopies ==
  ASSUME TypeOK, CopyInv, NEW S \in SUBSET Ids, Remove(S),
         UNCHANGED req \/ \E r \in Requests : Answer(r)
  PROVE  CopyInv'
<1>1. ASSUME NEW q \in Requests, Holds(q)' PROVE Agrees(q)'
  <2>1. req'[q] = req[q]
    BY <1>1 DEF Answer, TypeOK, Holds, At, Idle
  <2>2. Holds(q) /\ req[q].on \in Codes
    BY <1>1, <2>1 DEF Holds, At, TypeOK
  <2>3. ASSUME NEW i \in Bound(req[q].on)'
        PROVE  i \in Bound(req[q].on) /\ cols'[i] = cols[i]
    <3>1. i \in Ids /\ code'[i] = req[q].on
      BY <2>1, <2>3 DEF Bound
    <3>2. i \notin S
      BY <2>2, <3>1 DEF Remove
    <3>3. QED BY <3>1, <3>2 DEF Remove, Bound
  <2>4. Agrees(q) /\ since' = since
    BY <2>2 DEF CopyInv, Remove, history
  <2>5. QED BY <2>1, <2>3, <2>4 DEF Agrees
<1>2. QED BY <1>1 DEF CopyInv

\* A request that begins with a check holds no copy yet.
LEMMA CheckSteps ==
  ASSUME NEW r \in Requests, NEW c \in Codes,
         \/ \E w \in Owners \cup {Admin, NoOwner},
               p \in Passwords \cup {NoPassword} : CheckCode(r, c, w, p)
         \/ \E next \in {"read", "delete"} :
              \/ \E w \in Owners : CheckOwner(r, c, w, next)
              \/ PassAdmin(r, c, next)
  PROVE  /\ UNCHANGED <<code, cols>> /\ since' = since
         /\ \E x \in Request : /\ x.pc \in {"insert", "read", "delete"}
                               /\ req' = [req EXCEPT ![r] = x]
<1>1. UNCHANGED <<code, cols>> /\ since' = since
  BY DEF CheckCode, CheckOwner, PassAdmin, links, history
<1>2. ASSUME NEW w \in Owners \cup {Admin, NoOwner},
             NEW p \in Passwords \cup {NoPassword}, CheckCode(r, c, w, p)
      PROVE  \E x \in Request : /\ x.pc \in {"insert", "read", "delete"}
                                /\ req' = [req EXCEPT ![r] = x]
  <2> DEFINE x == [Idle EXCEPT !.pc = "insert", !.who = w, !.on = c, !.body = p]
  <2>1. x \in Request /\ x.pc = "insert"
    BY DEF Idle, Request
  <2>2. req' = [req EXCEPT ![r] = x]
    BY <1>2 DEF CheckCode
  <2> HIDE DEF x
  <2>3. QED BY <2>1, <2>2
<1>3. ASSUME NEW w \in Owners, NEW next \in {"read", "delete"},
             CheckOwner(r, c, w, next)
      PROVE  \E x \in Request : /\ x.pc \in {"insert", "read", "delete"}
                                /\ req' = [req EXCEPT ![r] = x]
  <2>1. PICK i \in Bound(c) :
          req' = [req EXCEPT ![r] = [Idle EXCEPT !.pc = next, !.who = w,
                                                 !.on = c, !.seen = i]]
    BY <1>3 DEF CheckOwner
  <2> DEFINE x == [Idle EXCEPT !.pc = next, !.who = w, !.on = c, !.seen = i]
  <2>2. x \in Request /\ x.pc = next
    BY DEF Idle, Request, Bound
  <2>3. req' = [req EXCEPT ![r] = x]
    BY <2>1
  <2> HIDE DEF x
  <2>4. QED BY <2>2, <2>3
<1>4. ASSUME NEW next \in {"read", "delete"}, PassAdmin(r, c, next)
      PROVE  \E x \in Request : /\ x.pc \in {"insert", "read", "delete"}
                                /\ req' = [req EXCEPT ![r] = x]
  <2> DEFINE x == [Idle EXCEPT !.pc = next, !.who = Admin, !.on = c]
  <2>1. x \in Request /\ x.pc = next
    BY DEF Idle, Request
  <2>2. req' = [req EXCEPT ![r] = x]
    BY <1>4 DEF PassAdmin
  <2> HIDE DEF x
  <2>3. QED BY <2>1, <2>2
<1>5. QED BY <1>1, <1>2, <1>3, <1>4

\* CopyInv is inductive.
LEMMA CopyInvNext == RowInv /\ CopyInv /\ [Next]_vars => CopyInv'
<1> SUFFICES ASSUME RowInv, CopyInv, [Next]_vars PROVE CopyInv'
  OBVIOUS
<1> TypeOK
  BY DEF RowInv
<1>1. ASSUME NEW r \in Requests, InsertLink(r) \/ InsertOwned(r)
      PROVE  CopyInv'
  BY <1>1, InsertCopies DEF InsertLink, InsertOwned
<1>2. ASSUME NEW r \in Requests, NEW c \in Codes,
             \/ \E w \in Owners \cup {Admin, NoOwner},
                   p \in Passwords \cup {NoPassword} : CheckCode(r, c, w, p)
             \/ \E next \in {"read", "delete"} :
                  \/ \E w \in Owners : CheckOwner(r, c, w, next)
                  \/ PassAdmin(r, c, next)
      PROVE  CopyInv'
  BY <1>2, CheckSteps, MovedCopies
<1>3. ASSUME NEW r \in Requests, Redirect(r) \/ Abort(r) PROVE CopyInv'
  <2>1. Answer(r) /\ UNCHANGED <<code, cols>> /\ since' = [since EXCEPT ![r] = {}]
    BY <1>3 DEF Redirect, Abort, links
  <2>2. \A q \in Requests : q # r => since'[q] = since[q]
    BY <2>1 DEF TypeOK
  <2>3. req' = [req EXCEPT ![r] = Idle] /\ Idle.pc = "idle"
    BY <2>1 DEF Answer, Idle
  <2>4. QED BY <2>1, <2>2, <2>3, MovedCopies
<1>4. ASSUME NEW r \in Requests, DeleteLink(r) PROVE CopyInv'
  BY <1>4, RemoveCopies DEF DeleteLink, Bound
<1>5. CASE ExpireURLs
  BY <1>5, RemoveCopies DEF ExpireURLs
<1>6. CASE UNCHANGED vars \/ \E k \in Slots : RecordClick(k)
  <2>1. UNCHANGED <<code, cols, req, since>>
    BY <1>6 DEF vars, RecordClick, links, history
  <2>2. QED BY <2>1 DEF CopyInv, Holds, At, Agrees, Bound
<1>7. QED
  BY <1>1, <1>2, <1>3, <1>4, <1>5, <1>6, SelectCopies, UpdateCopies,
     TickCopies DEF Next

LEMMA CopyInvAlways == Spec => [](OwnerInv /\ CopyInv)
<1>1. Init => CopyInv
  BY DEF Init, CopyInv, Holds, At, Idle
<1>2. OwnerInv => RowInv
  BY DEF OwnerInv
<1>3. QED BY <1>1, <1>2, CopyInvNext, OwnerInvAlways, PTL DEF Spec

\* A PATCH writes all columns of the row it read: what it was not asked to
\* change and sets back was changed by another request in between.
THEOREM LostToOverlap == Spec => LostOnlyToOverlap
<1>1. ASSUME OwnerInv, CopyInv, [Next]_vars, NEW r \in Requests,
             NEW i \in Ids, NEW f \in Fields, Row(i), Does(r, "write"),
             f \notin req[r].fields, cols'[i][f] # cols[i][f]
      PROVE  f \in since[r]
  <2>1. TypeOK
    BY <1>1 DEF OwnerInv, RowInv
  <2>2. ~Abort(r)
    BY <1>1 DEF Abort, links
  <2>3. WriteLink(r)
    BY <1>1, <2>1, <2>2, ByItself
  <2>4. PICK new \in [url: Urls, password: Passwords \cup {NoPassword},
                     expires_at: Expiration] :
          cols' = [j \in Ids |-> IF j \in Bound(req[r].on)
                                 THEN Merged(r, new) ELSE cols[j]]
    BY <2>3 DEF WriteLink
  <2>5. i \in Bound(req[r].on) /\ cols'[i] = Merged(r, new)
    BY <1>1, <2>4
  <2>6. Merged(r, new)[f] = req[r].got[f]
    BY <1>1 DEF Merged
  <2>7. Agrees(r)
    BY <1>1 DEF CopyInv, Holds, Does
  <2>8. QED BY <1>1, <2>5, <2>6, <2>7 DEF Agrees
<1>2. OwnerInv /\ CopyInv /\ [Next]_vars
      => [\A r \in Requests, i \in Ids, f \in Fields :
            Row(i) /\ Does(r, "write") /\ f \notin req[r].fields
            /\ cols'[i][f] # cols[i][f]
            => f \in since[r]]_vars
  BY <1>1
<1>3. QED BY <1>2, CopyInvAlways, PTL DEF Spec, LostOnlyToOverlap

\* A visitor is redirected only over a link of the owner of the domain he came
\* by, and past its present password unless that was changed in between.
THEOREM OnlyCheckedRedirects == Spec => RedirectsChecked
<1>1. ASSUME OwnerInv, CopyInv, [Next]_vars, NEW r \in Requests,
             Does(r, "gate"), follows' # follows, Row(req[r].seen)
      PROVE  /\ req[r].who \in {NoOwner, owner[req[r].seen]}
             /\ "password" \in since[r]
                  \/ cols[req[r].seen].password \in {NoPassword, req[r].body}
  <2> DEFINE i == req[r].seen
  <2>1. TypeOK /\ At(r, "gate")
    BY <1>1 DEF OwnerInv, RowInv, Does
  <2>2. Redirect(r)
    BY <1>1, <2>1, ByItself DEF Abort
  <2>3. i \in Ids /\ code[i] = req[r].on /\ req[r].who \in {NoOwner, owner[i]}
    BY <1>1, <2>1 DEF OwnerInv, Checked, Right
  <2>4. Agrees(r) /\ i \in Bound(req[r].on)
    BY <1>1, <2>1, <2>3 DEF CopyInv, Holds, Bound
  <2>5. "password" \in since[r] \/ req[r].got["password"] = cols[i]["password"]
    BY <2>4 DEF Agrees
  <2>6. req[r].got.password \in {NoPassword, req[r].body}
    BY <2>2 DEF Redirect, Unlocked
  <2>7. QED BY <2>3, <2>5, <2>6
<1>2. OwnerInv /\ CopyInv /\ [Next]_vars
      => [\A r \in Requests :
            LET i == req[r].seen
            IN Does(r, "gate") /\ follows' # follows /\ Row(i)
               => /\ req[r].who \in {NoOwner, owner[i]}
                  /\ "password" \in since[r]
                       \/ cols[i].password \in {NoPassword, req[r].body}]_vars
  BY <1>1
<1>3. QED BY <1>2, CopyInvAlways, PTL DEF Spec, RedirectsChecked

-----------------------------------------------------------------------------
(* Clicks *)

\* The workers that record a click of link i.
Recording(i) == {k \in Slots : slot[k] = i}

LEMMA RecordingFinite ==
  \A i : /\ IsFiniteSet(Recording(i)) /\ Cardinality(Recording(i)) \in Nat
         /\ IsFiniteSet(Recording(i)') /\ Cardinality(Recording(i)') \in Nat
<1>1. IsFiniteSet(Slots)
  BY FS_Interval
<1>2. \A i : Recording(i) \subseteq Slots /\ Recording(i)' \subseteq Slots
  BY DEF Recording
<1>3. QED BY <1>1, <1>2, FS_Subset, FS_CardinalityType

ClickInv == TypeOK /\ ClicksAreFollows

\* A redirect counts itself before a worker has it.
LEMMA RedirectClicks ==
  ASSUME ClickInv, NEW r \in Requests, Redirect(r)
  PROVE  ClicksAreFollows'
<1> DEFINE j == req[r].seen
<1>1. TypeOK /\ follows' = [follows EXCEPT ![j] = @ + 1] /\ clicks' = clicks
  BY DEF ClickInv, Redirect
<1>2. ASSUME NEW i \in Ids
      PROVE  clicks'[i] + Cardinality(Recording(i)') <= follows'[i]
  <2>1. clicks[i] + Cardinality(Recording(i)) <= follows[i]
    BY DEF ClickInv, ClicksAreFollows, Recording
  <2>2. /\ clicks[i] \in Nat /\ follows[i] \in Nat
        /\ follows'[i] = IF i = j THEN follows[i] + 1 ELSE follows[i]
    BY <1>1 DEF TypeOK
  <2>3. CASE UNCHANGED slot
    <3>1. Recording(i)' = Recording(i)
      BY <2>3 DEF Recording
    <3>2. QED BY <1>1, <2>1, <2>2, <3>1, RecordingFinite
  <2>4. ASSUME NEW k \in Slots, slot[k] = NoId, slot' = [slot EXCEPT ![k] = j]
        PROVE  clicks'[i] + Cardinality(Recording(i)') <= follows'[i]
    <3>1. CASE i = j
      <4>1. Recording(i)' = Recording(i) \cup {k} /\ k \notin Recording(i)
        BY <1>1, <2>4, <3>1 DEF Recording, TypeOK
      <4>2. Cardinality(Recording(i)') = Cardinality(Recording(i)) + 1
        BY <4>1, RecordingFinite, FS_AddElement
      <4>3. QED BY <1>1, <2>1, <2>2, <3>1, <4>2, RecordingFinite
    <3>2. CASE i # j
      <4>1. Recording(i)' = Recording(i)
        BY <1>1, <2>4, <3>2 DEF Recording, TypeOK
      <4>2. QED BY <1>1, <2>1, <2>2, <3>2, <4>1, RecordingFinite
    <3>3. QED BY <3>1, <3>2
  <2>5. QED BY <2>3, <2>4 DEF Redirect
<1>3. QED BY <1>2 DEF ClicksAreFollows, Recording

\* A worker that is done frees its slot, whether it recorded the click or not.
LEMMA RecordClicks ==
  ASSUME ClickInv, NEW k \in Slots, RecordClick(k)
  PROVE  ClicksAreFollows'
<1>1. /\ TypeOK /\ slot[k] # NoId /\ slot' = [slot EXCEPT ![k] = NoId]
      /\ follows' = follows
  BY DEF ClickInv, RecordClick, history
<1>2. ASSUME NEW i \in Ids
      PROVE  clicks'[i] + Cardinality(Recording(i)') <= follows'[i]
  <2>1. clicks[i] + Cardinality(Recording(i)) <= follows[i]
    BY DEF ClickInv, ClicksAreFollows, Recording
  <2>2. clicks[i] \in Nat /\ follows[i] \in Nat
    BY <1>1 DEF TypeOK
  <2>3. CASE i = slot[k]
    <3>1. Recording(i)' = Recording(i) \ {k} /\ k \in Recording(i)
      BY <1>1, <2>3 DEF Recording, TypeOK
    <3>2. Cardinality(Recording(i)') = Cardinality(Recording(i)) - 1
      BY <3>1, RecordingFinite, FS_RemoveElement
    <3>3. clicks'[i] \in {clicks[i], clicks[i] + 1}
      BY <1>1, <2>3 DEF RecordClick, Counted, TypeOK
    <3>4. QED BY <1>1, <2>1, <2>2, <3>2, <3>3, RecordingFinite
  <2>4. CASE i # slot[k]
    <3>1. Recording(i)' = Recording(i)
      BY <1>1, <2>4 DEF Recording, TypeOK
    <3>2. clicks'[i] = clicks[i]
      BY <1>1, <2>4 DEF RecordClick, Counted, TypeOK
    <3>3. QED BY <1>1, <2>1, <3>1, <3>2
  <2>5. QED BY <2>3, <2>4
<1>3. QED BY <1>2 DEF ClicksAreFollows, Recording

\* The clicks of a deleted link are deleted with it.
LEMMA RemoveClicks ==
  ASSUME ClickInv, NEW S \in SUBSET Ids, Remove(S)
  PROVE  ClicksAreFollows'
<1>1. ASSUME NEW i \in Ids
      PROVE  clicks'[i] + Cardinality(Recording(i)') <= follows'[i]
  <2>1. /\ clicks[i] + Cardinality(Recording(i)) <= follows[i]
        /\ clicks[i] \in Nat /\ follows[i] \in Nat
    BY DEF ClickInv, TypeOK, ClicksAreFollows, Recording
  <2>2. /\ clicks'[i] \in {clicks[i], 0} /\ follows' = follows
        /\ Recording(i)' = Recording(i)
    BY DEF Remove, history, Recording
  <2>3. QED BY <2>1, <2>2, RecordingFinite
<1>2. QED BY <1>1 DEF ClicksAreFollows, Recording

\* ClickInv is inductive.
LEMMA ClickInvNext == ClickInv /\ [Next]_vars => ClickInv'
<1> SUFFICES ASSUME ClickInv, [Next]_vars PROVE ClickInv'
  OBVIOUS
<1>1. TypeOK'
  BY TypeNext DEF ClickInv
<1>2. ASSUME UNCHANGED <<clicks, slot, follows>> PROVE ClicksAreFollows'
  BY <1>2 DEF ClickInv, ClicksAreFollows
<1>3. ASSUME NEW r \in Requests,
             \/ InsertLink(r) \/ InsertOwned(r) \/ WriteLink(r) \/ Abort(r)
             \/ ReadLink(r)
      PROVE  ClicksAreFollows'
  BY <1>2, <1>3 DEF InsertLink, InsertOwned, NewLink, WriteLink, Abort,
                    ReadLink, history
<1>4. ASSUME NEW r \in Requests, NEW c \in Codes,
             \/ \E w \in Owners \cup {Admin, NoOwner},
                   p \in Passwords \cup {NoPassword} : CheckCode(r, c, w, p)
             \/ \E next \in {"read", "delete"} :
                  \/ \E w \in Owners : CheckOwner(r, c, w, next)
                  \/ PassAdmin(r, c, next)
             \/ \E d \in Owners \cup {NoOwner},
                   p \in Passwords \cup {NoPassword} : Lookup(r, c, d, p)
      PROVE  ClicksAreFollows'
  BY <1>2, <1>4 DEF CheckCode, CheckOwner, PassAdmin, Lookup, history
<1>5. ASSUME Tick \/ UNCHANGED vars PROVE ClicksAreFollows'
  <2>1. UNCHANGED <<clicks, slot, follows>>
    BY <1>5 DEF Tick, vars, history
  <2>2. QED BY <1>2, <2>1
<1>6. ASSUME NEW r \in Requests, DeleteLink(r) PROVE ClicksAreFollows'
  <2>1. Bound(req[r].on) \in SUBSET Ids
    BY DEF Bound
  <2>2. QED BY <1>6, <2>1, RemoveClicks DEF DeleteLink
<1>7. ASSUME ExpireURLs PROVE ClicksAreFollows'
  <2>1. PICK S \in SUBSET Ids : Remove(S)
    BY <1>7 DEF ExpireURLs
  <2>2. QED BY <2>1, RemoveClicks
<1>8. QED
  BY <1>1, <1>3, <1>4, <1>5, <1>6, <1>7, RedirectClicks, RecordClicks
     DEF Next, ClickInv

\* Every click in the statistics of a link is a redirect over that link, and
\* none is counted twice, whatever the workers still have to record and
\* whatever link its code leads to by then.
THEOREM ClicksOfTheirLink == Spec => []ClicksAreFollows
<1>1. ASSUME Init PROVE ClickInv
  <2>1. TypeOK
    BY <1>1, InitTypes
  <2>2. ASSUME NEW i \in Ids
        PROVE  clicks[i] + Cardinality(Recording(i)) <= follows[i]
    <3>1. Recording(i) = {} /\ clicks[i] = 0 /\ follows[i] = 0
      BY <1>1 DEF Init, Recording
    <3>2. QED BY <3>1, FS_EmptySet
  <2>3. QED BY <2>1, <2>2 DEF ClickInv, ClicksAreFollows, Recording
<1>2. ClickInv => ClicksAreFollows
  BY DEF ClickInv
<1>3. QED BY <1>1, <1>2, ClickInvNext, PTL DEF Spec

-----------------------------------------------------------------------------
(* The sweep *)

\* The text of e compares like the instant it stands for.
Even(e) == e # Never => e.at = e.text

EvenRows   == \A i \in Ids : Row(i) => Even(cols[i].expires_at)
EvenCopies == \A r \in Requests : Holds(r) => Even(req[r].got.expires_at)

EvenInv == Zone = 0 => EvenRows /\ EvenCopies

\* What a request asks for is even in UTC, and time keeps it so.
LEMMA EvenTexts ==
  ASSUME Zone = 0
  PROVE  /\ \A e \in Expiration : Even(e)
         /\ \A g \in Columns : Even(g.expires_at) => Even(Aged(g).expires_at)
<1>1. \A e \in Expiration : Even(e)
  BY DEF Expiration, Even
<1>2. ASSUME NEW g \in Columns, Even(g.expires_at)
      PROVE  Even(Aged(g).expires_at)
  <2>1. Aged(g).expires_at = Earlier(g.expires_at)
    BY ColumnsAssumption DEF Aged, Columns
  <2>2. g.expires_at \in Expiries
    BY DEF Columns
  <2>3. Even(Earlier(g.expires_at))
    BY <1>2, <2>2 DEF Even, Earlier, Expiries
  <2>4. QED BY <2>1, <2>3
<1>3. QED BY <1>1, <1>2

\* EvenInv is inductive.
LEMMA EvenInvNext == TypeOK /\ EvenInv /\ [Next]_vars => EvenInv'
<1> SUFFICES ASSUME TypeOK, EvenInv, [Next]_vars, Zone = 0
             PROVE  EvenRows' /\ EvenCopies'
  BY DEF EvenInv
<1>1. EvenRows /\ EvenCopies
  BY DEF EvenInv
<1>2. ASSUME NEW r \in Requests, Answer(r)
      PROVE  EvenCopies'
  BY <1>1, <1>2 DEF EvenCopies, Answer, Holds, At, Idle, TypeOK
<1>3. ASSUME NEW r \in Requests, NEW x \in Request,
             req' = [req EXCEPT ![r] = x], UNCHANGED <<code, cols>>,
             x.pc \in {"write", "gate"} => Even(x.got.expires_at)
      PROVE  EvenRows' /\ EvenCopies'
  BY <1>1, <1>3 DEF EvenRows, EvenCopies, Holds, At, TypeOK, Row
<1>4. ASSUME NEW S \in SUBSET Ids, Remove(S)
      PROVE  EvenRows'
  BY <1>1, <1>4 DEF EvenRows, Remove, Row
<1>5. ASSUME NEW r \in Requests, NEW o, NEW p, NewLink(r, o, p)
      PROVE  EvenRows' /\ EvenCopies'
  <2>1. PICK u \in Urls, e \in Expiration :
          cols' = [cols EXCEPT ![nextId] =
                     [url |-> u, password |-> p, expires_at |-> e]]
    BY <1>5 DEF NewLink
  <2>2. EvenRows'
    BY <1>1, <1>5, <2>1, EvenTexts DEF EvenRows, NewLink, TypeOK, Row
  <2>3. QED BY <1>2, <1>5, <2>2 DEF NewLink
<1>6. ASSUME NEW r \in Requests, WriteLink(r)
      PROVE  EvenRows' /\ EvenCopies'
  <2>1. PICK new \in [url: Urls, password: Passwords \cup {NoPassword},
                     expires_at: Expiration] :
          cols' = [i \in Ids |-> IF i \in Bound(req[r].on)
                                 THEN Merged(r, new) ELSE cols[i]]
    BY <1>6 DEF WriteLink
  <2>2. /\ Even(req[r].got.expires_at)
        /\ Merged(r, new).expires_at
             \in {new.expires_at, req[r].got.expires_at}
    BY <1>1, <1>6 DEF EvenCopies, WriteLink, Holds, Merged
  <2>3. Even(Merged(r, new).expires_at)
    BY <2>2, EvenTexts
  <2>4. EvenRows'
    BY <1>1, <1>6, <2>1, <2>3 DEF EvenRows, WriteLink, Row
  <2>5. QED BY <1>2, <1>6, <2>4 DEF WriteLink
<1>7. ASSUME NEW r \in Requests, ReadLink(r)
      PROVE  EvenRows' /\ EvenCopies'
  <2>1. PICK i \in Bound(req[r].on), F \in SUBSET Fields :
          req' = [req EXCEPT ![r].pc = "write", ![r].fields = F,
                             ![r].got = cols[i]]
    BY <1>7 DEF ReadLink
  <2>2. Even(cols[i].expires_at)
    BY <1>1, <1>7, <2>1 DEF EvenRows, ReadLink, TypeOK, At, Bound, Row
  <2>3. UNCHANGED <<code, cols>>
    BY <1>7 DEF ReadLink, links
  <2>4. ASSUME NEW q \in Requests, Holds(q)'
        PROVE  Even(req'[q].got.expires_at)
    <3>1. CASE q = r
      BY <2>1, <2>2, <3>1 DEF TypeOK, Request
    <3>2. CASE q # r
      BY <1>1, <2>1, <2>4, <3>2 DEF EvenCopies, TypeOK, Holds, At
    <3>3. QED BY <3>1, <3>2
  <2>5. QED BY <1>1, <2>3, <2>4 DEF EvenRows, EvenCopies, Row
<1>8. ASSUME NEW r \in Requests, NEW c \in Codes, NEW d, NEW p, Lookup(r, c, d, p)
      PROVE  EvenRows' /\ EvenCopies'
  <2>1. PICK i \in Bound(c) :
          req' = [req EXCEPT ![r] =
                    [Idle EXCEPT !.pc = "gate", !.who = d, !.on = c,
                                 !.body = p, !.seen = i, !.got = cols[i]]]
    BY <1>8 DEF Lookup
  <2>2. Even(cols[i].expires_at) /\ UNCHANGED <<code, cols>>
    BY <1>1, <1>8 DEF EvenRows, Lookup, Bound, Row, links
  <2>3. ASSUME NEW q \in Requests, Holds(q)'
        PROVE  Even(req'[q].got.expires_at)
    <3>1. CASE q = r
      BY <2>1, <2>2, <3>1 DEF TypeOK, Idle
    <3>2. CASE q # r
      BY <1>1, <2>1, <2>3, <3>2 DEF EvenCopies, TypeOK, Holds, At
    <3>3. QED BY <3>1, <3>2
  <2>4. QED BY <1>1, <2>2, <2>3 DEF EvenRows, EvenCopies, Row
<1>9. CASE Tick
  <2>1. ASSUME NEW i \in Ids, Row(i)' PROVE Even(cols'[i].expires_at)
    <3>1. Row(i) /\ cols'[i] = Aged(cols[i]) /\ cols[i] \in Columns
      BY <1>9, <2>1 DEF Tick, Row, TypeOK
    <3>2. QED BY <1>1, <3>1, EvenTexts DEF EvenRows
  <2>2. ASSUME NEW q \in Requests, Holds(q)'
        PROVE  Even(req'[q].got.expires_at)
    <3>1. req[q] \in Request /\ req'[q] = [req[q] EXCEPT !.got = Aged(req[q].got)]
      BY <1>9 DEF Tick, TypeOK
    <3>2. req'[q].pc = req[q].pc /\ req'[q].got = Aged(req[q].got)
      BY <3>1 DEF Request
    <3>3. Holds(q) /\ req[q].got \in Columns
      BY <2>2, <3>2 DEF Holds, At, TypeOK
    <3>4. QED BY <1>1, <3>2, <3>3, EvenTexts DEF EvenCopies
  <2>3. QED BY <2>1, <2>2 DEF EvenRows, EvenCopies
<1>10. ASSUME NEW r \in Requests, NEW c \in Codes,
              \/ \E w \in Owners \cup {Admin, NoOwner},
                    p \in Passwords \cup {NoPassword} : CheckCode(r, c, w, p)
              \/ \E next \in {"read", "delete"} :
                   \/ \E w \in Owners : CheckOwner(r, c, w, next)
                   \/ PassAdmin(r, c, next)
       PROVE  EvenRows' /\ EvenCopies'
  BY <1>3, <1>10, CheckSteps
<1>11. ASSUME UNCHANGED <<code, cols, req>>
       PROVE  EvenRows' /\ EvenCopies'
  BY <1>1, <1>11 DEF EvenRows, EvenCopies, Row, Holds, At
<1>12. ASSUME NEW r \in Requests, Redirect(r) \/ Abort(r)
       PROVE  EvenRows' /\ EvenCopies'
  <2>1. Answer(r) /\ UNCHANGED <<code, cols>>
    BY <1>12 DEF Redirect, Abort, links
  <2>2. QED BY <1>1, <1>2, <2>1 DEF EvenRows, Row
<1>13. ASSUME NEW r \in Requests, DeleteLink(r)
       PROVE  EvenRows' /\ EvenCopies'
  BY <1>2, <1>4, <1>13 DEF DeleteLink, Bound
<1>14. CASE ExpireURLs
  <2>1. EvenRows'
    BY <1>4, <1>14 DEF ExpireURLs
  <2>2. req' = req
    BY <1>14 DEF ExpireURLs
  <2>3. QED BY <1>1, <2>1, <2>2 DEF EvenCopies, Holds, At
<1>15. CASE UNCHANGED vars \/ \E k \in Slots : RecordClick(k)
  BY <1>11, <1>15 DEF vars, links, RecordClick
<1>16. QED
  BY <1>5, <1>6, <1>7, <1>8, <1>9, <1>10, <1>12, <1>13, <1>14, <1>15
     DEF Next, InsertLink, InsertOwned

\* What is deleted while no request moves, is deleted by the sweep.
LEMMA Deletions ==
  ASSUME TypeOK, [Next]_vars, UNCHANGED req, code' # code
  PROVE  ExpireURLs
<1>1. ASSUME NEW r \in Requests,
             InsertLink(r) \/ InsertOwned(r) \/ DeleteLink(r)
      PROVE  FALSE
  <2>1. ~At(r, "idle") /\ Answer(r)
    BY <1>1 DEF InsertLink, InsertOwned, NewLink, DeleteLink, At
  <2>2. QED BY <2>1 DEF Answer, TypeOK, At, Idle
<1>2. ASSUME NEW r \in Requests,
             \/ WriteLink(r) \/ Redirect(r) \/ Abort(r) \/ ReadLink(r)
             \/ \E c \in Codes :
                  \/ \E w \in Owners \cup {Admin, NoOwner},
                        p \in Passwords \cup {NoPassword} : CheckCode(r, c, w, p)
                  \/ \E next \in {"read", "delete"} :
                       \/ \E w \in Owners : CheckOwner(r, c, w, next)
                       \/ PassAdmin(r, c, next)
                  \/ \E d \in Owners \cup {NoOwner},
                        p \in Passwords \cup {NoPassword} : Lookup(r, c, d, p)
      PROVE  FALSE
  BY <1>2 DEF WriteLink, Redirect, Abort, ReadLink, CheckCode, CheckOwner,
              PassAdmin, Lookup, links
<1>3. ~Tick /\ ~UNCHANGED vars /\ \A k \in Slots : ~RecordClick(k)
  BY DEF Tick, vars, links, RecordClick
<1>4. QED BY <1>1, <1>2, <1>3 DEF Next

\* In a server whose local time is UTC the sweep deletes no link before its
\* expiration, although it compares texts and ignores the zone in them.
THEOREM SweepsInTime == Spec => SweepsOnlyExpired
<1>1. Init => EvenInv
  BY DEF Init, EvenInv, EvenRows, EvenCopies, Row, Holds, At, Idle
<1>2. ASSUME TypeOK, EvenInv, [Next]_vars, NEW i \in Ids, Row(i), ~Row(i)',
             UNCHANGED req, Zone = 0
      PROVE  Expired(cols[i].expires_at)
  <2>1. RowStep(i) /\ code'[i] # code[i]
    BY <1>2, RowSteps DEF Row
  <2>2. ExpireURLs
    BY <1>2, <2>1, Deletions
  <2>3. Swept(cols[i].expires_at)
    BY <1>2, <2>2 DEF ExpireURLs, Remove, Row
  <2>4. QED BY <1>2, <2>3 DEF EvenInv, EvenRows, Even, Swept, Expired
<1>3. TypeOK /\ EvenInv /\ [Next]_vars
      => [\A i \in Ids :
            Row(i) /\ ~Row(i)' /\ UNCHANGED req
            => Zone # 0 \/ Expired(cols[i].expires_at)]_vars
  BY <1>2
<1>4. QED BY <1>1, <1>3, EvenInvNext, TypeCorrect, PTL DEF Spec, SweepsOnlyExpired
=============================================================================
