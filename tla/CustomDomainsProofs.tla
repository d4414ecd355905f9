------------------------- MODULE CustomDomainsProofs -------------------------
(***************************************************************************)
(* Proofs about CustomDomains, for any number of processes, concurrent     *)
(* requests, names, owners and rows.  The argument: an id is given to one  *)
(* row only, a row's name never changes, and whoever acts on an id read    *)
(* its name first, so whatever happened to the table since, a verification *)
(* or a cache entry concerns a row whose own token was seen in DNS.  What  *)
(* holds of requests one at a time is proved of the behaviours that are    *)
(* always Serial.                                                          *)
(***************************************************************************)
EXTENDS CustomDomainsProps, FiniteSetTheorems, TLAPS

USE DomainsAssumption DEF Ids, NoId, Row, At

-----------------------------------------------------------------------------
(* Types *)

\* Init gives every variable a value of its type.
LEMMA InitTypes == Init => TypeOK
<1> SUFFICES ASSUME Init PROVE TypeOK
  OBVIOUS
<1>1. /\ nextId \in 1..(MaxId + 1)
      /\ age \in [Ids -> 0..(VerificationTTL + 1)]
  BY DEF Init
<1>2. /\ [h \in Names |-> NoId] \in [Names -> Ids \cup {NoId}]
      /\ [h \in Names |-> 0] \in [Names -> 0..CacheTTL]
  OBVIOUS
<1>3. /\ cached \in [Nodes -> [Names -> Ids \cup {NoId}]]
      /\ ttl \in [Nodes -> [Names -> 0..CacheTTL]]
  BY <1>2 DEF Init
<1>4. QED BY <1>1, <1>3 DEF Init, TypeOK, Steps

\* Finish leaves the request variables in their types.
LEMMA FinishTypes ==
  ASSUME TypeOK, NEW r \in Requests, Finish(r)
  PROVE  /\ pc' \in [Requests -> Steps]
         /\ target' \in [Requests -> Ids \cup {NoId}]
         /\ host' \in [Requests -> Names \cup {NoName}]
         /\ who' \in [Requests -> Owners \cup {NoOwner}]
         /\ batch' \in [Requests -> SUBSET Ids]
BY DEF TypeOK, Finish, Works, Goto, Steps

\* The steps of AddDomain keep the types.
LEMMA AddTypes ==
  ASSUME TypeOK, NEW r \in Requests,
         \/ \E h \in Names, o \in Owners : AddCheck(r, h, o)
         \/ AddLimit(r) \/ AddInsert(r)
  PROVE  TypeOK'
<1>1. CASE \E h \in Names, o \in Owners : AddCheck(r, h, o)
  BY <1>1 DEF TypeOK, AddCheck, Goto, Works, Steps, row, cache
<1>2. CASE AddLimit(r)
  <2>1. CASE Finish(r)
    BY <1>2, <2>1, FinishTypes DEF TypeOK, AddLimit, row, cache
  <2>2. CASE Goto(r, "insert") /\ UNCHANGED <<target, host, who, batch>>
    BY <1>2, <2>2 DEF TypeOK, AddLimit, Goto, Steps, row, cache
  <2>3. QED BY <1>2, <2>1, <2>2 DEF AddLimit
<1>3. CASE AddInsert(r)
  <2>1. CASE Insertable(host[r])
    <3>1. nextId \in Ids /\ nextId' = nextId + 1 /\ nextId' \in 1..(MaxId + 1)
      BY <1>3, <2>1 DEF TypeOK, AddInsert, Insertable
    <3>2. /\ name' \in [Ids -> Names \cup {NoName}]
          /\ owner' \in [Ids -> Owners \cup {NoOwner}]
      <4>1. /\ name' = [name EXCEPT ![nextId] = host[r]]
            /\ owner' = [owner EXCEPT ![nextId] = who[r]]
        BY <1>3, <2>1 DEF AddInsert
      <4>2. /\ name \in [Ids -> Names \cup {NoName}]
            /\ owner \in [Ids -> Owners \cup {NoOwner}]
            /\ host[r] \in Names \cup {NoName}
            /\ who[r] \in Owners \cup {NoOwner}
        BY DEF TypeOK
      <4>3. QED BY ONLY <4>1, <4>2
    <3>3. /\ ver' \in [Ids -> Verification \cup {"none"}]
          /\ status' \in [Ids -> {"pending", "active", "suspended", "none"}]
          /\ dated' \subseteq Ids
      BY <1>3, <2>1, <3>1 DEF TypeOK, AddInsert, Verification
    <3>4. QED
      BY <1>3, <3>1, <3>2, <3>3, FinishTypes
         DEF TypeOK, AddInsert, cache
  <2>2. CASE ~Insertable(host[r])
    BY <1>3, <2>2, FinishTypes DEF TypeOK, AddInsert, row, cache
  <2>3. QED BY <2>1, <2>2
<1>4. QED BY <1>1, <1>2, <1>3

\* The steps of VerifyDomain and of the retry sweep keep the types.
LEMMA VerifyTypes ==
  ASSUME TypeOK, NEW r \in Requests,
         \/ \E i \in Ids, o \in Owners : VerifyOwned(r, i, o)
         \/ RetrySweep(r) \/ VerifyRead(r) \/ VerifyLookup(r)
         \/ VerifyFail(r) \/ VerifySucceed(r)
  PROVE  TypeOK'
<1>1. CASE \E i \in Ids, o \in Owners : VerifyOwned(r, i, o)
  BY <1>1 DEF TypeOK, VerifyOwned, Goto, Steps, row, cache
<1>2. CASE RetrySweep(r)
  BY <1>2 DEF TypeOK, RetrySweep, Retryable, Goto, Steps, row, cache
<1>3. CASE VerifyRead(r)
  <2>1. PICK i \in batch[r] :
          /\ batch' = [batch EXCEPT ![r] = @ \ {i}]
          /\ \/ Row(i) /\ Goto(r, "lookup") /\ Works(r, i, name[i], owner[i])
             \/ /\ Goto(r, IF batch[r] = {i} THEN "idle" ELSE "read")
                /\ UNCHANGED <<target, host, who>>
    BY <1>3 DEF VerifyRead
  <2>2. i \in Ids /\ batch' \in [Requests -> SUBSET Ids]
    BY <2>1 DEF TypeOK
  <2>3. CASE Goto(r, "lookup") /\ Works(r, i, name[i], owner[i])
    <3>1. /\ pc' \in [Requests -> Steps]
          /\ target' \in [Requests -> Ids \cup {NoId}]
          /\ host' \in [Requests -> Names \cup {NoName}]
          /\ who' \in [Requests -> Owners \cup {NoOwner}]
      BY <2>2, <2>3 DEF TypeOK, Goto, Works, Steps
    <3>2. QED BY <1>3, <2>2, <3>1 DEF TypeOK, VerifyRead, row, cache
  <2>4. CASE /\ Goto(r, IF batch[r] = {i} THEN "idle" ELSE "read")
             /\ UNCHANGED <<target, host, who>>
    <3>1. pc' \in [Requests -> Steps]
      BY <2>4 DEF TypeOK, Goto, Steps
    <3>2. QED BY <1>3, <2>2, <2>4, <3>1 DEF TypeOK, VerifyRead, row, cache
  <2>5. QED BY <2>1, <2>3, <2>4
<1>4. CASE VerifyLookup(r)
  BY <1>4 DEF TypeOK, VerifyLookup, Goto, Steps, row, cache
<1>5. CASE VerifyFail(r)
  <2>1. ver' \in [Ids -> Verification \cup {"none"}]
    BY <1>5 DEF TypeOK, VerifyFail, Verification
  <2>2. QED BY <1>5, <2>1, FinishTypes DEF TypeOK, VerifyFail, cache
<1>6. CASE VerifySucceed(r)
  BY <1>6 DEF TypeOK, VerifySucceed, Verifies, Verification, Goto, Steps, cache
<1>7. QED BY <1>1, <1>2, <1>3, <1>4, <1>5, <1>6

\* The administrator's steps, deletions and the cleanup keep the types.
LEMMA AdminTypes ==
  ASSUME TypeOK,
         \/ Cleanup
         \/ \E r \in Requests : \/ UnsuspendWrite(r)
                                \/ \E i \in Ids : \/ Suspend(r, i)
                                                  \/ UnsuspendRead(r, i)
                                                  \/ Delete(r, i)
  PROVE  TypeOK'
<1>1. ASSUME NEW S \in SUBSET Ids, Remove(S)
      PROVE  /\ nextId' \in 1..(MaxId + 1)
             /\ name' \in [Ids -> Names \cup {NoName}]
             /\ owner' \in [Ids -> Owners \cup {NoOwner}]
             /\ ver' \in [Ids -> Verification \cup {"none"}]
             /\ status' \in [Ids -> {"pending", "active", "suspended", "none"}]
             /\ dated' \subseteq Ids
             /\ age' \in [Ids -> 0..(VerificationTTL + 1)]
  BY <1>1 DEF TypeOK, Remove
<1>2. CASE Cleanup
  BY <1>1, <1>2 DEF TypeOK, Cleanup, Expired, cache, request
<1>3. ASSUME NEW r \in Requests, UnsuspendWrite(r)
      PROVE  TypeOK'
  BY <1>3 DEF TypeOK, UnsuspendWrite, Goto, Steps, cache
<1>4. ASSUME NEW r \in Requests, NEW i \in Ids, Suspend(r, i)
      PROVE  TypeOK'
  BY <1>4 DEF TypeOK, Suspend, Goto, Steps, cache
<1>5. ASSUME NEW r \in Requests, NEW i \in Ids, UnsuspendRead(r, i)
      PROVE  TypeOK'
  BY <1>5 DEF TypeOK, UnsuspendRead, Goto, Steps, row, cache
<1>6. ASSUME NEW r \in Requests, NEW i \in Ids, Delete(r, i)
      PROVE  TypeOK'
  BY <1>1, <1>6 DEF TypeOK, Delete, Goto, Steps, cache
<1>7. QED BY <1>2, <1>3, <1>4, <1>5, <1>6

\* The steps on the cache, failures and time keep the types.
LEMMA CacheTypes ==
  ASSUME TypeOK,
         \/ Tick \/ \E n \in Nodes : Restart(n)
         \/ \E r \in Requests : \/ Invalidate(r) \/ Fill(r) \/ Abort(r)
                                \/ \E h \in Names : Resolve(r, h)
  PROVE  TypeOK'
<1>1. CASE Tick
  <2>1. \A n \in Nodes, h \in Names : Remaining(n, h) \in 0..CacheTTL
    BY DEF TypeOK, Remaining
  <2>2. /\ cached' \in [Nodes -> [Names -> Ids \cup {NoId}]]
        /\ ttl' \in [Nodes -> [Names -> 0..CacheTTL]]
    BY <1>1, <2>1 DEF TypeOK, Tick
  <2>3. age' \in [Ids -> 0..(VerificationTTL + 1)]
    BY <1>1 DEF TypeOK, Tick
  <2>4. QED BY <1>1, <2>2, <2>3 DEF TypeOK, Tick, row, request
<1>2. ASSUME NEW n \in Nodes, Restart(n)
      PROVE  TypeOK'
  BY <1>2 DEF TypeOK, Restart, Steps, row
<1>3. ASSUME NEW r \in Requests, Invalidate(r)
      PROVE  TypeOK'
  <2>1. NodeOf[r] \in Nodes OBVIOUS
  <2>2. /\ cached' \in [Nodes -> [Names -> Ids \cup {NoId}]]
        /\ ttl' \in [Nodes -> [Names -> 0..CacheTTL]]
    BY <1>3, <2>1 DEF TypeOK, Invalidate
  <2>3. QED BY <1>3, <2>2, FinishTypes DEF TypeOK, Invalidate, row
<1>4. ASSUME NEW r \in Requests, Fill(r)
      PROVE  TypeOK'
  <2>1. /\ NodeOf[r] \in Nodes
        /\ target[r] \in Ids \cup {NoId}
        /\ cached[NodeOf[r]] \in [Names -> Ids \cup {NoId}]
        /\ ttl[NodeOf[r]] \in [Names -> 0..CacheTTL]
        /\ CacheTTL \in 0..CacheTTL
    BY DEF TypeOK
  <2>2. /\ [cached[NodeOf[r]] EXCEPT ![host[r]] = target[r]]
             \in [Names -> Ids \cup {NoId}]
        /\ [ttl[NodeOf[r]] EXCEPT ![host[r]] = CacheTTL]
             \in [Names -> 0..CacheTTL]
    BY <2>1
  <2>3. /\ cached' \in [Nodes -> [Names -> Ids \cup {NoId}]]
        /\ ttl' \in [Nodes -> [Names -> 0..CacheTTL]]
    BY <1>4, <2>1, <2>2 DEF TypeOK, Fill
  <2>4. QED BY <1>4, <2>3, FinishTypes DEF TypeOK, Fill, row
<1>5. ASSUME NEW r \in Requests, Abort(r)
      PROVE  TypeOK'
  BY <1>5, FinishTypes DEF TypeOK, Abort, row, cache
<1>6. ASSUME NEW r \in Requests, NEW h \in Names, Resolve(r, h)
      PROVE  TypeOK'
  BY <1>6 DEF TypeOK, Resolve, Works, Goto, Steps, row, cache
<1>7. QED BY <1>1, <1>2, <1>3, <1>4, <1>5, <1>6

\* Every step keeps the types.
LEMMA NextTypes == TypeOK /\ [Next]_vars => TypeOK'
<1> SUFFICES ASSUME TypeOK, [Next]_vars PROVE TypeOK'
  OBVIOUS
<1>1. CASE UNCHANGED vars
  BY <1>1 DEF TypeOK, vars, row, cache, request
<1>2. CASE Next
  BY <1>2, AddTypes, VerifyTypes, AdminTypes, CacheTypes
     DEF Next, Start, Step, AdminDelete, DeleteOwned
<1>3. QED BY <1>1, <1>2

\* Every variable keeps its type (the columns of custom_domains, the cache
\* entries and the local state of the methods of DomainService).
THEOREM TypeCorrect == Spec => []TypeOK
BY InitTypes, NextTypes, PTL DEF Spec

-----------------------------------------------------------------------------
(* Ids and names *)

\* An id in the table, in a request or in a cache was given out, so the next
\* INSERT does not change what it stands for.
Issued ==
  /\ \A i \in Ids : Row(i) => i < nextId
  /\ \A r \in Requests : target[r] # NoId => target[r] < nextId
  /\ \A n \in Nodes, h \in Names : cached[n][h] # NoId => cached[n][h] < nextId

\* A step other than an INSERT leaves the ids and the names alone.
LEMMA OnlyInsertNames ==
  ASSUME [Next]_vars
  PROVE  \/ UNCHANGED <<nextId, name>>
         \/ \E r \in Requests : AddInsert(r) /\ Insertable(host[r])
<1>1. ASSUME NEW r \in Requests, AddInsert(r)
      PROVE  Insertable(host[r]) \/ UNCHANGED <<nextId, name>>
  BY <1>1 DEF AddInsert, row
<1>2. ASSUME NEW r \in Requests, NEW i \in Ids, Delete(r, i)
      PROVE  UNCHANGED <<nextId, name>>
  BY <1>2 DEF Delete, Remove
<1>3. Cleanup => UNCHANGED <<nextId, name>>
  BY DEF Cleanup, Remove
<1>4. ASSUME NEW r \in Requests, Start(r)
      PROVE  UNCHANGED <<nextId, name>> \/ \E i \in Ids : Delete(r, i)
  BY <1>4 DEF Start, row, AddCheck, VerifyOwned, RetrySweep, Suspend,
              UnsuspendRead, AdminDelete, DeleteOwned, Resolve
<1>5. ASSUME NEW r \in Requests, Step(r)
      PROVE  UNCHANGED <<nextId, name>> \/ AddInsert(r)
  BY <1>5 DEF Step, row, AddLimit, VerifyRead, VerifyLookup, VerifyFail,
              VerifySucceed, Invalidate, UnsuspendWrite, Fill
<1>6. CASE \/ UNCHANGED vars \/ Tick \/ \E n \in Nodes : Restart(n)
           \/ \E r \in Requests : Abort(r)
  BY <1>6 DEF vars, row, Restart, Tick, Abort
<1>7. \/ UNCHANGED vars \/ Tick \/ Cleanup \/ \E n \in Nodes : Restart(n)
      \/ \E r \in Requests : Start(r) \/ Step(r) \/ Abort(r)
  BY DEF Next
<1>8. QED BY <1>1, <1>2, <1>3, <1>4, <1>5, <1>6, <1>7

\* What an id stands for never changes, and evidence is not forgotten.
LEMMA Immutable ==
  ASSUME TypeOK, [Next]_vars
  PROVE  /\ nextId <= nextId'
         /\ \A i \in Ids : i < nextId => name'[i] = name[i]
<1>1. CASE UNCHANGED <<nextId, name>>
  BY <1>1 DEF TypeOK
<1>2. ASSUME NEW r \in Requests, AddInsert(r), Insertable(host[r])
      PROVE  /\ nextId' = nextId + 1
             /\ \A i \in Ids : i < nextId => name'[i] = name[i]
  BY <1>2 DEF TypeOK, AddInsert, Insertable
<1>3. QED BY <1>1, <1>2, OnlyInsertNames DEF TypeOK

\* A lookup adds evidence, every other step leaves it alone.
LEMMA EvidenceStays == ASSUME [Next]_vars PROVE proved \subseteq proved'
BY DEF Next, Start, Step, vars, row, request, cache, AddCheck, AddLimit, AddInsert,
       VerifyOwned, RetrySweep, VerifyRead, VerifyLookup, VerifyFail,
       VerifySucceed, Invalidate, Suspend, UnsuspendRead, UnsuspendWrite,
       AdminDelete, DeleteOwned, Delete, Cleanup, Resolve, Fill, Abort,
       Restart, Tick

\* A row appears only by an INSERT.
LEMMA OnlyInsertAdds ==
  ASSUME TypeOK, [Next]_vars, NEW i \in Ids, Row(i)'
  PROVE  \/ Row(i)
         \/ \E r \in Requests : AddInsert(r) /\ Insertable(host[r]) /\ i = nextId
<1>1. CASE UNCHANGED vars
  BY <1>1 DEF vars, row
<1>2. ASSUME NEW r \in Requests, AddInsert(r)
      PROVE  Row(i) \/ (Insertable(host[r]) /\ i = nextId)
  BY <1>2 DEF TypeOK, AddInsert, row
<1>3. ASSUME NEW r \in Requests,
             \/ VerifySucceed(r) \/ UnsuspendWrite(r)
             \/ \E j \in Ids : Suspend(r, j) \/ Delete(r, j)
      PROVE  Row(i)
  BY <1>3 DEF TypeOK, VerifySucceed, Verifies, UnsuspendWrite, Suspend, Delete,
              Remove
<1>4. CASE Cleanup
  BY <1>4 DEF TypeOK, Cleanup, Remove
<1>5. ASSUME NEW r \in Requests,
             \/ AddLimit(r) \/ RetrySweep(r) \/ VerifyRead(r) \/ VerifyLookup(r)
             \/ VerifyFail(r) \/ Invalidate(r) \/ Fill(r) \/ Abort(r)
             \/ \E h \in Names : Resolve(r, h) \/ \E o \in Owners : AddCheck(r, h, o)
             \/ \E j \in Ids : \/ UnsuspendRead(r, j)
                               \/ \E o \in Owners : VerifyOwned(r, j, o)
      PROVE  Row(i)
  BY <1>5 DEF row, AddLimit, RetrySweep, VerifyRead, VerifyLookup, VerifyFail,
              Invalidate, Fill, Abort, Resolve, AddCheck, UnsuspendRead,
              VerifyOwned
<1>6. CASE Tick \/ \E n \in Nodes : Restart(n)
  BY <1>6 DEF row, Tick, Restart
<1>7. QED
  BY <1>1, <1>2, <1>3, <1>4, <1>5, <1>6
     DEF Next, Start, Step, AdminDelete, DeleteOwned

\* A request gets an id from a row that exists.
LEMMA TargetsExist ==
  ASSUME TypeOK, Issued, [Next]_vars, NEW r \in Requests, target'[r] # NoId
  PROVE  target'[r] = target[r] \/ (target'[r] \in Ids /\ Row(target'[r]))
<1>1. CASE UNCHANGED vars
  BY <1>1 DEF vars, request
<1>2. ASSUME NEW p \in Requests,
             \/ Finish(p) \/ AddLimit(p) \/ AddInsert(p) \/ VerifyFail(p)
             \/ Invalidate(p) \/ Fill(p) \/ Abort(p)
             \/ \E h \in Names, o \in Owners : AddCheck(p, h, o)
      PROVE  target'[r] = target[r]
  BY <1>2 DEF TypeOK, Finish, Works, AddLimit, AddInsert, VerifyFail, Invalidate,
              Fill, Abort, AddCheck
<1>3. ASSUME NEW p \in Requests,
             \/ VerifyLookup(p) \/ VerifySucceed(p) \/ UnsuspendWrite(p)
             \/ RetrySweep(p)
             \/ \E j \in Ids : \/ Suspend(p, j) \/ Delete(p, j)
                               \/ \E o \in Owners : VerifyOwned(p, j, o)
      PROVE  target'[r] = target[r]
  BY <1>3 DEF VerifyLookup, VerifySucceed, UnsuspendWrite, RetrySweep, Suspend,
              Delete, VerifyOwned
<1>4. ASSUME NEW p \in Requests, VerifyRead(p)
      PROVE  target'[r] = target[r] \/ (target'[r] \in Ids /\ Row(target'[r]))
  BY <1>4 DEF TypeOK, VerifyRead, Works
<1>5. ASSUME NEW p \in Requests, NEW h \in Names, Resolve(p, h)
      PROVE  target'[r] = target[r] \/ (target'[r] \in Ids /\ Row(target'[r]))
  BY <1>5 DEF TypeOK, Resolve, Works, Live, Registered
<1>6. ASSUME NEW p \in Requests, NEW j \in Ids, UnsuspendRead(p, j)
      PROVE  target'[r] = target[r] \/ (target'[r] \in Ids /\ Row(target'[r]))
  BY <1>6 DEF TypeOK, UnsuspendRead
<1>7. CASE Tick \/ Cleanup \/ \E n \in Nodes : Restart(n)
  BY <1>7 DEF Tick, Cleanup, Restart, request
<1>8. QED
  BY <1>1, <1>2, <1>3, <1>4, <1>5, <1>6, <1>7
     DEF Next, Start, Step, AdminDelete, DeleteOwned

\* A cache gets an entry only from a request that fills it.
LEMMA OnlyFillCaches ==
  ASSUME TypeOK, [Next]_vars, NEW n \in Nodes, NEW h \in Names,
         cached'[n][h] # NoId
  PROVE  \/ cached'[n][h] = cached[n][h]
         \/ \E r \in Requests : /\ Fill(r) /\ At(r, "fill") /\ host[r] = h
                                /\ cached'[n][h] = target[r]
<1>1. CASE UNCHANGED cached
  BY <1>1
<1>2. CASE Tick
  BY <1>2 DEF TypeOK, Tick
<1>3. ASSUME NEW m \in Nodes, Restart(m)
      PROVE  cached'[n][h] = cached[n][h]
  BY <1>3 DEF TypeOK, Restart
<1>4. ASSUME NEW r \in Requests, Invalidate(r)
      PROVE  cached'[n][h] = cached[n][h]
  BY <1>4 DEF TypeOK, Invalidate
<1>5. ASSUME NEW r \in Requests, Fill(r)
      PROVE  \/ cached'[n][h] = cached[n][h]
             \/ host[r] = h /\ cached'[n][h] = target[r]
  <2>1. cached' = [cached EXCEPT ![NodeOf[r]] =
                     [cached[NodeOf[r]] EXCEPT ![host[r]] = target[r]]]
    BY <1>5 DEF Fill
  <2>2. NodeOf[r] \in Nodes /\ cached[n] \in [Names -> Ids \cup {NoId}]
    BY DEF TypeOK
  <2>3. CASE n = NodeOf[r]
    BY <2>1, <2>2, <2>3 DEF TypeOK
  <2>4. CASE n # NodeOf[r]
    BY <2>1, <2>4 DEF TypeOK
  <2>5. QED BY <2>3, <2>4
<1>6. UNCHANGED cached \/ Tick \/ (\E m \in Nodes : Restart(m))
        \/ \E r \in Requests : Invalidate(r) \/ Fill(r)
  BY DEF Next, Start, Step, vars, row, cache, AddCheck, AddLimit, AddInsert,
         VerifyOwned, RetrySweep, VerifyRead, VerifyLookup, VerifyFail,
         VerifySucceed, Suspend, UnsuspendRead, UnsuspendWrite, AdminDelete,
         DeleteOwned, Delete, Cleanup, Resolve, Abort
<1>7. QED BY <1>1, <1>2, <1>3, <1>4, <1>5, <1>6 DEF Fill

\* Issued is inductive.
LEMMA IssuedNext == TypeOK /\ Issued /\ [Next]_vars => Issued'
<1> SUFFICES ASSUME TypeOK, Issued, [Next]_vars PROVE Issued'
  OBVIOUS
<1>1. TypeOK' BY NextTypes
<1>2. /\ nextId \in Int /\ nextId' \in Int /\ nextId <= nextId'
      /\ Ids \subseteq Int
  <2>1. /\ nextId \in Int /\ nextId' \in Int
        /\ Ids \subseteq Int
    BY <1>1 DEF TypeOK
  <2>2. QED BY <2>1, Immutable
<1>3. ASSUME NEW i \in Ids, Row(i)'
      PROVE  i < nextId'
  <2>1. CASE Row(i)
    BY <1>2, <2>1 DEF Issued
  <2>2. ASSUME NEW r \in Requests, AddInsert(r), Insertable(host[r]), i = nextId
        PROVE  i < nextId'
    BY <1>2, <2>2 DEF AddInsert
  <2>3. QED BY <1>3, <2>1, <2>2, OnlyInsertAdds
<1>4. ASSUME NEW r \in Requests, target'[r] # NoId
      PROVE  target'[r] < nextId'
  <2>1. target[r] \in Int BY DEF TypeOK
  <2>2. CASE target'[r] = target[r]
    BY <1>2, <1>4, <2>1, <2>2 DEF Issued
  <2>3. CASE target'[r] \in Ids /\ Row(target'[r])
    BY <1>2, <2>3 DEF Issued
  <2>4. QED BY <1>4, <2>2, <2>3, TargetsExist
<1>5. ASSUME NEW n \in Nodes, NEW h \in Names, cached'[n][h] # NoId
      PROVE  cached'[n][h] < nextId'
  <2>1. /\ cached[n][h] \in Int
        /\ \A r \in Requests : target[r] \in Int
    BY DEF TypeOK
  <2>2. CASE cached'[n][h] = cached[n][h]
    BY <1>2, <1>5, <2>1, <2>2 DEF Issued
  <2>3. ASSUME NEW r \in Requests, cached'[n][h] = target[r]
        PROVE  cached'[n][h] < nextId'
    BY <1>2, <1>5, <2>1, <2>3 DEF Issued
  <2>4. QED BY <1>5, <2>2, <2>3, OnlyFillCaches
<1>6. QED BY <1>3, <1>4, <1>5 DEF Issued

-----------------------------------------------------------------------------
(* One row per name *)

\* NamesUnique is inductive: the UNIQUE column refuses the second INSERT.
LEMMA NamesUniqueNext ==
  TypeOK /\ Issued /\ NamesUnique /\ [Next]_vars => NamesUnique'
<1> SUFFICES ASSUME TypeOK, Issued, NamesUnique, [Next]_vars,
                    NEW i \in Ids, NEW j \in Ids,
                    Row(i)', Row(j)', name'[i] = name'[j]
             PROVE  i = j
  BY DEF NamesUnique
<1>1. CASE Row(i) /\ Row(j)
  <2>1. name[i] = name'[i] /\ name[j] = name'[j]
    BY <1>1, Immutable DEF Issued
  <2>2. QED BY <1>1, <2>1 DEF NamesUnique
<1>2. ASSUME NEW k \in Ids, NEW l \in Ids, Row(k)', Row(l)', ~Row(k), Row(l)
      PROVE  name'[k] # name'[l]
  <2>1. PICK r \in Requests :
          AddInsert(r) /\ Insertable(host[r]) /\ k = nextId
    BY <1>2, OnlyInsertAdds
  <2>2. name'[k] = host[r]
    BY <2>1 DEF TypeOK, AddInsert
  <2>3. name'[l] = name[l]
    BY <1>2, Immutable DEF Issued
  <2>4. name[l] # host[r]
    BY <1>2, <2>1 DEF Insertable, Unregistered, Registered
  <2>5. QED BY <2>2, <2>3, <2>4
<1>3. CASE ~Row(i) /\ ~Row(j)
  BY <1>3, OnlyInsertAdds
<1>4. QED BY <1>1, <1>2, <1>3

\* Issued holds in every reachable state.
LEMMA IssuedAlways == Spec => [](TypeOK /\ Issued)
<1>1. Init => TypeOK /\ Issued
  <2>1. Init => Issued
    BY DEF Init, Issued
  <2>2. QED BY <2>1, InitTypes
<1>2. TypeOK /\ Issued /\ [Next]_vars => (TypeOK /\ Issued)'
  BY NextTypes, IssuedNext
<1>3. QED BY <1>1, <1>2, PTL DEF Spec

\* No interleaving of AddDomain, deletions and the cleanup ever registers a
\* name twice.
THEOREM UniqueNames == Spec => []NamesUnique
<1>1. Init => NamesUnique
  BY DEF Init, NamesUnique
<1>2. QED BY <1>1, IssuedAlways, NamesUniqueNext, PTL DEF Spec

-----------------------------------------------------------------------------
(* Evidence *)

\* What a request knows of its row: a lookup asks for the row's own name, a
\* success and a positive answer of Resolve rest on evidence.
Knowledge(r) ==
  /\ At(r, "lookup") => target[r] # NoId /\ name[target[r]] = host[r]
  /\ At(r, "succeed") => target[r] \in proved
  /\ At(r, "fill") /\ target[r] # NoId
       => target[r] \in proved /\ name[target[r]] = host[r]

\* The strengthening of VerifiedOnlyByProof and ServedOnlyProved.
Evidence ==
  /\ VerifiedOnlyByProof
  /\ \A r \in Requests : Knowledge(r)
  /\ \A n \in Nodes, h \in Names :
       cached[n][h] # NoId
       => cached[n][h] \in proved /\ name[cached[n][h]] = h

\* A row is verified by a request that has the evidence.
LEMMA VerifiedNext ==
  ASSUME TypeOK, Evidence, [Next]_vars
  PROVE  VerifiedOnlyByProof'
<1> SUFFICES ASSUME NEW i \in Ids, ver'[i] = "verified" PROVE i \in proved
  BY EvidenceStays DEF VerifiedOnlyByProof
<1>1. CASE ver[i] = "verified"
  BY <1>1 DEF Evidence, VerifiedOnlyByProof
<1>2. CASE UNCHANGED ver
  BY <1>2, <1>1
<1>3. ASSUME NEW r \in Requests, VerifySucceed(r)
      PROVE  i \in proved
  BY <1>1, <1>3 DEF TypeOK, VerifySucceed, Verifies, Evidence, Knowledge
<1>4. ASSUME NEW r \in Requests, VerifyFail(r) \/ AddInsert(r)
      PROVE  i \in proved
  <2>1. ver'[i] \in {ver[i], "failed", "pending"}
    BY <1>4 DEF TypeOK, VerifyFail, AddInsert, row
  <2>2. QED BY <1>1, <2>1
<1>5. ASSUME NEW r \in Requests, NEW j \in Ids, Delete(r, j)
      PROVE  i \in proved
  BY <1>1, <1>5 DEF TypeOK, Delete, Remove
<1>6. CASE Cleanup
  BY <1>1, <1>6 DEF TypeOK, Cleanup, Remove
<1>7. \/ UNCHANGED ver \/ Cleanup
      \/ \E r \in Requests : \/ VerifySucceed(r) \/ VerifyFail(r) \/ AddInsert(r)
                             \/ \E j \in Ids : Delete(r, j)
  BY DEF Next, Start, Step, vars, row, AddCheck, AddLimit, VerifyOwned,
         RetrySweep, VerifyRead, VerifyLookup, Invalidate, Suspend,
         UnsuspendRead, UnsuspendWrite, AdminDelete, DeleteOwned, Resolve, Fill,
         Abort, Restart, Tick
<1>8. QED BY <1>2, <1>3, <1>4, <1>5, <1>6, <1>7

\* A request that keeps its step and its row keeps its knowledge.
LEMMA KnowledgeStays ==
  ASSUME TypeOK, Issued, Evidence, [Next]_vars, NEW r \in Requests,
         pc'[r] = pc[r], target'[r] = target[r], host'[r] = host[r]
  PROVE  Knowledge(r)'
<1>1. CASE target[r] = NoId
  BY <1>1, EvidenceStays DEF Evidence, Knowledge
<1>2. CASE target[r] # NoId
  <2>1. target[r] \in Ids /\ target[r] < nextId
    BY <1>2 DEF TypeOK, Issued
  <2>2. name'[target[r]] = name[target[r]]
    BY <2>1, Immutable
  <2>3. QED BY <2>2, EvidenceStays DEF Evidence, Knowledge
<1>3. QED BY <1>1, <1>2

\* A request learns only what the table and DNS say.
LEMMA KnowledgeNext ==
  ASSUME TypeOK, Issued, Evidence, [Next]_vars, NEW r \in Requests
  PROVE  Knowledge(r)'
<1>1. CASE pc'[r] = pc[r] /\ target'[r] = target[r] /\ host'[r] = host[r]
  BY <1>1, KnowledgeStays
<1>2. CASE pc'[r] \notin {"lookup", "succeed", "fill"}
  BY <1>2 DEF Knowledge
<1>3. CASE VerifyRead(r)
  <2>1. CASE pc'[r] = "lookup"
    <3>1. PICK i \in batch[r] : Works(r, i, name[i], owner[i])
      BY <1>3, <2>1 DEF TypeOK, VerifyRead, Goto
    <3>2. i \in Ids /\ target'[r] = i /\ host'[r] = name[i]
      BY <3>1 DEF TypeOK, Works
    <3>3. name' = name
      BY <1>3 DEF VerifyRead, row
    <3>4. QED BY <2>1, <3>2, <3>3 DEF Knowledge
  <2>2. CASE pc'[r] # "lookup"
    BY <1>2, <1>3, <2>2 DEF TypeOK, VerifyRead, Goto
  <2>3. QED BY <2>1, <2>2
<1>4. CASE VerifyLookup(r)
  <2>1. CASE pc'[r] = "succeed"
    <3>1. PICK answer \in SUBSET {i \in Ids : i < nextId} :
            /\ Goto(r, IF Matches(answer, target[r]) THEN "succeed" ELSE "fail")
            /\ proved' = proved \cup {i \in answer :
                                        Normal[name[i]] = Normal[host[r]]}
      BY <1>4, <2>1 DEF TypeOK, VerifyLookup, Goto
    <3>2. target[r] \in answer
      BY <2>1, <3>1 DEF TypeOK, Goto, Matches
    <3>3. name[target[r]] = host[r]
      BY <1>4 DEF VerifyLookup, Evidence, Knowledge
    <3>4. target'[r] \in proved'
      BY <1>4, <3>1, <3>2, <3>3 DEF VerifyLookup
    <3>5. QED BY <2>1, <3>4 DEF Knowledge
  <2>2. CASE pc'[r] # "succeed"
    BY <1>2, <1>4, <2>2 DEF TypeOK, VerifyLookup, Goto
  <2>3. QED BY <2>1, <2>2
<1>5. ASSUME NEW h \in Names, Resolve(r, h)
      PROVE  Knowledge(r)'
  <2>1. PICK i \in Ids \cup {NoId} :
          /\ IF Live(Normal[h]) = {} THEN i = NoId ELSE i \in Live(Normal[h])
          /\ Works(r, i, Normal[h], NoOwner)
    BY <1>5 DEF Resolve
  <2>2. /\ pc'[r] = "fill" /\ target'[r] = i /\ host'[r] = Normal[h]
        /\ name' = name /\ proved' = proved
    BY <1>5, <2>1 DEF TypeOK, Resolve, Works, Goto, row
  <2>3. i # NoId => i \in proved /\ name[i] = Normal[h]
    BY <2>1 DEF Live, LiveRow, Registered, Evidence, VerifiedOnlyByProof
  <2>4. QED BY <2>2, <2>3 DEF Knowledge
<1>6. \/ VerifyRead(r) \/ VerifyLookup(r) \/ (\E h \in Names : Resolve(r, h))
      \/ pc'[r] \notin {"lookup", "succeed", "fill"}
      \/ pc'[r] = pc[r] /\ target'[r] = target[r] /\ host'[r] = host[r]
  <2>1. CASE UNCHANGED vars \/ Tick \/ Cleanup
    BY <2>1 DEF vars, request, Tick, Cleanup
  <2>2. ASSUME NEW n \in Nodes, Restart(n)
        PROVE  \/ pc'[r] = "idle"
               \/ pc'[r] = pc[r] /\ target'[r] = target[r] /\ host'[r] = host[r]
    BY <2>2 DEF TypeOK, Restart
  <2>3. ASSUME NEW p \in Requests, p # r,
               Start(p) \/ Step(p) \/ Abort(p)
        PROVE  pc'[r] = pc[r] /\ target'[r] = target[r] /\ host'[r] = host[r]
    BY <2>3 DEF TypeOK, Start, Step, AddCheck, AddLimit, AddInsert, VerifyOwned,
                RetrySweep, VerifyRead, VerifyLookup, VerifyFail, VerifySucceed,
                Invalidate, Suspend, UnsuspendRead, UnsuspendWrite, AdminDelete,
                DeleteOwned, Delete, Resolve, Fill, Abort, Finish, Works, Goto
  <2>4. CASE Start(r) \/ Step(r) \/ Abort(r)
    BY <2>4 DEF TypeOK, Start, Step, AddCheck, AddLimit, AddInsert, VerifyOwned,
                RetrySweep, VerifyFail, VerifySucceed,
                Invalidate, Suspend, UnsuspendRead, UnsuspendWrite, AdminDelete,
                DeleteOwned, Delete, Fill, Abort, Finish, Goto
  <2>5. QED BY <2>1, <2>2, <2>3, <2>4 DEF Next
<1>7. QED BY <1>1, <1>2, <1>3, <1>4, <1>5, <1>6

\* Evidence is inductive.
LEMMA EvidenceNext == TypeOK /\ Issued /\ Evidence /\ [Next]_vars => Evidence'
<1> SUFFICES ASSUME TypeOK, Issued, Evidence, [Next]_vars PROVE Evidence'
  OBVIOUS
<1>1. VerifiedOnlyByProof' BY VerifiedNext
<1>2. \A r \in Requests : Knowledge(r)' BY KnowledgeNext
<1>3. ASSUME NEW n \in Nodes, NEW h \in Names, cached'[n][h] # NoId
      PROVE  cached'[n][h] \in proved' /\ name'[cached'[n][h]] = h
  <2>1. CASE cached'[n][h] = cached[n][h]
    <3>1. cached[n][h] \in Ids /\ cached[n][h] < nextId
      BY <1>3, <2>1 DEF TypeOK, Issued
    <3>2. name'[cached[n][h]] = name[cached[n][h]]
      BY <3>1, Immutable
    <3>3. QED BY <1>3, <2>1, <3>2, EvidenceStays DEF Evidence
  <2>2. ASSUME NEW r \in Requests, Fill(r), At(r, "fill"), host[r] = h,
               cached'[n][h] = target[r]
        PROVE  cached'[n][h] \in proved' /\ name'[cached'[n][h]] = h
    BY <1>3, <2>2 DEF Fill, row, Evidence, Knowledge
  <2>3. QED BY <1>3, <2>1, <2>2, OnlyFillCaches
<1>4. QED BY <1>1, <1>2, <1>3 DEF Evidence

\* Evidence holds in every reachable state.
LEMMA EvidenceAlways == Spec => []Evidence
<1>1. Init => Evidence
  BY DEF Init, Evidence, VerifiedOnlyByProof, Knowledge
<1>2. QED BY <1>1, IssuedAlways, EvidenceNext, PTL DEF Spec

\* A domain is verified only after DNS showed the token of this very row,
\* whatever was deleted and added again while VerifyDomain waited for DNS.
THEOREM VerificationIsProof == Spec => []VerifiedOnlyByProof
<1>1. Evidence => VerifiedOnlyByProof
  BY DEF Evidence
<1>2. QED BY <1>1, EvidenceAlways, PTL

\* A process serves a name only for an owner who proved control of it.
THEOREM ServiceIsProved == Spec => []ServedOnlyProved
<1>1. Evidence => ServedOnlyProved
  BY DEF Evidence, ServedOnlyProved
<1>2. QED BY <1>1, EvidenceAlways, PTL

-----------------------------------------------------------------------------
(* CustomDomains implements DomainClaim *)

\* AddDomain inserts the name of its request.
Asked == \A r \in Requests : pc[r] \in {"limit", "insert"} => host[r] \in Names

\* Asked is inductive.
LEMMA AskedNext == TypeOK /\ Asked /\ [Next]_vars => Asked'
<1> SUFFICES ASSUME TypeOK, Asked, [Next]_vars, NEW r \in Requests,
                    pc'[r] \in {"limit", "insert"}
             PROVE  host'[r] \in Names
  BY DEF Asked
<1>1. CASE UNCHANGED vars \/ Tick \/ Cleanup
  BY <1>1 DEF Asked, vars, request, Tick, Cleanup
<1>2. ASSUME NEW n \in Nodes, Restart(n)
      PROVE  host'[r] \in Names
  BY <1>2 DEF TypeOK, Asked, Restart
<1>3. ASSUME NEW p \in Requests, p # r, Start(p) \/ Step(p) \/ Abort(p)
      PROVE  pc'[r] = pc[r] /\ host'[r] = host[r]
  BY <1>3 DEF TypeOK, Start, Step, AddCheck, AddLimit, AddInsert, VerifyOwned,
              RetrySweep, VerifyRead, VerifyLookup, VerifyFail, VerifySucceed,
              Invalidate, Suspend, UnsuspendRead, UnsuspendWrite, AdminDelete,
              DeleteOwned, Delete, Resolve, Fill, Abort, Finish, Works, Goto
<1>4. CASE AddLimit(r)
  BY <1>4 DEF TypeOK, Asked, AddLimit, Finish, Goto
<1>5. ASSUME NEW h \in Names, NEW o \in Owners, AddCheck(r, h, o)
      PROVE  host'[r] \in Names
  BY <1>5 DEF TypeOK, AddCheck, Works
<1>6. CASE Start(r) \/ Step(r) \/ Abort(r)
  <2>1. AddLimit(r) \/ (\E h \in Names, o \in Owners : AddCheck(r, h, o))
    BY <1>6 DEF TypeOK, Start, Step, AddInsert, VerifyOwned, RetrySweep,
                VerifyRead, VerifyLookup, VerifyFail, VerifySucceed, Invalidate,
                Suspend, UnsuspendRead, UnsuspendWrite, AdminDelete, DeleteOwned,
                Delete, Resolve, Fill, Abort, Finish, Goto
  <2>2. QED BY <1>4, <1>5, <2>1
<1>7. QED BY <1>1, <1>2, <1>3, <1>6 DEF Next, Asked

\* A step that removes no row, adds none and leaves what is verified alone is
\* invisible to the claims.
LEMMA Invisible ==
  ASSUME UNCHANGED <<nextId, name, ver>>,
         \A i \in Ids : Row(i)' <=> Row(i)
  PROVE  UNCHANGED <<Rows, Verified, Used>>
<1>1. \A h \in Names : Registered(h)' = Registered(h)
  BY DEF Registered
<1>2. QED BY <1>1 DEF Rows, Verified, Used

\* Most steps are invisible to the claims.
LEMMA InvisibleSteps ==
  ASSUME TypeOK,
         \/ UNCHANGED row \/ Tick \/ \E n \in Nodes : Restart(n)
         \/ \E r \in Requests :
              \/ UnsuspendWrite(r)
              \/ AddInsert(r) /\ ~Insertable(host[r])
              \/ \E i \in Ids : Suspend(r, i)
  PROVE  UNCHANGED <<Rows, Verified, Used>>
<1>1. CASE UNCHANGED row
  BY <1>1, Invisible DEF row
<1>2. CASE Tick \/ \E n \in Nodes : Restart(n)
  BY <1>1, <1>2 DEF Tick, Restart
<1>3. ASSUME NEW r \in Requests, AddInsert(r), ~Insertable(host[r])
      PROVE  UNCHANGED <<Rows, Verified, Used>>
  BY <1>1, <1>3 DEF AddInsert
<1>4. ASSUME NEW r \in Requests, UnsuspendWrite(r)
      PROVE  UNCHANGED <<Rows, Verified, Used>>
  BY <1>4, Invisible DEF TypeOK, UnsuspendWrite
<1>5. ASSUME NEW r \in Requests, NEW i \in Ids, Suspend(r, i)
      PROVE  UNCHANGED <<Rows, Verified, Used>>
  BY <1>5, Invisible DEF TypeOK, Suspend
<1>6. QED BY <1>1, <1>2, <1>3, <1>4, <1>5

\* The INSERT is a Claim.
LEMMA InsertClaims ==
  ASSUME TypeOK, Issued, Asked,
         NEW r \in Requests, AddInsert(r), Insertable(host[r]),
         NEW g, g = host[r], NEW k, k = nextId
  PROVE  Claims!Claim(g, k)
<1>1. /\ g \in Names /\ k \in Ids
      /\ Registered(g) = {} /\ ~Row(k)
  BY DEF AddInsert, Asked, Insertable, Unregistered, TypeOK, Issued
<1>2. /\ nextId' = k + 1
      /\ name' = [name EXCEPT ![k] = g]
      /\ ver' = [ver EXCEPT ![k] = "pending"]
      /\ status' = [status EXCEPT ![k] = "pending"]
  BY DEF AddInsert
<1>3. /\ name'[k] = g /\ ver'[k] = "pending"
      /\ status'[k] = "pending"
  BY <1>1, <1>2 DEF TypeOK
<1>4. \A i \in Ids \ {k} :
        name'[i] = name[i] /\ ver'[i] = ver[i] /\ status'[i] = status[i]
  BY <1>1, <1>2 DEF TypeOK
<1>5. ASSUME NEW h \in Names, h # g
      PROVE  /\ Registered(h)' = Registered(h)
             /\ Verified'[h] = Verified[h]
  <2>1. \A i \in Ids : i \in Registered(h)' <=> i \in Registered(h)
    BY <1>1, <1>3, <1>4, <1>5 DEF Registered
  <2>2. Registered(h)' = Registered(h)
    BY <2>1 DEF Registered
  <2>3. \A i \in Registered(h) : ver'[i] = ver[i]
    BY <1>1, <1>4 DEF Registered
  <2>4. QED BY <2>2, <2>3 DEF Verified
<1>6. Registered(g)' = {k}
  <2>1. \A i \in Ids : i \in Registered(g)' <=> i = k
    BY <1>1, <1>3, <1>4 DEF Registered
  <2>2. QED BY <1>1, <2>1 DEF Registered
<1>7. Rows' = [Rows EXCEPT ![g] = {k}]
  BY <1>5, <1>6 DEF Rows
<1>8. Verified' = Verified
  <2>1. Verified'[g] = {} /\ Verified[g] = {}
    BY <1>1, <1>3, <1>6 DEF Verified
  <2>2. QED BY <1>5, <2>1 DEF Verified
<1>9. Used' = Used \cup {k}
  BY <1>1, <1>2 DEF Used, TypeOK
<1>10. Rows[g] = {} /\ k \in Ids \ Used
  BY <1>1 DEF Rows, Used, TypeOK
<1>11. QED BY <1>7, <1>8, <1>9, <1>10 DEF Claims!Claim

\* A verification that ends is a Check of the claim, if the row still exists.
LEMMA VerifyChecks ==
  ASSUME TypeOK, NamesUnique, NEW r \in Requests, NEW ok \in BOOLEAN,
         UNCHANGED <<nextId, name>>,
         \A i \in Ids : Row(i)' <=> Row(i),
         \A i \in Ids : ver'[i] = IF i = target[r] /\ Row(i)
                                    THEN IF ok THEN "verified" ELSE "failed"
                                    ELSE ver[i]
  PROVE  \/ UNCHANGED <<Rows, Verified, Used>>
         \/ \E h \in Names : Claims!Check(h, ok)
<1>1. \A h \in Names : Registered(h)' = Registered(h)
  BY DEF Registered
<1>2. Rows' = Rows /\ Used' = Used
  BY <1>1 DEF Rows, Used
<1>3. CASE target[r] \in Ids /\ Row(target[r]) /\ name[target[r]] \in Names
  <2> DEFINE h == name[target[r]]
  <2>1. h \in Names /\ Registered(h) = {target[r]}
    BY <1>3 DEF NamesUnique, Registered
  <2>2. Verified'[h] = IF ok THEN Rows[h] ELSE {}
    <3>1. \A i \in Registered(h) : ver'[i] = IF ok THEN "verified" ELSE "failed"
      BY <1>3, <2>1
    <3>2. Verified'[h] = {i \in Registered(h) : ver'[i] = "verified"}
      BY <1>1, <2>1 DEF Verified
    <3>3. QED BY <2>1, <3>1, <3>2 DEF Rows
  <2>3. \A g \in Names \ {h} : Verified'[g] = Verified[g]
    BY <1>1 DEF Verified, Registered
  <2>4. Verified' = [Verified EXCEPT ![h] = IF ok THEN Rows[h] ELSE {}]
    <3> DEFINE V == IF ok THEN Rows[h] ELSE {}
    <3>1. Verified \in [Names -> SUBSET Ids] /\ DOMAIN Verified' = Names
      BY DEF Verified, Registered
    <3>2. Verified'[h] = V
      BY <2>2
    <3> HIDE DEF V
    <3>3. Verified' = [Verified EXCEPT ![h] = V]
      <4>1. Verified' = [g \in Names |-> Verified'[g]]
        BY DEF Verified
      <4>2. DOMAIN [Verified EXCEPT ![h] = V] = Names
        BY <3>1
      <4>3. \A g \in Names : Verified'[g] = [Verified EXCEPT ![h] = V][g]
        BY ONLY <2>1, <2>3, <3>1, <3>2
      <4> HIDE DEF h
      <4>4. QED BY ONLY <3>1, <4>1, <4>2, <4>3
    <3>4. QED BY <3>3 DEF V
  <2>5. QED BY <1>2, <2>1, <2>4 DEF Claims!Check
<1>4. CASE ~(target[r] \in Ids /\ Row(target[r]) /\ name[target[r]] \in Names)
  <2>1. \A g \in Names : Verified'[g] = Verified[g]
    BY <1>1, <1>4 DEF Verified, Registered
  <2>2. QED BY <1>2, <2>1 DEF Verified
<1>5. QED BY <1>3, <1>4

\* Deleting rows releases their names.
LEMMA RemoveReleases ==
  ASSUME TypeOK, NamesUnique, NEW S \in SUBSET Ids, Remove(S)
  PROVE  \E H \in SUBSET Names : Claims!Release(H)
<1> DEFINE H == {h \in Names : \E i \in S : i \in Registered(h)}
<1>1. \A i \in Ids : (Row(i)' <=> Row(i) /\ i \notin S) /\ name'[i] = name[i]
  BY DEF Remove, TypeOK
<1>2. \A i \in Ids \ S : ver'[i] = ver[i]
  BY DEF Remove, TypeOK
<1>3. ASSUME NEW h \in H PROVE Registered(h)' = {}
  <2>1. \A i \in Ids : i \notin Registered(h)'
    BY <1>1 DEF NamesUnique, Registered
  <2>2. QED BY <2>1 DEF Registered
<1>4. ASSUME NEW h \in Names \ H PROVE Registered(h)' = Registered(h)
  <2>1. \A i \in Ids : i \in Registered(h)' <=> i \in Registered(h)
    BY <1>1 DEF Registered
  <2>2. QED BY <2>1 DEF Registered
<1>5. Rows' = [h \in Names |-> IF h \in H THEN {} ELSE Rows[h]]
  BY <1>3, <1>4 DEF Rows
<1>6. \A h \in Names : Verified'[h] = IF h \in H THEN {} ELSE Verified[h]
  <2>1. ASSUME NEW h \in H PROVE Verified'[h] = {}
    BY <1>3 DEF Verified
  <2>2. ASSUME NEW h \in Names \ H PROVE Verified'[h] = Verified[h]
    <3>1. \A i \in Registered(h) : ver'[i] = ver[i]
      BY <1>2, <2>2 DEF Registered
    <3>2. QED BY <1>4, <2>2, <3>1 DEF Verified
  <2>3. QED BY <2>1, <2>2
<1>7. Verified' = [h \in Names |-> IF h \in H THEN {} ELSE Verified[h]]
  BY <1>6 DEF Verified
<1>8. Used' = Used
  BY DEF Used, Remove
<1>9. QED BY <1>5, <1>7, <1>8 DEF Claims!Release

\* Every step is a step of DomainClaim or invisible to it.
LEMMA ClaimsStep ==
  ASSUME TypeOK, Issued, NamesUnique, Asked, [Next]_vars
  PROVE  [Claims!Next]_<<Rows, Verified, Used>>
<1>1. ASSUME NEW r \in Requests, AddInsert(r), Insertable(host[r])
      PROVE  Claims!Next
  <2>1. host[r] \in Names /\ nextId \in Ids
    BY <1>1 DEF AddInsert, Asked, Insertable, TypeOK
  <2>2. PICK g \in Names, k \in Ids : g = host[r] /\ k = nextId
    BY <2>1
  <2>3. Claims!Claim(g, k)
    BY <1>1, <2>2, InsertClaims
  <2>4. QED BY <2>3 DEF Claims!Next
<1>2. ASSUME NEW r \in Requests, VerifySucceed(r)
      PROVE  [Claims!Next]_<<Rows, Verified, Used>>
  <2>1. /\ UNCHANGED <<nextId, name>>
        /\ \A i \in Ids : Row(i)' <=> Row(i)
        /\ \A i \in Ids : ver'[i] = IF i = target[r] /\ Row(i)
                                      THEN IF TRUE THEN "verified" ELSE "failed"
                                      ELSE ver[i]
    BY <1>2 DEF VerifySucceed, Verifies
  <2>2. \/ UNCHANGED <<Rows, Verified, Used>>
        \/ \E h \in Names : Claims!Check(h, TRUE)
    BY <2>1, VerifyChecks
  <2>3. QED BY <2>2 DEF Claims!Next
<1>3. ASSUME NEW r \in Requests, VerifyFail(r)
      PROVE  [Claims!Next]_<<Rows, Verified, Used>>
  <2>1. /\ UNCHANGED <<nextId, name>>
        /\ \A i \in Ids : Row(i)' <=> Row(i)
        /\ \A i \in Ids : ver'[i] = IF i = target[r] /\ Row(i)
                                      THEN IF FALSE THEN "verified" ELSE "failed"
                                      ELSE ver[i]
    BY <1>3 DEF VerifyFail, TypeOK
  <2>2. \/ UNCHANGED <<Rows, Verified, Used>>
        \/ \E h \in Names : Claims!Check(h, FALSE)
    BY <2>1, VerifyChecks
  <2>3. QED BY <2>2 DEF Claims!Next
<1>4. ASSUME NEW r \in Requests, NEW i \in Ids, Delete(r, i)
      PROVE  Claims!Next
  BY <1>4, RemoveReleases DEF Delete, Claims!Next
<1>5. CASE Cleanup
  BY <1>5, RemoveReleases DEF Cleanup, Expired, Claims!Next
<1>6. CASE UNCHANGED row \/ Tick \/ \E n \in Nodes : Restart(n)
  BY <1>6, InvisibleSteps
<1>7. ASSUME NEW r \in Requests,
             \/ UnsuspendWrite(r)
             \/ AddInsert(r) /\ ~Insertable(host[r])
             \/ \E i \in Ids : Suspend(r, i)
      PROVE  UNCHANGED <<Rows, Verified, Used>>
  BY <1>7, InvisibleSteps
<1>8. \/ UNCHANGED row \/ Tick \/ Cleanup \/ (\E n \in Nodes : Restart(n))
      \/ \E r \in Requests :
           \/ AddInsert(r) \/ VerifySucceed(r) \/ VerifyFail(r)
           \/ UnsuspendWrite(r)
           \/ \E i \in Ids : Suspend(r, i) \/ Delete(r, i)
  BY DEF Next, Start, Step, vars, AddCheck, AddLimit, VerifyOwned, RetrySweep,
         VerifyRead, VerifyLookup, Invalidate, UnsuspendRead, AdminDelete,
         DeleteOwned, Resolve, Fill, Abort
<1>9. QED BY <1>1, <1>2, <1>3, <1>4, <1>5, <1>6, <1>7, <1>8

\* CustomDomains implements DomainClaim.
THEOREM Implementation == Spec => ClaimsKept
<1>1. Init => Claims!Init /\ Asked
  BY DEF Init, Claims!Init, Rows, Verified, Used, Registered, Asked
<1>2. TypeOK /\ Issued /\ NamesUnique /\ Asked /\ [Next]_vars
        => [Claims!Next]_<<Rows, Verified, Used>>
  BY ClaimsStep
<1>3. QED
  BY <1>1, <1>2, IssuedAlways, UniqueNames, AskedNext, PTL
     DEF Spec, ClaimsKept, Claims!Spec

-----------------------------------------------------------------------------
(* Requests that come one at a time *)

\* One process serves them all.
OneProcess == \A m, n \in Nodes : m = n

\* A request that starts leaves the idle state.
LEMMA StartMoves ==
  ASSUME NEW q \in Requests, Start(q)
  PROVE  /\ At(q, "idle")
         /\ \E s \in Steps \ {"idle"} : pc' = [pc EXCEPT ![q] = s]
<1>1. ASSUME NEW s \in Steps \ {"idle"}, Goto(q, s)
      PROVE  \E t \in Steps \ {"idle"} : pc' = [pc EXCEPT ![q] = t]
  BY <1>1 DEF Goto
<1>2. At(q, "idle")
  BY DEF Start, Resolve, AddCheck, Suspend, UnsuspendRead, AdminDelete,
         DeleteOwned, Delete, VerifyOwned, RetrySweep
<1>3. \/ Goto(q, "fill") \/ Goto(q, "limit") \/ Goto(q, "invalidate")
      \/ Goto(q, "activate") \/ Goto(q, "repend") \/ Goto(q, "read")
  BY DEF Start, Resolve, AddCheck, Suspend, UnsuspendRead, AdminDelete,
         DeleteOwned, Delete, VerifyOwned, RetrySweep
<1>4. QED BY <1>1, <1>2, <1>3 DEF Steps

\* While one request is under way no other moves.
LEMMA OthersRest ==
  ASSUME TypeOK, Serial, Serial', NEW q \in Requests,
         Start(q) \/ Step(q) \/ Abort(q)
  PROVE  \A r \in Requests : r # q => At(r, "idle") /\ At(r, "idle")'
<1>1. ASSUME NEW r \in Requests, r # q PROVE pc'[r] = pc[r]
  <2>1. ASSUME NEW s, pc' = [pc EXCEPT ![q] = s] PROVE pc'[r] = pc[r]
    BY <1>1, <2>1 DEF TypeOK
  <2>2. CASE Start(q)
    BY <2>1, <2>2, StartMoves
  <2>3. CASE Step(q) \/ Abort(q)
    BY <1>1, <2>3 DEF Step, Abort, AddLimit, AddInsert, VerifyRead, VerifyLookup,
       VerifyFail, VerifySucceed, UnsuspendWrite, Invalidate, Fill, Finish,
       Goto, TypeOK
  <2>4. QED BY <2>2, <2>3
<1>2. CASE Start(q)
  <2>1. ~At(q, "idle")'
    BY <1>2, StartMoves DEF TypeOK
  <2>2. QED BY <1>1, <2>1 DEF Serial
<1>3. CASE Step(q) \/ Abort(q)
  <2>1. ~At(q, "idle")
    BY <1>3 DEF Step, Abort, AddLimit, AddInsert, VerifyRead, VerifyLookup,
       VerifyFail, VerifySucceed, UnsuspendWrite, Invalidate, Fill
  <2>2. QED BY <1>1, <2>1 DEF Serial
<1>4. QED BY <1>2, <1>3

-----------------------------------------------------------------------------
(* No domain is forgotten *)

\* What UnsuspendDomain decided is still right when it writes.
Decided == \A r \in Requests :
  At(r, "repend") => target[r] \in Ids /\ ver[target[r]] # "verified"

ForgetInv == TypeOK /\ Decided /\ NoneForgotten

\* A request decides to return the domain to pending by UnsuspendRead only.
LEMMA OnlyUnsuspendDecides ==
  ASSUME TypeOK, NEW q \in Requests, Start(q) \/ Step(q) \/ Abort(q),
         At(q, "repend")'
  PROVE  \E i \in Ids : UnsuspendRead(q, i) /\ ver[i] # "verified"
<1>1. \E i \in Ids : UnsuspendRead(q, i)
  BY DEF TypeOK, Start, Resolve, AddCheck, Suspend, AdminDelete, DeleteOwned,
         Delete, VerifyOwned, RetrySweep, Step, Abort, AddLimit, AddInsert,
         VerifyRead, VerifyLookup, VerifyFail, VerifySucceed, UnsuspendWrite,
         Invalidate, Fill, Finish, Goto
<1>2. QED BY <1>1 DEF UnsuspendRead, Goto, TypeOK

LEMMA DecidedNext ==
  ASSUME TypeOK, Decided, Serial, Serial', [Next]_vars
  PROVE  Decided'
<1>1. ASSUME NEW q \in Requests, Start(q) \/ Step(q) \/ Abort(q)
      PROVE  Decided'
  <2>1. \A r \in Requests : r # q => ~At(r, "repend")'
    BY <1>1, OthersRest
  <2>2. ASSUME At(q, "repend")'
        PROVE  target'[q] \in Ids /\ ver'[target'[q]] # "verified"
    <3>1. PICK i \in Ids : UnsuspendRead(q, i) /\ ver[i] # "verified"
      BY <1>1, <2>2, OnlyUnsuspendDecides
    <3>2. QED BY <3>1 DEF UnsuspendRead, row, TypeOK
  <2>3. QED BY <2>1, <2>2 DEF Decided
<1>2. CASE Cleanup
  <2>1. \A i \in Ids : ver'[i] \in {ver[i], "none"}
    BY <1>2 DEF Cleanup, Remove
  <2>2. UNCHANGED <<pc, target>>
    BY <1>2 DEF Cleanup, request
  <2>3. QED BY <2>1, <2>2 DEF Decided
<1>3. CASE Tick \/ UNCHANGED vars
  <2>1. UNCHANGED <<pc, target, ver>>
    BY <1>3 DEF Tick, vars, row, request
  <2>2. QED BY <2>1 DEF Decided
<1>4. ASSUME NEW n \in Nodes, Restart(n)
      PROVE  Decided'
  <2>1. ver' = ver
    BY <1>4 DEF Restart, row
  <2>2. \A r \in Requests :
          At(r, "repend")' => At(r, "repend") /\ target'[r] = target[r]
    BY <1>4 DEF Restart
  <2>3. QED BY <2>1, <2>2 DEF Decided
<1>5. QED BY <1>1, <1>2, <1>3, <1>4 DEF Next

\* Every step keeps a verified domain out of "pending".
LEMMA ForgottenNext ==
  ASSUME TypeOK, Decided, NoneForgotten, [Next]_vars
  PROVE  NoneForgotten'
<1>1. ASSUME UNCHANGED <<ver, status>> PROVE NoneForgotten'
  BY <1>1 DEF NoneForgotten
<1>2. ASSUME NEW r \in Requests, AddInsert(r) PROVE NoneForgotten'
  <2>1. CASE Insertable(host[r])
    BY <1>2, <2>1 DEF AddInsert, NoneForgotten, TypeOK
  <2>2. CASE ~Insertable(host[r])
    BY <1>1, <1>2, <2>2 DEF AddInsert, row
  <2>3. QED BY <2>1, <2>2
<1>3. ASSUME NEW r \in Requests, VerifyFail(r) PROVE NoneForgotten'
  BY <1>3 DEF VerifyFail, NoneForgotten, TypeOK
<1>4. ASSUME NEW r \in Requests, VerifySucceed(r) PROVE NoneForgotten'
  BY <1>4 DEF VerifySucceed, Verifies, NoneForgotten, TypeOK
<1>5. ASSUME NEW r \in Requests, NEW i \in Ids, Suspend(r, i)
      PROVE  NoneForgotten'
  BY <1>5 DEF Suspend, NoneForgotten, TypeOK
<1>6. ASSUME NEW r \in Requests, UnsuspendWrite(r) PROVE NoneForgotten'
  <2>1. At(r, "activate") \/ At(r, "repend")
    BY <1>6 DEF UnsuspendWrite
  <2>2. ver' = ver
    BY <1>6 DEF UnsuspendWrite
  <2>3. ASSUME NEW i \in Ids, ver[i] = "verified" PROVE status'[i] # "pending"
    <3>1. CASE At(r, "activate")
      BY <1>6, <2>3, <3>1 DEF UnsuspendWrite, NoneForgotten, TypeOK
    <3>2. CASE At(r, "repend")
      BY <1>6, <2>3, <3>2 DEF UnsuspendWrite, NoneForgotten, Decided, TypeOK
    <3>3. QED BY <2>1, <3>1, <3>2
  <2>4. QED BY <2>2, <2>3 DEF NoneForgotten
<1>7. ASSUME NEW S, Remove(S) PROVE NoneForgotten'
  BY <1>7 DEF Remove, NoneForgotten
<1>8. ASSUME NEW r \in Requests,
             \/ AddLimit(r) \/ RetrySweep(r) \/ VerifyRead(r) \/ VerifyLookup(r)
             \/ Invalidate(r) \/ Fill(r) \/ Abort(r)
             \/ \E h \in Names : Resolve(r, h) \/ \E o \in Owners : AddCheck(r, h, o)
             \/ \E j \in Ids : \/ UnsuspendRead(r, j)
                               \/ \E o \in Owners : VerifyOwned(r, j, o)
      PROVE  NoneForgotten'
  <2>1. UNCHANGED <<ver, status>>
    BY <1>8 DEF row, AddLimit, RetrySweep, VerifyRead, VerifyLookup, Invalidate,
                Fill, Abort, Resolve, AddCheck, UnsuspendRead, VerifyOwned
  <2>2. QED BY <1>1, <2>1
<1>9. ASSUME Tick \/ UNCHANGED vars \/ \E n \in Nodes : Restart(n)
      PROVE  NoneForgotten'
  <2>1. UNCHANGED <<ver, status>>
    BY <1>9 DEF Tick, vars, Restart, row
  <2>2. QED BY <1>1, <2>1
<1>10. ASSUME NEW r \in Requests, NEW j \in Ids, Delete(r, j)
       PROVE  NoneForgotten'
  BY <1>7, <1>10 DEF Delete
<1>11. Cleanup => NoneForgotten'
  BY <1>7 DEF Cleanup
<1>12. QED
  BY <1>2, <1>3, <1>4, <1>5, <1>6, <1>8, <1>9, <1>10, <1>11
     DEF Next, Start, Step, AdminDelete, DeleteOwned

\* While requests come one at a time, whatever they do, whenever the cleanup
\* runs and a process restarts: a domain that is verified is never left
\* pending, where neither the retries nor the cleanup would look at it again.
THEOREM ForgetsNone == Spec => SerialForgetsNone
<1>1. Init => ForgetInv
  <2>1. Init => Decided /\ NoneForgotten
    BY DEF Init, Decided, NoneForgotten
  <2>2. QED BY <2>1, InitTypes DEF ForgetInv
<1>2. ForgetInv /\ Serial /\ Serial' /\ [Next]_vars => ForgetInv'
  BY DecidedNext, ForgottenNext, NextTypes DEF ForgetInv
<1>3. ForgetInv => NoneForgotten
  BY DEF ForgetInv
<1>4. QED BY <1>1, <1>2, <1>3, PTL DEF Spec, SerialForgetsNone

-----------------------------------------------------------------------------
(* Changes that take effect at once *)

\* A row in the cache that needs no invalidation: Resolve would select it, or
\* it only failed a verification.
Kept(i) == LiveRow(i) \/ Lapsed(i)

\* The answer i for host name h is what the table says now, but for that.
Current(h, i) == IF i = NoId THEN Live(h) = {} ELSE Kept(i)

\* The cache is current, or is about to be dropped; what a request is about
\* to put into it is current too.
Fresh == \A n \in Nodes, h \in Names : Hit(n, h) => Current(h, cached[n][h])
CacheInv == Fresh \/ \E r \in Requests : At(r, "invalidate")
FillInv == \A r \in Requests :
  At(r, "fill") => host[r] \in Names /\ Current(host[r], target[r])

AtOnceInv == TypeOK /\ Issued /\ CacheInv /\ FillInv

\* With the table, the answers stay current.
LEMMA CurrentStays ==
  ASSUME UNCHANGED <<name, ver, status>>, NEW h, NEW i, Current(h, i)
  PROVE  Current(h, i)'
BY DEF Current, Kept, Lapsed, Live, LiveRow, Registered

\* An answer stays current when no row becomes live and none that was is
\* suspended or removed.
LEMMA CurrentKept ==
  ASSUME NEW h \in Names, NEW i \in Ids \cup {NoId}, Current(h, i),
         Live(h)' \subseteq Live(h),
         i # NoId /\ Kept(i) => Kept(i)'
  PROVE  Current(h, i)'
BY DEF Current

\* A step that leaves caches and answers under way alone keeps them current
\* if it keeps every answer current.
LEMMA KeepsCurrent ==
  ASSUME TypeOK, UNCHANGED <<cached, ttl>>, Fresh,
         \A h \in Names, i \in Ids \cup {NoId} :
           (i = NoId \/ i < nextId) /\ Current(h, i) => Current(h, i)',
         Issued
  PROVE  Fresh'
<1>1. ASSUME NEW n \in Nodes, NEW h \in Names, Hit(n, h)'
      PROVE  Current(h, cached[n][h])'
  <2>1. Current(h, cached[n][h])
    BY <1>1 DEF Fresh, Hit
  <2>2. cached[n][h] \in Ids \cup {NoId}
    BY DEF TypeOK
  <2>3. cached[n][h] = NoId \/ cached[n][h] < nextId
    BY DEF Issued
  <2>4. PICK i \in Ids \cup {NoId} : i = cached[n][h]
    BY <2>2
  <2>5. Current(h, i)'
    BY <2>1, <2>3, <2>4
  <2>6. cached'[n][h] = i
    BY <2>4
  <2>7. QED BY <2>5, <2>6 DEF Current
<1>2. QED BY <1>1 DEF Fresh

\* A row that is inserted is pending: it is not live, and nobody holds its id.
LEMMA InsertCurrent ==
  ASSUME TypeOK, Issued, NEW r \in Requests, AddInsert(r),
         NEW h \in Names, NEW i \in Ids \cup {NoId}, i = NoId \/ i < nextId,
         Current(h, i)
  PROVE  Current(h, i)'
<1>1. CASE Insertable(host[r])
  <2>1. /\ ver' = [ver EXCEPT ![nextId] = "pending"]
        /\ status' = [status EXCEPT ![nextId] = "pending"]
        /\ name' = [name EXCEPT ![nextId] = host[r]]
        /\ nextId \in Ids
    BY <1>1 DEF AddInsert, Insertable, TypeOK
  <2>2. \A j \in Ids : j # nextId => /\ status'[j] = status[j]
                                     /\ ver'[j] = ver[j] /\ name'[j] = name[j]
    BY <2>1 DEF TypeOK
  <2>3. status'[nextId] = "pending"
    BY <2>1 DEF TypeOK
  <2>4. Live(h)' \subseteq Live(h)
    BY <2>2, <2>3 DEF Live, LiveRow, Registered
  <2>5. i # NoId /\ Kept(i) => Kept(i)'
    BY <2>1, <2>2 DEF TypeOK, Kept, Lapsed, LiveRow
  <2>6. QED BY <2>4, <2>5, CurrentKept
<1>2. CASE ~Insertable(host[r])
  BY <1>2, CurrentStays DEF AddInsert, row
<1>3. QED BY <1>1, <1>2

\* A failed verification takes a row from the live ones at most, a cleanup
\* removes rows that are not.
LEMMA FailCurrent ==
  ASSUME TypeOK, NEW r \in Requests, VerifyFail(r),
         NEW h \in Names, NEW i \in Ids \cup {NoId}, Current(h, i)
  PROVE  Current(h, i)'
<1>1. \A j \in Ids : ver'[j] \in {ver[j], "failed"}
  BY DEF VerifyFail, TypeOK
<1>2. UNCHANGED <<name, status>>
  BY DEF VerifyFail
<1>3. Live(h)' \subseteq Live(h)
  BY <1>1, <1>2 DEF Live, LiveRow, Registered
<1>4. i # NoId /\ Kept(i) => Kept(i)'
  BY <1>1, <1>2 DEF Kept, Lapsed, LiveRow
<1>5. QED BY <1>3, <1>4, CurrentKept

LEMMA CleanupCurrent ==
  ASSUME TypeOK, Cleanup, NEW h \in Names, NEW i \in Ids \cup {NoId},
         Current(h, i)
  PROVE  Current(h, i)'
<1>1. \A j \in Ids : /\ status[j] = "active" => status'[j] = status[j] /\ ver'[j] = ver[j]
                     /\ status'[j] \in {status[j], "none"}
                     /\ ver'[j] \in {ver[j], "none"}
  BY DEF Cleanup, Remove, Expired
<1>2. name' = name
  BY DEF Cleanup, Remove
<1>3. Live(h)' \subseteq Live(h)
  BY <1>1, <1>2 DEF Live, LiveRow, Registered
<1>4. i # NoId /\ Kept(i) => Kept(i)'
  BY <1>1 DEF Kept, Lapsed, LiveRow
<1>5. QED BY <1>3, <1>4, CurrentKept

\* The steps of a request that change neither the caches nor what is served.
LEMMA QuietSteps ==
  ASSUME TypeOK, Issued, NEW r \in Requests,
         \/ AddLimit(r) \/ AddInsert(r) \/ RetrySweep(r) \/ VerifyRead(r)
         \/ VerifyLookup(r) \/ VerifyFail(r) \/ Abort(r)
         \/ \E h \in Names : Resolve(r, h) \/ \E o \in Owners : AddCheck(r, h, o)
         \/ \E j \in Ids : \/ UnsuspendRead(r, j)
                           \/ \E o \in Owners : VerifyOwned(r, j, o),
         Fresh
  PROVE  Fresh'
<1>1. UNCHANGED <<cached, ttl>>
  BY DEF cache, AddLimit, AddInsert, RetrySweep, VerifyRead, VerifyLookup,
         VerifyFail, Abort, Resolve, AddCheck, UnsuspendRead, VerifyOwned
<1>2. ASSUME NEW h \in Names, NEW i \in Ids \cup {NoId},
             i = NoId \/ i < nextId, Current(h, i)
      PROVE  Current(h, i)'
  <2>1. CASE AddInsert(r)
    BY <1>2, <2>1, InsertCurrent
  <2>2. CASE VerifyFail(r)
    BY <1>2, <2>2, FailCurrent
  <2>3. CASE ~AddInsert(r) /\ ~VerifyFail(r)
    <3>1. UNCHANGED <<name, ver, status>>
      BY <2>3 DEF row, AddLimit, RetrySweep, VerifyRead, VerifyLookup, Abort,
                  Resolve, AddCheck, UnsuspendRead, VerifyOwned
    <3>2. QED BY <1>2, <3>1, CurrentStays
  <2>4. QED BY <2>1, <2>2, <2>3
<1>3. QED BY <1>1, <1>2, KeepsCurrent

\* Steps that change what is served go on to the invalidation.
LEMMA LoudSteps ==
  ASSUME TypeOK, NEW r \in Requests,
         \/ VerifySucceed(r) \/ UnsuspendWrite(r)
         \/ \E i \in Ids : Suspend(r, i) \/ Delete(r, i)
  PROVE  At(r, "invalidate")'
BY DEF VerifySucceed, UnsuspendWrite, Suspend, Delete, Goto, TypeOK

\* The cache a request fills, drops or takes over stays current.
LEMMA FillCurrent ==
  ASSUME TypeOK, Fresh, FillInv, NEW r \in Requests, Fill(r)
  PROVE  Fresh'
<1>1. Current(host[r], target[r]) /\ UNCHANGED <<name, ver, status>>
  BY DEF Fill, FillInv, row
<1>2. ASSUME NEW n \in Nodes, NEW h \in Names, Hit(n, h)'
      PROVE  Current(h, cached'[n][h])
  <2>1. CASE n = NodeOf[r] /\ h = host[r]
    <3>1. cached'[n][h] = target[r]
      BY <2>1 DEF Fill, TypeOK
    <3>2. QED BY <1>1, <2>1, <3>1
  <2>2. CASE n # NodeOf[r] \/ h # host[r]
    <3>1. cached'[n][h] = cached[n][h] /\ ttl'[n][h] = ttl[n][h]
      BY <2>2 DEF Fill, TypeOK
    <3>2. QED BY <1>2, <3>1 DEF Fresh, Hit
  <2>3. QED BY <2>1, <2>2
<1>3. ASSUME NEW n \in Nodes, NEW h \in Names, Hit(n, h)'
      PROVE  Current(h, cached[n][h])'
  <2>1. PICK i : i = cached'[n][h]
    OBVIOUS
  <2>2. Current(h, i)
    BY <1>2, <1>3, <2>1
  <2>3. Current(h, i)'
    BY <1>1, <2>2, CurrentStays
  <2>4. QED BY <2>1, <2>3 DEF Current
<1>4. QED BY <1>3 DEF Fresh

LEMMA TickCurrent ==
  ASSUME TypeOK, Fresh, Tick
  PROVE  Fresh'
<1>1. ASSUME NEW n \in Nodes, NEW h \in Names, Hit(n, h)'
      PROVE  Current(h, cached[n][h])'
  <2>1. Hit(n, h) /\ cached'[n][h] = cached[n][h]
    BY <1>1 DEF Tick, Hit, Remaining, TypeOK
  <2>2. PICK i : i = cached[n][h]
    OBVIOUS
  <2>3. Current(h, i)
    BY <2>1, <2>2 DEF Fresh
  <2>4. Current(h, i)'
    BY <2>3, CurrentStays DEF Tick, row
  <2>5. QED BY <2>1, <2>2, <2>4 DEF Current
<1>2. QED BY <1>1 DEF Fresh

\* An empty cache is current.
LEMMA EmptyCurrent ==
  ASSUME OneProcess, NEW n \in Nodes,
         ttl' = [ttl EXCEPT ![n] = [h \in Names |-> 0]], TypeOK
  PROVE  Fresh'
BY DEF OneProcess, Fresh, Hit, TypeOK

\* A SELECT answers what the table says.
LEMMA ResolveCurrent ==
  ASSUME TypeOK, NEW r \in Requests, NEW h \in Names, Resolve(r, h)
  PROVE  host'[r] \in Names /\ Current(host[r], target[r])'
<1>1. PICK i \in Ids \cup {NoId} :
        /\ IF Live(Normal[h]) = {} THEN i = NoId ELSE i \in Live(Normal[h])
        /\ Works(r, i, Normal[h], NoOwner)
  BY DEF Resolve
<1>2. host'[r] = Normal[h] /\ target'[r] = i /\ Normal[h] \in Names
  BY <1>1 DEF Works, TypeOK
<1>3. Current(Normal[h], i)
  <2>1. \A j \in Live(Normal[h]) : j \in Ids /\ Kept(j)
    BY DEF Live, Kept, Registered
  <2>2. QED BY <1>1, <2>1 DEF Current
<1>4. UNCHANGED <<name, ver, status>>
  BY DEF Resolve, row
<1>5. Current(Normal[h], i)'
  BY <1>3, <1>4, CurrentStays
<1>6. QED BY <1>2, <1>5 DEF Current

\* FillInv is kept while requests come one at a time.
LEMMA FillNext ==
  ASSUME TypeOK, FillInv, Serial, Serial', [Next]_vars
  PROVE  FillInv'
<1>1. ASSUME NEW q \in Requests, Start(q) \/ Step(q) \/ Abort(q)
      PROVE  FillInv'
  <2>1. \A r \in Requests : r # q => ~At(r, "fill")'
    BY <1>1, OthersRest
  <2>2. At(q, "fill")' => \E h \in Names : Resolve(q, h)
    BY <1>1 DEF TypeOK, Start, AddCheck, Suspend, UnsuspendRead, AdminDelete,
       DeleteOwned, Delete, VerifyOwned, RetrySweep, Step, Abort, AddLimit,
       AddInsert, VerifyRead, VerifyLookup, VerifyFail, VerifySucceed,
       UnsuspendWrite, Invalidate, Fill, Finish, Goto
  <2>3. At(q, "fill")' => host'[q] \in Names /\ Current(host[q], target[q])'
    BY <2>2, ResolveCurrent
  <2>4. QED BY <2>1, <2>3 DEF FillInv
<1>2. ASSUME UNCHANGED <<name, ver, status>> \/ Cleanup,
             NEW r \in Requests, At(r, "fill"), UNCHANGED <<host, target>>
      PROVE  host'[r] \in Names /\ Current(host[r], target[r])'
  <2>1. /\ host[r] \in Names /\ target[r] \in Ids \cup {NoId}
        /\ Current(host[r], target[r])
    BY <1>2 DEF FillInv, TypeOK
  <2>2. PICK h \in Names, i \in Ids \cup {NoId} : h = host[r] /\ i = target[r]
    BY <2>1
  <2>3. Current(h, i)
    BY <2>1, <2>2
  <2>4. Current(h, i)'
    BY <1>2, <2>3, CurrentStays, CleanupCurrent
  <2>5. host'[r] = h /\ target'[r] = i
    BY <1>2, <2>2
  <2>6. QED BY <2>4, <2>5 DEF Current
<1>3. CASE Cleanup \/ Tick \/ UNCHANGED vars
  <2>1. UNCHANGED <<pc, host, target>>
    BY <1>3 DEF Cleanup, Tick, vars, request
  <2>2. UNCHANGED <<name, ver, status>> \/ Cleanup
    BY <1>3 DEF Tick, vars, row
  <2>3. QED BY <1>2, <2>1, <2>2 DEF FillInv
<1>4. ASSUME NEW n \in Nodes, Restart(n) PROVE FillInv'
  <2>1. UNCHANGED <<name, ver, status>>
    BY <1>4 DEF Restart, row
  <2>2. ASSUME NEW r \in Requests, At(r, "fill")'
        PROVE  host'[r] \in Names /\ Current(host[r], target[r])'
    <3>1. At(r, "fill") /\ host'[r] = host[r] /\ target'[r] = target[r]
      BY <1>4, <2>2 DEF Restart
    <3>2. host[r] \in Names /\ Current(host[r], target[r])
      BY <3>1 DEF FillInv
    <3>3. PICK h, i : h = host[r] /\ i = target[r]
      OBVIOUS
    <3>4. Current(h, i)'
      BY <2>1, <3>2, <3>3, CurrentStays
    <3>5. QED BY <3>1, <3>2, <3>3, <3>4 DEF Current
  <2>3. QED BY <2>2 DEF FillInv
<1>5. QED BY <1>1, <1>3, <1>4 DEF Next

\* CacheInv is kept while requests come one at a time, in one process.
LEMMA CacheNext ==
  ASSUME OneProcess, TypeOK, Issued, CacheInv, FillInv, Serial, Serial',
         [Next]_vars
  PROVE  CacheInv'
<1>1. ASSUME NEW q \in Requests, Start(q) \/ Step(q) \/ Abort(q),
             ~At(q, "invalidate")
      PROVE  Fresh
  <2>1. \A r \in Requests : r # q => At(r, "idle")
    BY <1>1, OthersRest
  <2>2. QED BY <1>1, <2>1 DEF CacheInv
<1>2. ASSUME NEW r \in Requests,
             \/ AddLimit(r) \/ AddInsert(r) \/ RetrySweep(r) \/ VerifyRead(r)
             \/ VerifyLookup(r) \/ VerifyFail(r) \/ Abort(r)
             \/ \E h \in Names : Resolve(r, h) \/ \E o \in Owners : AddCheck(r, h, o)
             \/ \E j \in Ids : \/ UnsuspendRead(r, j)
                               \/ \E o \in Owners : VerifyOwned(r, j, o)
      PROVE  CacheInv'
  <2>1. ~At(r, "invalidate") /\ (Start(r) \/ Step(r) \/ Abort(r))
    BY <1>2 DEF AddLimit, AddInsert, RetrySweep, VerifyRead, VerifyLookup,
       VerifyFail, Abort, Resolve, AddCheck, UnsuspendRead, VerifyOwned, Start,
       Step
  <2>2. QED BY <1>1, <1>2, <2>1, QuietSteps DEF CacheInv
<1>3. ASSUME NEW r \in Requests,
             \/ VerifySucceed(r) \/ UnsuspendWrite(r)
             \/ \E i \in Ids : Suspend(r, i) \/ Delete(r, i)
      PROVE  CacheInv'
  BY <1>3, LoudSteps DEF CacheInv
<1>4. ASSUME NEW r \in Requests, Fill(r) PROVE CacheInv'
  <2>1. ~At(r, "invalidate") /\ Step(r)
    BY <1>4 DEF Fill, Step
  <2>2. QED BY <1>1, <1>4, <2>1, FillCurrent DEF CacheInv
<1>5. ASSUME NEW r \in Requests, Invalidate(r) PROVE CacheInv'
  BY <1>5, EmptyCurrent DEF Invalidate, CacheInv
<1>6. ASSUME NEW n \in Nodes, Restart(n) PROVE CacheInv'
  BY <1>6, EmptyCurrent DEF Restart, CacheInv
<1>7. CASE Cleanup
  <2>1. UNCHANGED <<pc, cached, ttl>>
    BY <1>7 DEF Cleanup, cache, request
  <2>2. CASE Fresh
    BY <1>7, <2>1, <2>2, CleanupCurrent, KeepsCurrent DEF CacheInv
  <2>3. CASE \E r \in Requests : At(r, "invalidate")
    BY <2>1, <2>3 DEF CacheInv
  <2>4. QED BY <2>2, <2>3 DEF CacheInv
<1>8. CASE Tick
  BY <1>8, TickCurrent DEF CacheInv, Tick, request
<1>9. CASE UNCHANGED vars
  <2>1. UNCHANGED <<pc, cached, ttl, name, ver, status>>
    BY <1>9 DEF vars, row, request, cache
  <2>2. QED BY <2>1 DEF CacheInv, Fresh, Hit, Current, Kept, Lapsed, Live, LiveRow, Registered
<1>10. QED
  BY <1>2, <1>3, <1>4, <1>5, <1>6, <1>7, <1>8, <1>9
     DEF Next, Start, Step, AdminDelete, DeleteOwned

\* While requests come one at a time, in one process, a change takes effect
\* at once, whenever the cleanup runs, an entry expires or the process starts
\* again: when the request is answered, what is served is verified and active,
\* or active and has only failed a verification since, and no domain that is
\* verified and active is denied.
THEOREM TakesEffectAtOnce ==
  ASSUME OneProcess
  PROVE  Spec => SerialChangesAtOnce
<1>1. Init => AtOnceInv
  <2>1. ASSUME Init PROVE Issued /\ CacheInv /\ FillInv
    BY <2>1 DEF Init, Issued, CacheInv, Fresh, Hit, FillInv
  <2>2. QED BY <2>1, InitTypes DEF AtOnceInv
<1>2. AtOnceInv /\ Serial /\ Serial' /\ [Next]_vars => AtOnceInv'
  BY CacheNext, FillNext, IssuedNext, NextTypes DEF AtOnceInv
<1>3. AtOnceInv => ChangesAtOnce
  <2> SUFFICES ASSUME AtOnceInv, Quiet PROVE Fresh
    BY DEF ChangesAtOnce, StopsAtOnce, ServedAtOnce, Fresh, Current, Kept
  <2> QED BY DEF AtOnceInv, CacheInv, Quiet
<1>4. QED BY <1>1, <1>2, <1>3, PTL DEF Spec, SerialChangesAtOnce

-----------------------------------------------------------------------------
(* Limits *)

\* What AddDomain counted is still right when it inserts.
Counted == \A r \in Requests : At(r, "insert") => MayOwnMore(who[r])

LimitInv == TypeOK /\ Counted /\ OwnerLimit

\* A set with one element more at most.
LEMMA OneMore ==
  ASSUME NEW S, IsFiniteSet(S), NEW x, NEW T, T \subseteq S \cup {x}
  PROVE  Cardinality(T) <= Cardinality(S) + 1
<1>1. Cardinality(S) \in Nat
  BY FS_CardinalityType
<1>2. IsFiniteSet(S \cup {x})
  BY FS_AddElement
<1>3. CASE x \in S
  <2>1. S \cup {x} = S
    BY <1>3
  <2>2. T \in SUBSET S
    BY <2>1
  <2>3. IsFiniteSet(T) /\ Cardinality(T) <= Cardinality(S)
    BY <2>2, FS_Subset
  <2>4. Cardinality(T) \in Nat
    BY <2>3, FS_CardinalityType
  <2>5. QED BY <1>1, <2>3, <2>4
<1>4. CASE x \notin S
  <2>1. Cardinality(S \cup {x}) = Cardinality(S) + 1
    BY <1>4, FS_AddElement
  <2>2. IsFiniteSet(T) /\ Cardinality(T) <= Cardinality(S \cup {x})
    BY <1>2, FS_Subset
  <2>3. QED BY <2>1, <2>2
<1>5. QED BY <1>3, <1>4

\* The domains of an owner can be counted.
LEMMA OwnedFinite ==
  \A o : /\ IsFiniteSet(Owned(o)) /\ Cardinality(Owned(o)) \in Nat
         /\ IsFiniteSet(Owned(o)') /\ Cardinality(Owned(o)') \in Nat
<1>1. IsFiniteSet(Ids)
  BY FS_Interval
<1>2. \A o : Owned(o) \subseteq Ids /\ Owned(o)' \subseteq Ids
  BY DEF Owned
<1>3. QED BY <1>1, <1>2, FS_Subset, FS_CardinalityType

\* A step other than an INSERT gives nobody a domain.
LEMMA OnlyInsertOwns ==
  ASSUME TypeOK, [Next]_vars
  PROVE  \/ \A o : Owned(o)' \subseteq Owned(o)
         \/ \E r \in Requests : AddInsert(r) /\ Insertable(host[r])
<1>1. ASSUME NEW r \in Requests, AddInsert(r)
      PROVE  Insertable(host[r]) \/ UNCHANGED owner
  BY <1>1 DEF AddInsert, row
<1>2. ASSUME NEW r \in Requests, NEW i \in Ids, Delete(r, i)
      PROVE  UNCHANGED owner
  BY <1>2 DEF Delete, Remove
<1>3. Cleanup => UNCHANGED owner
  BY DEF Cleanup, Remove
<1>4. ASSUME NEW r \in Requests, Start(r)
      PROVE  UNCHANGED owner \/ \E i \in Ids : Delete(r, i)
  BY <1>4 DEF Start, row, AddCheck, VerifyOwned, RetrySweep, Suspend,
              UnsuspendRead, AdminDelete, DeleteOwned, Resolve
<1>5. ASSUME NEW r \in Requests, Step(r)
      PROVE  UNCHANGED owner \/ AddInsert(r)
  BY <1>5 DEF Step, row, AddLimit, VerifyRead, VerifyLookup, VerifyFail,
              VerifySucceed, Invalidate, UnsuspendWrite, Fill
<1>6. ASSUME \/ UNCHANGED vars \/ Tick \/ \E n \in Nodes : Restart(n)
             \/ \E r \in Requests : Abort(r)
      PROVE  UNCHANGED owner
  BY <1>6 DEF vars, row, Restart, Tick, Abort
<1>7. UNCHANGED owner \/ \E r \in Requests : AddInsert(r) /\ Insertable(host[r])
  BY <1>1, <1>2, <1>3, <1>4, <1>5, <1>6 DEF Next
<1>8. ASSUME UNCHANGED owner,
             \A r \in Requests : ~(AddInsert(r) /\ Insertable(host[r]))
      PROVE  \A o : Owned(o)' \subseteq Owned(o)
  <2>1. \A i \in Ids : Row(i)' => Row(i)
    BY <1>8, OnlyInsertAdds
  <2>2. QED BY <1>8, <2>1 DEF Owned
<1>9. QED BY <1>7, <1>8

\* An INSERT gives its owner one domain and leaves the others theirs.
LEMMA InsertOwns ==
  ASSUME TypeOK, NEW r \in Requests, AddInsert(r), Insertable(host[r]), NEW o
  PROVE  /\ o = who[r] => Owned(o)' \subseteq Owned(o) \cup {nextId}
         /\ o # who[r] => Owned(o)' \subseteq Owned(o)
<1>1. nextId \in Ids
  BY DEF Insertable, TypeOK
<1>2. /\ owner'[nextId] = who[r]
      /\ \A i \in Ids : i # nextId => owner'[i] = owner[i] /\ status'[i] = status[i]
  BY <1>1 DEF AddInsert, TypeOK
<1>3. QED BY <1>1, <1>2 DEF Owned

\* Whoever owns no more than before may own as many.
LEMMA FewerOwned ==
  ASSUME NEW o, Owned(o)' \subseteq Owned(o)
  PROVE  /\ Cardinality(Owned(o)') <= Cardinality(Owned(o))
         /\ MayOwnMore(o) => MayOwnMore(o)'
<1>1. Cardinality(Owned(o)') <= Cardinality(Owned(o))
  BY OwnedFinite, FS_Subset
<1>2. QED BY <1>1, OwnedFinite DEF MayOwnMore

\* The limit is kept while requests come one at a time.
LEMMA LimitNext == LimitInv /\ Serial /\ Serial' /\ [Next]_vars => LimitInv'
<1> SUFFICES ASSUME LimitInv, Serial, Serial', [Next]_vars PROVE LimitInv'
  OBVIOUS
<1>1. TypeOK /\ TypeOK' /\ Counted /\ OwnerLimit
  BY NextTypes DEF LimitInv
<1>2. ASSUME \A o : Owned(o)' \subseteq Owned(o) PROVE OwnerLimit'
  <2>1. ASSUME Limit > 0, NEW o \in Owners PROVE Cardinality(Owned(o)') <= Limit
    <3>1. Cardinality(Owned(o)) <= Limit
      BY <1>1, <2>1 DEF OwnerLimit
    <3>2. Cardinality(Owned(o)') <= Cardinality(Owned(o))
      BY <1>2, FewerOwned
    <3>3. QED BY <3>1, <3>2, OwnedFinite
  <2>2. QED BY <2>1 DEF OwnerLimit
<1>3. ASSUME NEW r \in Requests, AddInsert(r), Insertable(host[r])
      PROVE  OwnerLimit'
  <2>1. ASSUME Limit > 0, NEW o \in Owners PROVE Cardinality(Owned(o)') <= Limit
    <3>1. CASE o = who[r]
      <4>1. Cardinality(Owned(o)) < Limit
        BY <1>1, <1>3, <2>1, <3>1 DEF AddInsert, Counted, MayOwnMore
      <4>2. Owned(o)' \subseteq Owned(o) \cup {nextId}
        BY <1>1, <1>3, <3>1, InsertOwns
      <4>3. Cardinality(Owned(o)') <= Cardinality(Owned(o)) + 1
        BY <4>2, OwnedFinite, OneMore
      <4>4. QED BY <4>1, <4>3, OwnedFinite
    <3>2. CASE o # who[r]
      <4>1. Cardinality(Owned(o)) <= Limit
        BY <1>1, <2>1 DEF OwnerLimit
      <4>2. Cardinality(Owned(o)') <= Cardinality(Owned(o))
        BY <1>1, <1>3, <3>2, InsertOwns, FewerOwned
      <4>3. QED BY <4>1, <4>2, OwnedFinite
    <3>3. QED BY <3>1, <3>2
  <2>2. QED BY <2>1 DEF OwnerLimit
<1>4. OwnerLimit'
  BY <1>1, <1>2, <1>3, OnlyInsertOwns
<1>5. ASSUME NEW q \in Requests, Start(q) \/ Step(q) \/ Abort(q)
      PROVE  Counted'
  <2>1. \A r \in Requests : r # q => ~At(r, "insert")'
    BY <1>1, <1>5, OthersRest
  <2>2. ASSUME At(q, "insert")' PROVE MayOwnMore(who[q])'
    <3>1. AddLimit(q)
      BY <1>1, <1>5, <2>2 DEF TypeOK, Start, Resolve, AddCheck, Suspend,
         UnsuspendRead, AdminDelete, DeleteOwned, Delete, VerifyOwned,
         RetrySweep, Step, Abort, AddInsert, VerifyRead, VerifyLookup,
         VerifyFail, VerifySucceed, UnsuspendWrite, Invalidate, Fill, Finish,
         Goto
    <3>2. MayOwnMore(who[q]) /\ who' = who
      BY <1>1, <2>2, <3>1 DEF AddLimit, Finish, Goto, TypeOK
    <3>3. UNCHANGED <<status, owner>>
      BY <3>1 DEF AddLimit, row
    <3>4. QED BY <3>2, <3>3 DEF MayOwnMore, Owned
  <2>3. QED BY <2>1, <2>2 DEF Counted
<1>6. ASSUME Cleanup \/ Tick \/ UNCHANGED vars \/ \E n \in Nodes : Restart(n)
      PROVE  Counted'
  <2>1. \A r \in Requests : At(r, "insert")' => At(r, "insert") /\ who'[r] = who[r]
    BY <1>6 DEF Cleanup, Tick, vars, request, Restart
  <2>2. ASSUME NEW r \in Requests, AddInsert(r), Insertable(host[r]) PROVE FALSE
    <3>1. nextId' = nextId + 1 /\ nextId \in Int
      BY <1>1, <2>2 DEF AddInsert, TypeOK
    <3>2. nextId' = nextId
      BY <1>6 DEF Cleanup, Remove, Tick, vars, row, Restart
    <3>3. QED BY <3>1, <3>2
  <2>3. \A o : Owned(o)' \subseteq Owned(o)
    BY <1>1, <2>2, OnlyInsertOwns
  <2>4. \A o : MayOwnMore(o) => MayOwnMore(o)'
    BY <2>3, FewerOwned
  <2>5. ASSUME NEW r \in Requests, At(r, "insert")' PROVE MayOwnMore(who[r])'
    <3>1. PICK o : o = who[r]
      OBVIOUS
    <3>2. At(r, "insert") /\ who'[r] = o
      BY <2>1, <2>5, <3>1
    <3>3. MayOwnMore(who[r])
      BY <1>1, <3>2 DEF Counted
    <3>4. MayOwnMore(o)'
      BY <2>4, <3>1, <3>3
    <3>5. QED BY <3>2, <3>4 DEF MayOwnMore, Owned
  <2>6. QED BY <2>5 DEF Counted
<1>7. Counted'
  BY <1>5, <1>6 DEF Next
<1>8. QED BY <1>1, <1>4, <1>7 DEF LimitInv

\* While requests come one at a time no owner has more domains than the
\* limit: what AddDomain counted is still right when it inserts.
THEOREM SerialLimits == Spec /\ []Serial => []OwnerLimit
<1>1. ASSUME Init PROVE LimitInv
  <2>1. \A o : Owned(o) = {}
    BY <1>1 DEF Init, Owned
  <2>2. \A o : Cardinality(Owned(o)) = 0
    BY <2>1, FS_EmptySet
  <2>3. Counted /\ OwnerLimit
    BY <1>1, <2>2 DEF Init, Counted, OwnerLimit
  <2>4. QED BY <1>1, <2>3, InitTypes DEF LimitInv
<1>2. LimitInv => OwnerLimit
  BY DEF LimitInv
<1>3. QED BY <1>1, <1>2, LimitNext, PTL DEF Spec
=============================================================================
