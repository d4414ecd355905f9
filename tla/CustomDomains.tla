---------------------------- MODULE CustomDomains ----------------------------
(***************************************************************************)
(* DomainService of src/server/service/domain.go: the custom_domains table *)
(* all nodes share, the resolve cache each process keeps in memory, and    *)
(* the requests (and verify sweeps) that run concurrently on them.  Every  *)
(* SQL statement is one step; a method of several statements, a DNS lookup *)
(* or a cache access in between is several steps.                          *)
(*                                                                         *)
(* A row is identified by its id, which AUTOINCREMENT never reuses.  The   *)
(* verification token of a row is random and never changes, so the id      *)
(* stands for it.  DNS is outside: a lookup may answer any set of tokens.  *)
(***************************************************************************)
EXTENDS Integers, FiniteSets

CONSTANTS
  Nodes,            \* server processes
  Requests,         \* concurrent HTTP requests and scheduled sweeps
  NodeOf,           \* NodeOf[r]: the process request r runs in
  Names,            \* spellings of host names
  Normal,           \* normalizeResolveHost: lower case, no port, no final dot
  Reserved,         \* the names reserved or blocked by configuration
  Owners,           \* users and organizations
  NoName, NoOwner,
  MaxId,            \* bound on the rows ever inserted
  Limit,            \* domains per owner, 0 is unlimited
  CacheTTL,         \* domainResolveCacheTTL
  VerificationTTL,  \* verification_ttl
  Restarts,         \* whether a process may die and start again
  Retries           \* whether the scheduled verify-retry task runs

Ids  == 1..MaxId
NoId == 0

ASSUME DomainsAssumption ==
  /\ MaxId \in Nat /\ Limit \in Nat
  /\ CacheTTL \in Nat \ {0} /\ VerificationTTL \in Nat
  /\ NodeOf \in [Requests -> Nodes]
  /\ Normal \in [Names -> Names]
  /\ \A h \in Names : Normal[Normal[h]] = Normal[h]
  /\ NoName \notin Names /\ NoOwner \notin Owners
  /\ {Restarts, Retries} \subseteq BOOLEAN

VARIABLES
  nextId,   \* the id the next INSERT gets
  name,     \* name[i]: domain, and
  owner,    \* owner[i]: owner_type and owner_id of row i, both immutable
  ver,      \* ver[i]: verification_status, "none" when there is no row i
  status,   \* status[i]: status, "none" when there is no row i
  dated,    \* the rows with a verified_at
  age,      \* age[i]: time since created_at
  cached,   \* cached[n][h]: the id resolveCache holds, NoId for a negative
  ttl,      \* ttl[n][h]: what is left until the entry expires, 0 is no entry
  pc,       \* pc[r]: the next step of request r
  target,   \* target[r]: the row id it works on
  host,     \* host[r]: the host name it works on
  who,      \* who[r]: the owner it works for
  batch,    \* batch[r]: ids it has still to verify
  proved    \* history: the rows whose token DNS once showed at their name

row     == <<nextId, name, owner, ver, status, dated>>
cache   == <<cached, ttl>>
request == <<pc, target, host, who, batch>>
vars    == <<row, age, cache, request, proved>>

Verification == {"pending", "verified", "failed"}
Steps == {"idle", "limit", "insert", "read", "lookup", "fail", "succeed",
          "fill", "activate", "repend", "invalidate"}

TypeOK ==
  /\ nextId \in 1..(MaxId + 1)
  /\ name \in [Ids -> Names \cup {NoName}]
  /\ owner \in [Ids -> Owners \cup {NoOwner}]
  /\ ver \in [Ids -> Verification \cup {"none"}]
  /\ status \in [Ids -> {"pending", "active", "suspended", "none"}]
  /\ dated \subseteq Ids
  /\ age \in [Ids -> 0..(VerificationTTL + 1)]
  /\ cached \in [Nodes -> [Names -> Ids \cup {NoId}]]
  /\ ttl \in [Nodes -> [Names -> 0..CacheTTL]]
  /\ pc \in [Requests -> Steps]
  /\ target \in [Requests -> Ids \cup {NoId}]
  /\ host \in [Requests -> Names \cup {NoName}]
  /\ who \in [Requests -> Owners \cup {NoOwner}]
  /\ batch \in [Requests -> SUBSET Ids]
  /\ proved \subseteq Ids

Row(i)      == status[i] # "none"
Registered(h) == {i \in Ids : Row(i) /\ name[i] = h}
Owned(o)    == {i \in Ids : Row(i) /\ owner[i] = o}
\* The condition of Resolve's SELECT.
LiveRow(i)  == status[i] = "active" /\ ver[i] = "verified"
Live_AnyRow(h) == Registered(h)
Live(h) == {i \in Registered(h) : LiveRow(i)}
Hit(n, h)   == ttl[n][h] > 0

Init ==
  /\ nextId = 1
  /\ name = [i \in Ids |-> NoName]
  /\ owner = [i \in Ids |-> NoOwner]
  /\ ver = [i \in Ids |-> "none"]
  /\ status = [i \in Ids |-> "none"]
  /\ dated = {}
  /\ age = [i \in Ids |-> 0]
  /\ cached = [n \in Nodes |-> [h \in Names |-> NoId]]
  /\ ttl = [n \in Nodes |-> [h \in Names |-> 0]]
  /\ pc = [r \in Requests |-> "idle"]
  /\ target = [r \in Requests |-> NoId]
  /\ host = [r \in Requests |-> NoName]
  /\ who = [r \in Requests |-> NoOwner]
  /\ batch = [r \in Requests |-> {}]
  /\ proved = {}

-----------------------------------------------------------------------------
(* Requests *)

At(r, step) == pc[r] = step
Goto(r, step) == pc' = [pc EXCEPT ![r] = step]

\* Request r works on row i, for host h and owner o, until it is answered.
Works(r, i, h, o) ==
  /\ target' = [target EXCEPT ![r] = i]
  /\ host' = [host EXCEPT ![r] = h]
  /\ who' = [who EXCEPT ![r] = o]

\* One VerifyDomain or another method ended: go on with the batch, or answer.
Finish(r) ==
  /\ Goto(r, IF batch[r] = {} THEN "idle" ELSE "read")
  /\ Works(r, NoId, NoName, NoOwner)
  /\ UNCHANGED batch

-----------------------------------------------------------------------------
(* AddDomain *)

Unregistered(h) == Registered(h) = {}

\* The policy checks and SELECT COUNT of the name.  No handler normalizes the
\* name it was given: it is compared and stored as it was spelled.
AddCheck(r, h, o) ==
  /\ At(r, "idle")
  /\ h \notin Reserved
  /\ Unregistered(h)
  /\ nextId <= MaxId
  /\ Goto(r, "limit")
  /\ Works(r, NoId, h, o)
  /\ UNCHANGED <<row, age, cache, batch, proved>>

MayOwnMore(o) == Limit = 0 \/ Cardinality(Owned(o)) < Limit

\* SELECT COUNT of the owner's domains.
AddLimit(r) ==
  /\ At(r, "limit")
  /\ IF MayOwnMore(who[r])
       THEN Goto(r, "insert") /\ UNCHANGED <<target, host, who, batch>>
       ELSE Finish(r)
  /\ UNCHANGED <<row, age, cache, proved>>

\* domain is UNIQUE; MaxId is the bound of the model.
Insertable(h) == Unregistered(h) /\ nextId <= MaxId

\* INSERT OR REPLACE: the row in the way is removed.
AddInsert_Replace(r) ==
  /\ At(r, "insert") /\ nextId <= MaxId
  /\ nextId' = nextId + 1
  /\ name' = [name EXCEPT ![nextId] = host[r]]
  /\ owner' = [owner EXCEPT ![nextId] = who[r]]
  /\ ver' = [i \in Ids |-> IF i \in Registered(host[r]) THEN "none"
                           ELSE IF i = nextId THEN "pending" ELSE ver[i]]
  /\ status' = [i \in Ids |-> IF i \in Registered(host[r]) THEN "none"
                              ELSE IF i = nextId THEN "pending" ELSE status[i]]
  /\ Finish(r)
  /\ UNCHANGED <<dated, age, cache, proved>>

\* The INSERT, refused when a row with the name appeared in the meantime.
AddInsert(r) ==
  /\ At(r, "insert")
  /\ IF Insertable(host[r])
       THEN /\ nextId' = nextId + 1
            /\ name' = [name EXCEPT ![nextId] = host[r]]
            /\ owner' = [owner EXCEPT ![nextId] = who[r]]
            /\ ver' = [ver EXCEPT ![nextId] = "pending"]
            /\ status' = [status EXCEPT ![nextId] = "pending"]
            /\ UNCHANGED dated
       ELSE UNCHANGED row
  /\ Finish(r)
  /\ UNCHANGED <<age, cache, proved>>

-----------------------------------------------------------------------------
(* VerifyDomain and the scheduled retries *)

\* VerifyUserDomain, VerifyOrgDomain: the caller's own domain.
VerifyOwned(r, i, o) ==
  /\ At(r, "idle")
  /\ Row(i) /\ owner[i] = o
  /\ batch' = [batch EXCEPT ![r] = {i}]
  /\ Goto(r, "read")
  /\ UNCHANGED <<row, age, cache, target, host, who, proved>>

Retryable == {i \in Ids : /\ status[i] \notin {"active", "none"}
                          /\ ver[i] # "verified"
                          /\ age[i] <= VerificationTTL}

\* RetryPendingVerifications collects the ids before it verifies any.
RetrySweep(r) ==
  /\ Retries
  /\ At(r, "idle")
  /\ Retryable # {}
  /\ batch' = [batch EXCEPT ![r] = Retryable]
  /\ Goto(r, "read")
  /\ UNCHANGED <<row, age, cache, target, host, who, proved>>

\* getDomainByID and the token.  When the row is gone or the statement fails
\* the sweep goes on with the next id (they are in order).
VerifyRead(r) ==
  /\ At(r, "read")
  /\ \E i \in batch[r] :
       /\ \A j \in batch[r] : i <= j
       /\ batch' = [batch EXCEPT ![r] = @ \ {i}]
       /\ \/ Row(i) /\ Goto(r, "lookup") /\ Works(r, i, name[i], owner[i])
          \/ /\ Goto(r, IF batch[r] = {i} THEN "idle" ELSE "read")
             /\ UNCHANGED <<target, host, who>>
  /\ UNCHANGED <<row, age, cache, proved>>

\* The comparison of the TXT values with the token of row i.
Matches(answer, i) == i \in answer

\* LookupTXT of _verify.<host>: it fails or answers some issued tokens.  DNS
\* does not tell spellings of a name apart.
VerifyLookup(r) ==
  /\ At(r, "lookup")
  /\ \/ Goto(r, "fail") /\ UNCHANGED proved
     \/ \E answer \in SUBSET {i \in Ids : i < nextId} :
          /\ Goto(r, IF Matches(answer, target[r]) THEN "succeed" ELSE "fail")
          /\ proved' = proved \cup {i \in answer :
                                   Normal[name[i]] = Normal[host[r]]}
  /\ UNCHANGED <<row, age, cache, target, host, who, batch>>

\* markFailed: only the verification status, whatever the status of the row.
VerifyFail(r) ==
  /\ At(r, "fail")
  /\ ver' = IF Row(target[r]) THEN [ver EXCEPT ![target[r]] = "failed"] ELSE ver
  /\ Finish(r)
  /\ UNCHANGED <<nextId, name, owner, status, dated, age, cache, proved>>

\* The rows the UPDATE of a successful verification hits: WHERE id = ?
Verifies_ByName(r) == Registered(host[r])
Verifies(r) == {i \in Ids : i = target[r] /\ Row(i)}

\* The UPDATE succeeds even when it hits no row; VerifyDomain then answers
\* success all the same.
VerifySucceed(r) ==
  /\ At(r, "succeed")
  /\ ver' = [i \in Ids |-> IF i \in Verifies(r) THEN "verified" ELSE ver[i]]
  /\ status' = [i \in Ids |-> IF i \in Verifies(r) THEN "active" ELSE status[i]]
  /\ dated' = dated \cup Verifies(r)
  /\ Goto(r, "invalidate")
  /\ UNCHANGED <<nextId, name, owner, age, cache, target, host, who, batch,
                 proved>>

\* invalidateResolveCache, the last thing a method does: this process only.
Invalidate(r) ==
  /\ At(r, "invalidate")
  /\ cached' = [cached EXCEPT ![NodeOf[r]] = [h \in Names |-> NoId]]
  /\ ttl' = [ttl EXCEPT ![NodeOf[r]] = [h \in Names |-> 0]]
  /\ Finish(r)
  /\ UNCHANGED <<row, age, proved>>

-----------------------------------------------------------------------------
(* Administration and removal *)

Suspend_NotInvalidated(r, i) ==
  /\ At(r, "idle")
  /\ Row(i)
  /\ status' = [status EXCEPT ![i] = "suspended"]
  /\ UNCHANGED <<nextId, name, owner, ver, dated, age, cache, request, proved>>

\* SuspendDomain: one UPDATE, then the cache.
Suspend(r, i) ==
  /\ At(r, "idle")
  /\ Row(i)
  /\ status' = [status EXCEPT ![i] = "suspended"]
  /\ Goto(r, "invalidate")
  /\ UNCHANGED <<nextId, name, owner, ver, dated, age, cache, target, host,
                 who, batch, proved>>

\* UnsuspendDomain reads the row and decides ...
UnsuspendRead(r, i) ==
  /\ At(r, "idle")
  /\ Row(i)
  /\ Goto(r, IF ver[i] = "verified" THEN "activate" ELSE "repend")
  /\ target' = [target EXCEPT ![r] = i]
  /\ UNCHANGED <<row, age, cache, host, who, batch, proved>>

\* ... and writes what it decided, whatever the row has become.
UnsuspendWrite_Pending(r) ==
  /\ pc[r] \in {"activate", "repend"}
  /\ status' = IF Row(target[r])
                 THEN [status EXCEPT ![target[r]] = "pending"] ELSE status
  /\ Goto(r, "invalidate")
  /\ UNCHANGED <<nextId, name, owner, ver, dated, age, cache, target, host,
                 who, batch, proved>>

UnsuspendWrite(r) ==
  /\ pc[r] \in {"activate", "repend"}
  /\ status' = IF Row(target[r])
                 THEN [status EXCEPT ![target[r]] =
                         IF At(r, "activate") THEN "active" ELSE "pending"]
                 ELSE status
  /\ Goto(r, "invalidate")
  /\ UNCHANGED <<nextId, name, owner, ver, dated, age, cache, target, host,
                 who, batch, proved>>

\* DELETE of the rows in S (their audit rows go with them).
Remove(S) ==
  /\ ver' = [i \in Ids |-> IF i \in S THEN "none" ELSE ver[i]]
  /\ status' = [i \in Ids |-> IF i \in S THEN "none" ELSE status[i]]
  /\ dated' = dated \ S
  /\ age' = [i \in Ids |-> IF i \in S THEN 0 ELSE age[i]]
  /\ UNCHANGED <<nextId, name, owner>>

Delete(r, i) ==
  /\ At(r, "idle")
  /\ Row(i)
  /\ Remove({i})
  /\ Goto(r, "invalidate")
  /\ UNCHANGED <<cache, target, host, who, batch, proved>>

\* An owner may be deleting the same row at the same time as an administrator:
\* whoever comes second finds no row.
DeleteOwned(r, i, o)  == owner[i] = o /\ Delete(r, i)
AdminDelete(r, i)     == Delete(r, i)

Expired_Never == {}
Expired == {i \in Ids : /\ status[i] \notin {"active", "none"}
                        /\ ver[i] # "verified"
                        /\ age[i] > VerificationTTL}

\* CleanupExpiredPendingVerifications: one DELETE, no cache invalidation.
Cleanup ==
  /\ Expired # {}
  /\ Remove(Expired)
  /\ UNCHANGED <<cache, request, proved>>

-----------------------------------------------------------------------------
(* Resolve *)

\* A miss: the SELECT.  A hit answers from the cache and changes nothing.
Resolve(r, h) ==
  /\ At(r, "idle")
  /\ ~Hit(NodeOf[r], Normal[h])
  /\ \E i \in Ids \cup {NoId} :
       /\ IF Live(Normal[h]) = {} THEN i = NoId ELSE i \in Live(Normal[h])
       /\ Works(r, i, Normal[h], NoOwner)
  /\ Goto(r, "fill")
  /\ UNCHANGED <<row, age, cache, batch, proved>>

\* resolveCacheSet of what the SELECT found.
Fill(r) ==
  /\ At(r, "fill")
  /\ cached' = [cached EXCEPT ![NodeOf[r]] = [@ EXCEPT ![host[r]] = target[r]]]
  /\ ttl' = [ttl EXCEPT ![NodeOf[r]] = [@ EXCEPT ![host[r]] = CacheTTL]]
  /\ Finish(r)
  /\ UNCHANGED <<row, age, proved>>

-----------------------------------------------------------------------------
(* Failures and time *)

\* A statement fails (the client closed the connection, the database is
\* busy): the method returns.  Cache accesses do not fail.
Abort(r) ==
  /\ pc[r] \in {"limit", "insert", "fail", "succeed", "activate", "repend"}
  /\ Finish(r)
  /\ UNCHANGED <<row, age, cache, proved>>

\* A process dies and a new one takes its place, with an empty cache.
Restart(n) ==
  LET Mine == {r \in Requests : NodeOf[r] = n}
      Reset(f, v) == [r \in Requests |-> IF r \in Mine THEN v ELSE f[r]]
  IN
  /\ Restarts
  /\ cached' = [cached EXCEPT ![n] = [h \in Names |-> NoId]]
  /\ ttl' = [ttl EXCEPT ![n] = [h \in Names |-> 0]]
  /\ pc' = Reset(pc, "idle")
  /\ target' = Reset(target, NoId)
  /\ host' = Reset(host, NoName)
  /\ who' = Reset(who, NoOwner)
  /\ batch' = Reset(batch, {})
  /\ UNCHANGED <<row, age, proved>>

Remaining_Forever(n, h) == ttl[n][h]
Remaining_NoFloor(n, h) == ttl[n][h] - 1
Remaining(n, h) == IF ttl[n][h] = 0 THEN 0 ELSE ttl[n][h] - 1

\* One unit passes: entries come closer to their expiry, rows get older.
Tick ==
  /\ ttl' = [n \in Nodes |-> [h \in Names |-> Remaining(n, h)]]
  /\ cached' = [n \in Nodes |->
                 [h \in Names |-> IF Remaining(n, h) = 0 THEN NoId
                                  ELSE cached[n][h]]]
  /\ age' = [i \in Ids |-> IF Row(i) /\ age[i] <= VerificationTTL
                             THEN age[i] + 1 ELSE age[i]]
  /\ UNCHANGED <<row, request, proved>>

\* What a request does on its own once it was started.
Step(r) ==
  \/ AddLimit(r) \/ AddInsert(r)
  \/ VerifyRead(r) \/ VerifyLookup(r) \/ VerifyFail(r) \/ VerifySucceed(r)
  \/ UnsuspendWrite(r)
  \/ Invalidate(r) \/ Fill(r)

Start(r) ==
  \/ \E h \in Names : Resolve(r, h) \/ \E o \in Owners : AddCheck(r, h, o)
  \/ \E i \in Ids : \/ Suspend(r, i) \/ UnsuspendRead(r, i) \/ AdminDelete(r, i)
                    \/ \E o \in Owners : VerifyOwned(r, i, o) \/ DeleteOwned(r, i, o)
  \/ RetrySweep(r)

Next ==
  \/ \E r \in Requests : Start(r) \/ Step(r) \/ Abort(r)
  \/ \E n \in Nodes : Restart(n)
  \/ Cleanup
  \/ Tick

Spec == Init /\ [][Next]_vars

\* Time passes, the cleanup task is scheduled, started requests are executed.
Fairness ==
  /\ WF_vars(Tick)
  /\ WF_vars(Cleanup)
  /\ \A r \in Requests : WF_vars(Step(r))

FairSpec == Spec /\ Fairness
=============================================================================
