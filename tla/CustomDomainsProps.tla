-------------------------- MODULE CustomDomainsProps --------------------------
(***************************************************************************)
(* What DomainService owes its callers.  CustomDomainsProofs proves        *)
(* NamesUnique, VerifiedOnlyByProof, ServedOnlyProved and ClaimsKept, and  *)
(* of requests that never overlap OwnerLimit, SerialForgetsNone and        *)
(* SerialChangesAtOnce.                                                    *)
(***************************************************************************)
EXTENDS CustomDomains

Quiet == \A r \in Requests : At(r, "idle")

\* At most one request is under way.
Serial == \A q, r \in Requests : ~At(q, "idle") /\ ~At(r, "idle") => q = r

\* Two AddDomain calls for one name may both pass the COUNT: still no name is
\* ever registered twice.
NamesUnique ==
  \A i, j \in Ids : Row(i) /\ Row(j) /\ name[i] = name[j] => i = j

\* "The domain is marked verified" only after DNS showed the token of this
\* very row at its name, even when the row was deleted and the name added
\* again by someone else while the lookup was under way (VerifyDomain).
VerifiedOnlyByProof ==
  \A i \in Ids : ver[i] = "verified" => i \in proved

\* No process ever serves a host name for an owner who did not prove control
\* of that name, however old the cache entry is (Resolve).
ServedOnlyProved ==
  \A n \in Nodes, h \in Names :
    Hit(n, h) /\ cached[n][h] # NoId
    => cached[n][h] \in proved /\ name[cached[n][h]] = h

\* The claims on a name are its rows, proved while they are verified.
Rows     == [h \in Names |-> Registered(h)]
Verified == [h \in Names |-> {i \in Registered(h) : ver[i] = "verified"}]
Used     == {i \in Ids : i < nextId}

\* The table implements DomainClaim: to the outside AddDomain, VerifyDomain,
\* deletions and the cleanup are single steps on one claim per name.
Claims == INSTANCE DomainClaim WITH claims <- Rows, proven <- Verified, used <- Used

ClaimsKept == Claims!Spec

\* "Enforce per-owner domain limit" (AddDomain): no owner has more domains
\* than the limit.
OwnerLimit ==
  Limit > 0 => \A o \in Owners : Cardinality(Owned(o)) <= Limit

\* A row taken out of Resolve's SELECT by a failed verification only, which
\* markFailed does without a word to the cache.
Lapsed(i) == status[i] = "active" /\ ver[i] = "failed"

\* "The change takes effect immediately" (SuspendDomain), a deleted domain is
\* gone and an unsuspended one pending: once the requests are answered no
\* process serves a domain that Resolve would not select, except one that
\* failed a verification since (see VisibleAtOnce).
StopsAtOnce ==
  Quiet => \A n \in Nodes, h \in Names :
             Hit(n, h) /\ cached[n][h] # NoId
             => LiveRow(cached[n][h]) \/ Lapsed(cached[n][h])

\* "Drop any cached negative resolution so Resolve serves it immediately"
\* (VerifyDomain): once the requests are answered no process denies a domain
\* that is verified and active.
ServedAtOnce ==
  Quiet => \A n \in Nodes, h \in Names :
             Hit(n, h) /\ cached[n][h] = NoId => Live(h) = {}

\* Both, while requests come one at a time, in one process.
ChangesAtOnce == StopsAtOnce /\ ServedAtOnce
SerialChangesAtOnce == []Serial => []ChangesAtOnce

\* "Called after a domain transitions to (or from) verified+active so the
\* change is visible immediately rather than after the TTL"
\* (invalidateResolveCache): once the requests are answered the cache says
\* what Resolve's SELECT would.  A failed verification of an active domain
\* refutes it with one request at a time, in one process.
VisibleAtOnce ==
  Quiet => \A n \in Nodes, h \in Names :
             Hit(n, h) => Live(h) = {cached[n][h]} \ {NoId}

\* A verified and active domain resolves: the normalized Host of a request
\* "matches the stored (already lowercased, FQDN) domain value"
\* (normalizeResolveHost).
ActiveResolves ==
  \A i \in Ids : LiveRow(i) => Live(Normal[name[i]]) # {}

\* "The domain returns to 'active' when its ownership is still verified,
\* otherwise to 'pending'" (UnsuspendDomain): while requests come one at a
\* time, no domain is left verified but pending, where neither the retries nor
\* the cleanup would look at it again.
NoneForgotten ==
  \A i \in Ids : ver[i] = "verified" => status[i] # "pending"
SerialForgetsNone == []Serial => []NoneForgotten

\* "UnsuspendDomain lifts a suspension": nothing else does.
OnlyAdminLifts ==
  [][\A i \in Ids :
       status[i] = "suspended" /\ status'[i] \in {"active", "pending"}
       => \E r \in Requests : pc[r] \in {"activate", "repend"}]_vars

\* "Removes custom domains that never became active"
\* (CleanupExpiredPendingVerifications): a row that disappears without a
\* request was never verified.
CleanupSparesOnceActive ==
  [][\A i \in Ids :
       Row(i) /\ ~Row(i)' /\ UNCHANGED pc => i \notin dated]_vars

\* "On success the domain is marked verified and activated" (VerifyDomain).
SuccessMeansVerified ==
  [][\A r \in Requests :
       At(r, "succeed") /\ At(r, "invalidate")' => LiveRow(target[r])']_vars

\* Whatever races an invalidation lost: when the row a name resolves to does
\* not change any more, every cache entry agrees with it in the end.
CacheConverges ==
  \A n \in Nodes, h \in Names, i \in Ids \cup {NoId} :
    <>[](Live(h) = {i} \ {NoId}) => <>[](Hit(n, h) => cached[n][h] = i)

\* No unverified claim blocks a name for ever: a pending domain is verified,
\* suspended or removed (CleanupExpiredPendingVerifications).
PendingDecided ==
  \A i \in Ids :
    status[i] = "pending" /\ ver[i] # "verified"
    ~> status[i] # "pending" \/ ver[i] = "verified"
=============================================================================
