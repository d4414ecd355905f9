----------------------------- MODULE DomainClaim -----------------------------
(***************************************************************************)
(* What the custom_domains table promises about one host name, seen from   *)
(* outside: a claim is only made on a free name, begins unproved, is made  *)
(* once, and nothing of it survives its release.  Concurrency, the caches  *)
(* and the verification protocol are left to CustomDomains.                *)
(***************************************************************************)
CONSTANTS Names, Ids

VARIABLES
  claims,   \* claims[h]: the claims on h, one at most
  proven,   \* proven[h]: those of them that are proved
  used      \* the claims that were ever made

Init ==
  /\ claims = [h \in Names |-> {}]
  /\ proven = [h \in Names |-> {}]
  /\ used = {}

Claim(h, i) ==
  /\ claims[h] = {} /\ i \in Ids \ used
  /\ claims' = [claims EXCEPT ![h] = {i}]
  /\ used' = used \cup {i}
  /\ UNCHANGED proven

\* A check of the proof succeeds or fails.
Check(h, ok) ==
  /\ proven' = [proven EXCEPT ![h] = IF ok THEN claims[h] ELSE {}]
  /\ UNCHANGED <<claims, used>>

\* Some names are given up, or expire, together.
Release(H) ==
  /\ claims' = [h \in Names |-> IF h \in H THEN {} ELSE claims[h]]
  /\ proven' = [h \in Names |-> IF h \in H THEN {} ELSE proven[h]]
  /\ UNCHANGED used

Next ==
  \/ \E h \in Names : \/ \E i \in Ids : Claim(h, i)
                      \/ \E ok \in BOOLEAN : Check(h, ok)
  \/ \E H \in SUBSET Names : Release(H)

Spec == Init /\ [][Next]_<<claims, proven, used>>
=============================================================================
