--------------------------- MODULE MCCustomDomains ---------------------------
(* Small instances of CustomDomains for TLC. *)
EXTENDS CustomDomainsProps

CONSTANTS n1, n2, r1, r2, h1, h2, H1, o1, o2

\* Every request in the process n1, and one request in each of two processes.
MCOneNode  == [r \in Requests |-> n1]
MCTwoNodes == [r \in Requests |-> IF r = r1 THEN n1 ELSE n2]

\* H1 is h1 in capitals.
MCNormal == [h \in Names |-> IF h = H1 THEN h1 ELSE h]
=============================================================================
