---------------------------- MODULE MCShortLinks -----------------------------
(* Small instances of ShortLinks for TLC. *)
EXTENDS ShortLinksProps, TLC

CONSTANTS r1, r2, c1, c2, alice, bob, u1, u2, secret

\* One unit west of Greenwich.
MCWest == -1

\* Nothing tells two requests, or two owners, apart.
Symmetry == Permutations(Requests) \cup Permutations(Owners)
=============================================================================
