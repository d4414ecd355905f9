--------------------------- MODULE MCServerConfig ----------------------------
(* Small instances of ServerConfig for TLC. *)
EXTENDS ServerConfigProps, TLC

CONSTANTS r1, r2, tool, oidc, n1, n2, secret, k1, k2

\* A new installation, or one with an encrypted provider n1.
MCInstalled ==
  {NoFile} \cup
  {[port |-> DefaultPort, key |-> k,
    auth |-> [t \in Sections |->
      <<[name |-> n1, secret |-> [text |-> secret, under |-> k]]>>]] : k \in Keys}

\* Nothing tells two requests, or two keys, apart.
Symmetry == Permutations(Requests) \cup Permutations(Keys)
=============================================================================
