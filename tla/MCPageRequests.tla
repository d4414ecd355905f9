--------------------------- MODULE MCPageRequests ----------------------------
(* Small instances of PageRequests for TLC. *)
EXTENDS PageRequestsProps, TLC

CONSTANTS t1, t2, phone
=============================================================================
