---------------------------- MODULE ClusterTask ------------------------------
(***************************************************************************)
(* What "global (one node in cluster mode)" promises of one cluster        *)
(* (scheduler.go:51): at any time at most one node executes a global task, *)
(* and a node begins only when no other is at it.  How nodes agree, lose   *)
(* their locks or fail is left to the implementation, Scheduler.           *)
(***************************************************************************)
CONSTANTS Nodes, Global

VARIABLE executors      \* executors[t]: the nodes executing t now

Init == executors = [t \in Global |-> {}]

Begin(n, t) ==
  /\ executors[t] = {}
  /\ executors' = [executors EXCEPT ![t] = {n}]

End(n, t) ==
  /\ n \in executors[t]
  /\ executors' = [executors EXCEPT ![t] = @ \ {n}]

\* A process that dies stops executing everything at once.
Die(n) ==
  executors' = [t \in Global |-> executors[t] \ {n}]

Next == \E n \in Nodes : Die(n) \/ \E t \in Global : Begin(n, t) \/ End(n, t)

Spec == Init /\ [][Next]_executors
=============================================================================
