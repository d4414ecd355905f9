---------------------------- MODULE MCScheduler ------------------------------
(* Instances of Scheduler for TLC: one or two nodes, one task. *)
EXTENDS SchedulerProps

CONSTANTS a, b, global, local

\* Every task is due every second unit: a run may end before or after the
\* next slot, and before or after its lock is stale.
MCPeriod    == [t \in Tasks |-> 2]

\* withRetry: one retry, then giving up; noRetry.
MCRetries   == [t \in Tasks |-> IF t = global THEN 1 ELSE 0]
MCNoRetries == [t \in Tasks |-> 0]
=============================================================================
