--------------------------- MODULE SchedulerProps ----------------------------
(***************************************************************************)
(* What the scheduler owes its callers.  SchedulerProofs proves            *)
(* OneRunPerNode, RunningHasGoroutine, LockExclusion, OneExecutor,         *)
(* LockLostOnlyIf and DueNotLost.                                          *)
(***************************************************************************)
EXTENDS Scheduler

\* The operating rules under which the cluster lock does protect a task: no
\* node starts while a task executes elsewhere, a run ends before its lock is
\* stale, Stop waits for the running tasks, and no Run Now follows it.
Disciplined == ~StartAnytime /\ ~LongRuns /\ ~SlowStop /\ ~LateRuns

\* The ticker and Run Now never execute a task twice at the same time in one
\* process: the running flag is set and cleared around every goroutine
\* (tick, RunNow, the deferred call of runTask).
OneRunPerNode ==
  \A n \in Nodes, t \in Tasks : \A j, k \in Active(n, t) : j = k

\* No task is stuck: the running flag is set exactly while a goroutine will
\* still clear it, whatever path runTask takes.
RunningHasGoroutine ==
  \A n \in Nodes, t \in Tasks : running[n][t] <=> Active(n, t) # {}

\* "global (one node in cluster mode)", scheduler.go:51: under the operating
\* rules at most one node executes a global task at any time.
LockExclusion ==
  Disciplined =>
    \A t \in Global, m, n \in Nodes :
      Executes(m, t) /\ Executes(n, t) => m = n

\* Under the operating rules the scheduler implements ClusterTask: the lock
\* row, the lease time, crashes and restarts are invisible from outside.
Cluster == INSTANCE ClusterTask WITH
             executors <- [t \in Global |-> {n \in Nodes : Executes(n, t)}]

OneExecutor == Cluster!Spec

\* Without any operating rule: the lock of a node that is executing is lost
\* only when it is stale, when a node starts and syncs the row, or when the
\* node's own Stop gives up waiting.  In particular a node that overran its
\* lock never frees the lock of the node that took over (releaseLock).
LockLostOnlyIf ==
  [][\A t \in Global, n \in Nodes :
       Executes(n, t) /\ lock[t].by = n
         /\ Executes(n, t)' /\ lock'[t].by # n
       => \/ lock[t].age > LockTimeout
          \/ phase[n] = "releasing"
          \/ \E m \in Nodes : load[m][t] = "read" /\ load'[m][t] # "read"]_vars

\* When every statement succeeds, a node that executes nothing holds no
\* lock, so no peer waits for a timeout: on every path runTask releases what
\* it acquired.  A node that has not synced the row yet may own the lock its
\* previous process left behind.
IdleHoldsNoLock ==
  Failing = {} =>
    \A n \in Nodes, t \in Global :
      lock[t].by = n /\ load[n][t] = "done" => Executes(n, t)

\* The due time in the table is pushed into the future only by a run that was
\* recorded or because a starting node found it older than the catch-up
\* window: a crash in the middle of a run leaves it due for the next start,
\* and so does a short time down.
DueNotLost ==
  /\ [][\A t \in Tasks :
       t \in rows /\ rowNext[t] <= 0 /\ rowNext'[t] > 0
       => \/ \E n \in Nodes, k \in Slots :
               pc[n][t][k] = "record" /\ pc'[n][t][k] # "record"
          \/ \E n \in Nodes :
               load[n][t] = "missed" /\ load'[n][t] # "missed"]_vars
  /\ [][\A n \in Nodes, t \in Tasks :
         load[n][t] = "read" /\ load'[n][t] = "missed" => nextRun[n][t] < -CatchUp]_vars

\* "They must never be disabled via config or the admin panel" (scheduler.go,
\* nonSkippableTasks): neither a serving node nor the table ever has one off.
NeverDisabled ==
  \A t \in NonSkippable :
    /\ t \in rows => rowEnabled[t]
    /\ \A n \in Nodes : load[n][t] # "todo" => enabled[n][t]

\* A task enabled for good on a node that stays up is executed again and
\* again by some node, whatever the other nodes do: a lock left by a crashed
\* node is taken over once stale.
KeepsRunning ==
  \A n \in Nodes, t \in Tasks :
    <>[](phase[n] = "running" /\ enabled[n][t])
      => []<>(\E m \in Nodes : Executes(m, t))

\* Stop returns even when a job never does, and whatever the ticker and Run
\* Now still start: it waits for 30 s at most.
StopReturns ==
  \A n \in Nodes : phase[n] = "stopping" ~> phase[n] \in {"stopped", "down"}

-----------------------------------------------------------------------------
(* What comments promise and the code does not keep *)

\* scheduler.go:51 "global (one node in cluster mode)", without the operating
\* rules.
GlobalRunsOnOneNode ==
  \A t \in Global, m, n \in Nodes : Executes(m, t) /\ Executes(n, t) => m = n

\* scheduler.go:375-376 "any stale lock this node held across a restart is
\* cleared": a starting node leaves the live lock of a peer alone.
StartClearsOwnLockOnly ==
  [][\A n, m \in Nodes, t \in Global :
       load[n][t] = "read" /\ load'[n][t] # "read"
         /\ m # n /\ lock[t].by = m /\ Executes(m, t)
       => lock'[t].by = m]_vars

\* scheduler.go:785-786 "Runs as a global task so only one cluster node
\* mutates the shared domain table per tick": a run is started only while the
\* table says the task is due.
OneNodePerTick ==
  [][\A n \in Nodes, t \in Global, k \in Slots :
       pc[n][t][k] = "start" /\ pc'[n][t][k] = "fn" => rowNext[t] <= 0]_vars

\* scheduler.go:488-489 "With no cluster peers configured this always succeeds
\* for the sole node": the only node, up for good with the task enabled, gets
\* the lock again and again.
SoleNodeLocks ==
  \A n \in Nodes, t \in Global :
    <>[](phase[n] = "running" /\ enabled[n][t]) => []<>Executes(n, t)

\* admin.go:116-117 "enables or disables a task at runtime and persists the
\* change to scheduler_tasks so it survives a restart": once every call
\* returned, the table has the value in memory.
ToggleSurvivesRestart ==
  \A n \in Nodes, t \in Tasks :
    Serving(n) /\ toggles[n][t] = {} => (enabled[n][t] <=> rowEnabled[t])

\* scheduler.go:274-275 "no new task executions are started": not once Stop
\* has returned.
NoRunAfterStop ==
  [][\A n \in Nodes, t \in Tasks :
       phase[n] = "stopped" /\ ~running[n][t] => ~running'[n][t]]_vars
=============================================================================
