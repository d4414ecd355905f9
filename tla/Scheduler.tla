------------------------------ MODULE Scheduler ------------------------------
(***************************************************************************)
(* The background task scheduler of src/scheduler: every server process    *)
(* (node) keeps the live state of each task in memory, and all nodes share *)
(* the scheduler_tasks table, whose locked_by/locked_at columns are the    *)
(* cluster lock of a global task.                                          *)
(*                                                                         *)
(* Time is relative: a timer holds the distance to the instant the code    *)
(* stores (positive: in the future), so time has no horizon.  One unit is  *)
(* longer than the loop's 15 s ticker and than Stop's 30 s of patience.    *)
(*                                                                         *)
(* A node is one nodeID ("hostname-pid").  A process restarted with another*)
(* pid is another member of Nodes; one restarted with the same pid (PID 1  *)
(* in a container) is the same member going down and starting again.       *)
(***************************************************************************)
EXTENDS Integers

CONSTANTS
  Nodes,          \* node ids
  NoNode,         \* locked_by IS NULL
  Tasks,          \* task ids
  Global,         \* the tasks of task_type "global"
  NonSkippable,   \* nonSkippableTasks
  CfgEnabled,     \* the tasks enabled in server.yml
  Cycle,          \* length of the cycle all cron schedules repeat in
  Period,         \* Period[t]: task t is due every Period[t] units
  Every,          \* the tasks scheduled with @every, from run to run; a cron
                  \* expression that matches nothing for a year is one, too:
                  \* it falls back to the next minute
  MaxRetries,     \* MaxRetries[t]: 0 for the tasks registered with noRetry
  RetryDelay,     \* scheduler.retry_delay
  CatchUp,        \* catch_up_window
  LockTimeout,    \* the lock timeout of acquireLock
  MaxGoroutines   \* bound on the goroutines of one task in one process

\* What the environment may do; each FALSE is an operating assumption.
CONSTANTS
  StartAnytime,   \* a node may start while another one executes a global task
  LongRuns,       \* a task may execute for longer than LockTimeout
  SlowStop,       \* Stop may give up waiting before the running tasks end
  LateRuns,       \* "Run Now" requests still arrive once Stop was called
  Hanging,        \* the tasks whose job may never return
  Failing,        \* the statements on server.db that may fail, see Statements
  Toggled,        \* the tasks an administrator enables and disables
  RunOnDemand     \* the tasks an administrator starts with "Run Now"

Statements == {"select", "insert", "sync", "lock", "record", "release",
               "toggle", "stop"}

ASSUME SchedulerAssumption ==
  /\ NoNode \notin Nodes
  /\ Global \subseteq Tasks
  /\ NonSkippable \subseteq Tasks
  /\ CfgEnabled \subseteq Tasks
  /\ Every \subseteq Tasks /\ Hanging \subseteq Tasks
  /\ Toggled \subseteq Tasks /\ RunOnDemand \subseteq Tasks
  /\ Cycle \in Nat \ {0}
  /\ Period \in [Tasks -> Nat \ {0}]
  /\ MaxRetries \in [Tasks -> Nat]
  /\ {RetryDelay, CatchUp, LockTimeout} \subseteq Nat
  /\ MaxGoroutines \in Nat \ {0}
  /\ Failing \subseteq Statements
  /\ {StartAnytime, LongRuns, SlowStop, LateRuns} \subseteq BOOLEAN

VARIABLES
  clock,      \* position of the present in the cycle of the schedules
  rows,       \* the tasks that have a row in scheduler_tasks
  rowEnabled, \* the columns enabled,
  rowNext,    \* next_run (as a timer), and
  lock,       \* locked_by and locked_at (as an age) of that row
  phase,      \* phase[n]: life cycle of the process of node n
  load,       \* load[n][t]: progress of loadOrInitTaskState
  loop,       \* loop[n]: the ticker goroutine of n is alive
  enabled,    \* enabled[n][t]: task.enabled
  running,    \* running[n][t]: task.running
  nextRun,    \* nextRun[n][t]: task.nextRun, as a timer
  attempt,    \* attempt[n][t]: task.attempt
  pc,         \* pc[n][t][k]: where goroutine k of task t on n is
  toggles     \* toggles[n][t]: SetTaskEnabled calls between memory and table

memory == <<enabled, running, nextRun, attempt>>
table  == <<rows, rowEnabled, rowNext, lock>>
vars   == <<clock, table, phase, load, loop, memory, pc, toggles>>

Slots     == 1..MaxGoroutines
Phases    == {"down", "starting", "running", "stopping", "releasing", "stopped"}
Steps     == {"none", "start", "fn", "record", "release", "done"}
Overdue   == -(CatchUp + 1)       \* a timer is not followed further back
Locks     == [by: Nodes \cup {NoNode}, age: 0..(LockTimeout + 1)]
Unlocked  == [by |-> NoNode, age |-> 0]

TypeOK ==
  /\ clock \in 0..(Cycle - 1)
  /\ rows \subseteq Tasks
  /\ rowEnabled \in [Tasks -> BOOLEAN]
  /\ rowNext \in [Tasks -> Int]
  /\ lock \in [Tasks -> Locks]
  /\ phase \in [Nodes -> Phases]
  /\ load \in [Nodes -> [Tasks -> {"todo", "new", "read", "missed", "done"}]]
  /\ loop \in [Nodes -> BOOLEAN]
  /\ enabled \in [Nodes -> [Tasks -> BOOLEAN]]
  /\ running \in [Nodes -> [Tasks -> BOOLEAN]]
  /\ nextRun \in [Nodes -> [Tasks -> Int]]
  /\ attempt \in [Nodes -> [Tasks -> Nat]]
  /\ pc \in [Nodes -> [Tasks -> [Slots -> Steps]]]
  /\ toggles \in [Nodes -> [Tasks -> SUBSET BOOLEAN]]

Active(n, t)   == {k \in Slots : pc[n][t][k] # "none"}
\* Node n is inside the section the cluster lock of t protects.
Executes(n, t) == \E k \in Slots : pc[n][t][k] \in {"fn", "record", "release"}
Stopping(n)    == phase[n] \in {"stopping", "releasing", "stopped"}
\* The HTTP server is shut down only after Stop returned.
Serving(n)     == phase[n] = "running" \/ Stopping(n)

-----------------------------------------------------------------------------
(* cron.Next and the retry backoff *)

\* cronSchedule.Next: the distance to the next slot strictly after now.
CronNext(t) ==
  IF t \in Every THEN Period[t] ELSE Period[t] - (clock % Period[t])

\* The delay before retry number a: retry_delay doubled a - 1 times.
Backoff(a) == RetryDelay * 2^(IF a > 1 THEN a - 1 ELSE 0)

Init ==
  /\ clock = 0
  /\ rows = {}
  /\ rowEnabled = [t \in Tasks |-> FALSE]
  /\ rowNext = [t \in Tasks |-> 0]
  /\ lock = [t \in Tasks |-> Unlocked]
  /\ phase = [n \in Nodes |-> "down"]
  /\ load = [n \in Nodes |-> [t \in Tasks |-> "todo"]]
  /\ loop = [n \in Nodes |-> FALSE]
  /\ enabled = [n \in Nodes |-> [t \in Tasks |-> FALSE]]
  /\ running = [n \in Nodes |-> [t \in Tasks |-> FALSE]]
  /\ nextRun = [n \in Nodes |-> [t \in Tasks |-> 0]]
  /\ attempt = [n \in Nodes |-> [t \in Tasks |-> 0]]
  /\ pc = [n \in Nodes |-> [t \in Tasks |-> [k \in Slots |-> "none"]]]
  /\ toggles = [n \in Nodes |-> [t \in Tasks |-> {}]]

-----------------------------------------------------------------------------
(* Start: addTasks and loadOrInitTaskState, one task at a time *)

BeginStart(n) ==
  /\ phase[n] = "down"
  /\ phase' = [phase EXCEPT ![n] = "starting"]
  /\ UNCHANGED <<clock, table, load, loop, memory, pc, toggles>>

\* The SELECT of loadOrInitTaskState.  A failed read is taken for a new task.
LoadTask(n, t) ==
  /\ phase[n] = "starting" /\ load[n][t] = "todo"
  /\ \/ /\ t \in rows
        /\ load' = [load EXCEPT ![n][t] = "read"]
        /\ enabled' = [enabled EXCEPT
                         ![n][t] = rowEnabled[t] \/ t \in NonSkippable]
        /\ nextRun' = [nextRun EXCEPT ![n][t] = rowNext[t]]
     \/ /\ t \notin rows \/ "select" \in Failing
        /\ load' = [load EXCEPT ![n][t] = "new"]
        /\ enabled' = [enabled EXCEPT
                         ![n][t] = (t \in CfgEnabled \cup NonSkippable)]
        /\ nextRun' = [nextRun EXCEPT ![n][t] = CronNext(t)]
  /\ UNCHANGED <<clock, table, phase, loop, running, attempt, pc, toggles>>

\* INSERT ... ON CONFLICT of a new task: an existing row keeps the columns
\* modelled here.
InsertTask(n, t) ==
  /\ load[n][t] = "new"
  /\ load' = [load EXCEPT ![n][t] = "done"]
  /\ \/ /\ t \notin rows
        /\ rows' = rows \cup {t}
        /\ rowEnabled' = [rowEnabled EXCEPT ![t] = enabled[n][t]]
        /\ rowNext' = [rowNext EXCEPT ![t] = nextRun[n][t]]
     \/ /\ t \in rows \/ "insert" \in Failing
        /\ UNCHANGED <<rows, rowEnabled, rowNext>>
  /\ UNCHANGED <<clock, lock, phase, loop, memory, pc, toggles>>

\* Overdue by more than the catch-up window.
Missed_NoWindow(timer) == timer < 0
Missed(timer) == timer < -CatchUp

\* The UPDATE of an existing task and the catch-up decision.  The UPDATE
\* clears the lock whoever holds it.
SyncTask(n, t) ==
  /\ load[n][t] = "read"
  /\ StartAnytime \/ t \notin Global \/ \A m \in Nodes : ~Executes(m, t)
  /\ \/ /\ rowEnabled' = [rowEnabled EXCEPT ![t] = enabled[n][t]]
        /\ lock' = [lock EXCEPT ![t] = Unlocked]
     \/ "sync" \in Failing /\ UNCHANGED <<rowEnabled, lock>>
  /\ \/ /\ ~Missed(nextRun[n][t])
        /\ load' = [load EXCEPT ![n][t] = "done"]
        /\ nextRun' = [nextRun EXCEPT ![n][t] = IF @ < 0 THEN 0 ELSE @]
     \/ /\ Missed(nextRun[n][t])
        /\ load' = [load EXCEPT ![n][t] = "missed"]
        /\ nextRun' = [nextRun EXCEPT ![n][t] = CronNext(t)]
  /\ UNCHANGED <<clock, rows, rowNext, phase, loop, enabled, running, attempt,
                 pc, toggles>>

\* The UPDATE of a task that was missed: its due time is moved on.
SkipMissed(n, t) ==
  /\ load[n][t] = "missed"
  /\ load' = [load EXCEPT ![n][t] = "done"]
  /\ \/ rowNext' = [rowNext EXCEPT ![t] = nextRun[n][t]]
     \/ "sync" \in Failing /\ UNCHANGED rowNext
  /\ UNCHANGED <<clock, rows, rowEnabled, lock, phase, loop, memory, pc,
                 toggles>>

EndStart(n) ==
  /\ phase[n] = "starting"
  /\ \A t \in Tasks : load[n][t] = "done"
  /\ phase' = [phase EXCEPT ![n] = "running"]
  /\ loop' = [loop EXCEPT ![n] = TRUE]
  /\ UNCHANGED <<clock, table, load, memory, pc, toggles>>

-----------------------------------------------------------------------------
(* The ticker loop, Run Now and the body of a run *)

\* The test under the task's mutex, in tick and in RunNow.
Startable_Unchecked(n, t) == TRUE
Startable(n, t) == ~running[n][t]

\* running = true and `go runTask`, on the least free goroutine slot.
Spawn(n, t) ==
  \E k \in Slots :
    /\ pc[n][t][k] = "none"
    /\ \A j \in 1..(k - 1) : pc[n][t][j] # "none"
    /\ pc' = [pc EXCEPT ![n][t][k] = "start"]
    /\ running' = [running EXCEPT ![n][t] = TRUE]

\* One iteration of tick.  The loop's select may still choose the ticker
\* after stopCh is closed.
TickTask(n, t) ==
  /\ loop[n]
  /\ enabled[n][t] /\ nextRun[n][t] <= 0 /\ Startable(n, t)
  /\ Spawn(n, t)
  /\ UNCHANGED <<clock, table, phase, load, loop, enabled, nextRun, attempt,
                 toggles>>

\* RunNow looks neither at enabled nor at stopCh, and requests are served
\* until the process exits.
RunNow(n, t) ==
  /\ t \in RunOnDemand
  /\ phase[n] = "running" \/ (LateRuns /\ Stopping(n))
  /\ Startable(n, t)
  /\ Spawn(n, t)
  /\ UNCHANGED <<clock, table, phase, load, loop, enabled, nextRun, attempt,
                 toggles>>

BeginLocal(n, t, k) ==
  /\ pc[n][t][k] = "start" /\ t \notin Global
  /\ pc' = [pc EXCEPT ![n][t][k] = "fn"]
  /\ UNCHANGED <<clock, table, phase, load, loop, memory, toggles>>

\* The WHERE clause of the UPDATE in acquireLock.
LockFree_TooEarly(t)   == t \in rows /\ (lock[t].by = NoNode
                                          \/ lock[t].age >= LockTimeout)
LockFree_NeverStale(t) == t \in rows /\ lock[t].by = NoNode
LockFree(t) ==
  /\ t \in rows
  /\ lock[t].by = NoNode \/ lock[t].age > LockTimeout

AcquireLock(n, t, k) ==
  /\ pc[n][t][k] = "start" /\ t \in Global
  /\ LockFree(t)
  /\ lock' = [lock EXCEPT ![t] = [by |-> n, age |-> 0]]
  /\ pc' = [pc EXCEPT ![n][t][k] = "fn"]
  /\ UNCHANGED <<clock, rows, rowEnabled, rowNext, phase, load, loop, memory,
                 toggles>>

\* The lock is held, or the statement failed: the run is skipped in memory.
SkipRun(n, t, k) ==
  /\ pc[n][t][k] = "start" /\ t \in Global
  /\ ~LockFree(t) \/ "lock" \in Failing
  /\ nextRun' = [nextRun EXCEPT ![n][t] = CronNext(t)]
  /\ pc' = [pc EXCEPT ![n][t][k] = "done"]
  /\ UNCHANGED <<clock, table, phase, load, loop, enabled, running, attempt,
                 toggles>>

\* The attempt counter after a failure; values past MaxRetries are all alike.
Attempts_Down(t, a) == a - 1
Attempts(t, a) == IF a <= MaxRetries[t] THEN a + 1 ELSE a

\* fn returned: the attempt counter and the next run, under the task's mutex.
FinishRun(n, t, k) ==
  /\ pc[n][t][k] = "fn"
  /\ \/ /\ attempt' = [attempt EXCEPT ![n][t] = 0]
        /\ nextRun' = [nextRun EXCEPT ![n][t] = CronNext(t)]
     \/ LET failures == Attempts(t, attempt[n][t])
        IN /\ attempt' = [attempt EXCEPT ![n][t] = failures]
           /\ nextRun' = [nextRun EXCEPT ![n][t] =
                            IF failures <= MaxRetries[t] THEN Backoff(failures)
                            ELSE CronNext(t)]
  /\ pc' = [pc EXCEPT ![n][t][k] = "record"]
  /\ UNCHANGED <<clock, table, phase, load, loop, enabled, running, toggles>>

AfterRecord(t) == IF t \in Global THEN "release" ELSE "done"

\* recordRun: of its two statements the one on scheduler_tasks.  No other
\* goroutine writes nextRun before running is cleared, so the local copy of
\* the next run is the one in memory.
RecordRun(n, t, k) ==
  /\ pc[n][t][k] = "record"
  /\ \/ t \in rows /\ rowNext' = [rowNext EXCEPT ![t] = nextRun[n][t]]
     \/ (t \notin rows \/ "record" \in Failing) /\ UNCHANGED rowNext
  /\ pc' = [pc EXCEPT ![n][t][k] = AfterRecord(t)]
  /\ UNCHANGED <<clock, rows, rowEnabled, lock, phase, load, loop, memory,
                 toggles>>

\* The WHERE clause of the UPDATE in releaseLock.
Releases_Anyone(n, t) == TRUE
Releases(n, t) == lock[t].by = n

ReleaseLock(n, t, k) ==
  /\ pc[n][t][k] = "release"
  /\ \/ Releases(n, t) /\ lock' = [lock EXCEPT ![t] = Unlocked]
     \/ (~Releases(n, t) \/ "release" \in Failing) /\ UNCHANGED lock
  /\ pc' = [pc EXCEPT ![n][t][k] = "done"]
  /\ UNCHANGED <<clock, rows, rowEnabled, rowNext, phase, load, loop, memory,
                 toggles>>

\* The first deferred call of runTask, the last to run.
EndRun(n, t, k) ==
  /\ pc[n][t][k] = "done"
  /\ pc' = [pc EXCEPT ![n][t][k] = "none"]
  /\ running' = [running EXCEPT ![n][t] = FALSE]
  /\ UNCHANGED <<clock, table, phase, load, loop, enabled, nextRun, attempt,
                 toggles>>

-----------------------------------------------------------------------------
(* SetTaskEnabled: the flag in memory, then the column in the table *)

Refused(t, v) == ~v /\ t \in NonSkippable

ToggleMemory(n, t, v) ==
  /\ t \in Toggled
  /\ Serving(n)
  /\ ~Refused(t, v)
  /\ v \notin toggles[n][t]        \* bound: one call per value in flight
  /\ enabled' = [enabled EXCEPT ![n][t] = v]
  /\ toggles' = [toggles EXCEPT ![n][t] = @ \cup {v}]
  /\ UNCHANGED <<clock, table, phase, load, loop, running, nextRun, attempt, pc>>

ToggleRow(n, t, v) ==
  /\ v \in toggles[n][t]
  /\ toggles' = [toggles EXCEPT ![n][t] = @ \ {v}]
  /\ \/ t \in rows /\ rowEnabled' = [rowEnabled EXCEPT ![t] = v]
     \/ (t \notin rows \/ "toggle" \in Failing) /\ UNCHANGED rowEnabled
  /\ UNCHANGED <<clock, rows, rowNext, lock, phase, load, loop, memory, pc>>

-----------------------------------------------------------------------------
(* Stop, exit and crash *)

Stop(n) ==
  /\ phase[n] = "running"
  /\ phase' = [phase EXCEPT ![n] = "stopping"]
  /\ UNCHANGED <<clock, table, load, loop, memory, pc, toggles>>

LoopExit(n) ==
  /\ Stopping(n) /\ loop[n]
  /\ loop' = [loop EXCEPT ![n] = FALSE]
  /\ UNCHANGED <<clock, table, phase, load, memory, pc, toggles>>

\* Mutant: no time limit.
EndWait_NoLimit(n) ==
  /\ phase[n] = "stopping"
  /\ ~loop[n] /\ \A t \in Tasks : Active(n, t) = {}
  /\ phase' = [phase EXCEPT ![n] = "releasing"]
  /\ UNCHANGED <<clock, table, load, loop, memory, pc, toggles>>

\* wg.Wait returned, or 30 s passed.
EndWait(n) ==
  /\ phase[n] = "stopping"
  /\ SlowStop \/ (~loop[n] /\ \A t \in Tasks : Active(n, t) = {})
  /\ phase' = [phase EXCEPT ![n] = "releasing"]
  /\ UNCHANGED <<clock, table, load, loop, memory, pc, toggles>>

\* Every lock in the name of this node is released.
ForceRelease(n) ==
  /\ phase[n] = "releasing"
  /\ phase' = [phase EXCEPT ![n] = "stopped"]
  /\ \/ lock' = [t \in Tasks |-> IF lock[t].by = n THEN Unlocked ELSE lock[t]]
     \/ "stop" \in Failing /\ UNCHANGED lock
  /\ UNCHANGED <<clock, rows, rowEnabled, rowNext, load, loop, memory, pc,
                 toggles>>

\* The process exits after Stop, or crashes in any phase.
Down(n) ==
  /\ phase[n] # "down"
  /\ phase' = [phase EXCEPT ![n] = "down"]
  /\ load' = [load EXCEPT ![n] = [t \in Tasks |-> "todo"]]
  /\ loop' = [loop EXCEPT ![n] = FALSE]
  /\ enabled' = [enabled EXCEPT ![n] = [t \in Tasks |-> FALSE]]
  /\ running' = [running EXCEPT ![n] = [t \in Tasks |-> FALSE]]
  /\ nextRun' = [nextRun EXCEPT ![n] = [t \in Tasks |-> 0]]
  /\ attempt' = [attempt EXCEPT ![n] = [t \in Tasks |-> 0]]
  /\ pc' = [pc EXCEPT ![n] = [t \in Tasks |-> [k \in Slots |-> "none"]]]
  /\ toggles' = [toggles EXCEPT ![n] = [t \in Tasks |-> {}]]
  /\ UNCHANGED <<clock, table>>

-----------------------------------------------------------------------------
Earlier(timer) == IF timer > Overdue THEN timer - 1 ELSE timer

\* One unit of time.  Without LongRuns an execution ends before its lock
\* becomes stale.
Advance ==
  /\ \A n \in Nodes, t \in Global :
       Executes(n, t) /\ lock[t].by = n
         => LongRuns \/ lock[t].age < LockTimeout
  /\ clock' = (clock + 1) % Cycle
  /\ rowNext' = [t \in Tasks |-> IF t \in rows THEN Earlier(rowNext[t])
                                ELSE rowNext[t]]
  /\ lock' = [t \in Tasks |->
               IF lock[t].by # NoNode /\ lock[t].age <= LockTimeout
               THEN [by |-> lock[t].by, age |-> lock[t].age + 1]
               ELSE lock[t]]
  /\ nextRun' = [n \in Nodes |-> [t \in Tasks |->
                  IF load[n][t] = "todo" THEN nextRun[n][t]
                  ELSE Earlier(nextRun[n][t])]]
  /\ UNCHANGED <<rows, rowEnabled, phase, load, loop, enabled, running, attempt, pc, toggles>>

RunStep(n, t, k) ==
  \/ BeginLocal(n, t, k)
  \/ AcquireLock(n, t, k)
  \/ SkipRun(n, t, k)
  \/ FinishRun(n, t, k)
  \/ RecordRun(n, t, k)
  \/ ReleaseLock(n, t, k)
  \/ EndRun(n, t, k)

TaskStep(n, t) ==
  \/ LoadTask(n, t)
  \/ InsertTask(n, t)
  \/ SyncTask(n, t)
  \/ SkipMissed(n, t)
  \/ TickTask(n, t)
  \/ RunNow(n, t)
  \/ \E v \in BOOLEAN : ToggleMemory(n, t, v) \/ ToggleRow(n, t, v)
  \/ \E k \in Slots : RunStep(n, t, k)

NodeStep(n) ==
  \/ BeginStart(n)
  \/ EndStart(n)
  \/ Stop(n)
  \/ LoopExit(n)
  \/ EndWait(n)
  \/ ForceRelease(n)
  \/ Down(n)

Next ==
  \/ Advance
  \/ \E n \in Nodes : NodeStep(n) \/ \E t \in Tasks : TaskStep(n, t)

\* The goroutine goes on, unless it is in a job that may hang.
GoesOn(n, t, k) == RunStep(n, t, k) /\ (t \in Hanging => pc[n][t][k] # "fn")

\* Time passes, a goroutine that can run does, a job returns unless it may
\* hang, the ticker fires, the 30 s of a SlowStop end, and server.db does not
\* fail for ever.  Nothing makes an administrator act, a node start or a node
\* fail.
Fairness ==
  /\ WF_vars(Advance)
  /\ \A n \in Nodes :
       /\ WF_vars(EndStart(n)) /\ WF_vars(LoopExit(n))
       /\ WF_vars(EndWait(n)) /\ WF_vars(ForceRelease(n))
       /\ \A t \in Tasks :
            /\ WF_vars(LoadTask(n, t)) /\ WF_vars(InsertTask(n, t))
            /\ WF_vars(SyncTask(n, t)) /\ WF_vars(SkipMissed(n, t))
            /\ WF_vars(TickTask(n, t))
            /\ \A v \in BOOLEAN : WF_vars(ToggleRow(n, t, v))
            /\ \A k \in Slots :
                 /\ WF_vars(GoesOn(n, t, k))
                 /\ SF_vars(AcquireLock(n, t, k))

Spec     == Init /\ [][Next]_vars
FairSpec == Spec /\ Fairness
=============================================================================
