-------------------------- MODULE SchedulerProofs ----------------------------
EXTENDS SchedulerProps, TLAPS

USE SchedulerAssumption DEF Startable, AfterRecord, Releases, Missed

LEMMA CronNextInt == ASSUME TypeOK, NEW t \in Tasks PROVE CronNext(t) \in Int
<1>1. clock \in Nat /\ Period[t] \in Nat \ {0}
  BY DEF TypeOK
<1>2. Period[t] \in Int /\ Period[t] - (clock % Period[t]) \in Int
  BY <1>1
<1> QED BY <1>2 DEF CronNext

LEMMA BackoffInt == ASSUME NEW a \in Nat PROVE Backoff(a) \in Int
  BY DEF Backoff

LEMMA UnlockedType == Unlocked \in Locks
  BY DEF Unlocked, Locks

LEMMA InitType == Init => TypeOK
  BY DEF Init, TypeOK, Phases, Steps, Slots, Locks, Unlocked

LEMMA TypeInvariant == TypeOK /\ [Next]_vars => TypeOK'
<1> SUFFICES ASSUME TypeOK, [Next]_vars PROVE TypeOK'
  OBVIOUS
<1>1. CASE Advance
  BY <1>1 DEF Advance, TypeOK, Earlier, Overdue, Locks
<1>2. ASSUME NEW n \in Nodes, NodeStep(n) PROVE TypeOK'
  <2>1. CASE BeginStart(n)
    BY <2>1 DEF BeginStart, TypeOK, memory, table, Phases
  <2>2. CASE EndStart(n)
    BY <2>2 DEF EndStart, TypeOK, memory, table, Phases
  <2>3. CASE Stop(n)
    BY <2>3 DEF Stop, TypeOK, memory, table, Phases
  <2>4. CASE LoopExit(n)
    BY <2>4 DEF LoopExit, TypeOK, memory, table
  <2>5. CASE EndWait(n)
    BY <2>5 DEF EndWait, TypeOK, memory, table, Phases
  <2>6. CASE ForceRelease(n)
    <3>1. lock' \in [Tasks -> Locks]
      BY <2>6, UnlockedType DEF ForceRelease, TypeOK
    <3>2. phase' \in [Nodes -> Phases]
      BY <2>6 DEF ForceRelease, TypeOK, Phases
    <3> QED BY <2>6, <3>1, <3>2 DEF ForceRelease, TypeOK, memory
  <2>7. CASE Down(n)
    BY <2>7 DEF Down, table, TypeOK, Phases, Steps
  <2> QED BY <1>2, <2>1, <2>2, <2>3, <2>4, <2>5, <2>6, <2>7 DEF NodeStep
<1>3. ASSUME NEW n \in Nodes, NEW t \in Tasks, TaskStep(n, t) PROVE TypeOK'
  <2>1. CASE LoadTask(n, t)
    <3>1. PICK s \in {"read", "new"} : load' = [load EXCEPT ![n][t] = s]
      BY <2>1 DEF LoadTask
    <3>2. PICK b \in BOOLEAN : enabled' = [enabled EXCEPT ![n][t] = b]
      <4>1. \/ enabled' = [enabled EXCEPT
                            ![n][t] = rowEnabled[t] \/ t \in NonSkippable]
            \/ enabled' = [enabled EXCEPT
                            ![n][t] = (t \in CfgEnabled \cup NonSkippable)]
        BY <2>1 DEF LoadTask
      <4>2. (rowEnabled[t] \/ t \in NonSkippable) \in BOOLEAN
        OBVIOUS
      <4>3. (t \in CfgEnabled \cup NonSkippable) \in BOOLEAN
        OBVIOUS
      <4> QED BY <4>1, <4>2, <4>3, Zenon
    <3>3. PICK d \in Int : nextRun' = [nextRun EXCEPT ![n][t] = d]
      BY <2>1, CronNextInt DEF LoadTask, TypeOK
    <3>4. load' \in [Nodes -> [Tasks -> {"todo", "new", "read", "missed", "done"}]]
      BY <3>1 DEF TypeOK
    <3>5. enabled' \in [Nodes -> [Tasks -> BOOLEAN]]
      BY <3>2 DEF TypeOK
    <3>6. nextRun' \in [Nodes -> [Tasks -> Int]]
      BY <3>3 DEF TypeOK
    <3> QED BY <2>1, <3>4, <3>5, <3>6 DEF LoadTask, table, TypeOK
  <2>2. CASE InsertTask(n, t)
    <3>1. CASE UNCHANGED <<rows, rowEnabled, rowNext>>
      BY <2>2, <3>1 DEF InsertTask, TypeOK, memory
    <3>2. CASE /\ rows' = rows \cup {t}
               /\ rowEnabled' = [rowEnabled EXCEPT ![t] = enabled[n][t]]
               /\ rowNext' = [rowNext EXCEPT ![t] = nextRun[n][t]]
      BY <2>2, <3>2 DEF InsertTask, TypeOK, memory
    <3> QED BY <2>2, <3>1, <3>2 DEF InsertTask
  <2>3. CASE SyncTask(n, t)
    <3>1. PICK s \in {"missed", "done"} : load' = [load EXCEPT ![n][t] = s]
      BY <2>3 DEF SyncTask
    <3>2. PICK b \in BOOLEAN : rowEnabled' = [rowEnabled EXCEPT ![t] = b]
      BY <2>3 DEF SyncTask, TypeOK
    <3>3. PICK l \in Locks : lock' = [lock EXCEPT ![t] = l]
      BY <2>3, UnlockedType DEF SyncTask, TypeOK
    <3>4. PICK d \in Int : nextRun' = [nextRun EXCEPT ![n][t] = d]
      <4>1. nextRun[n][t] \in Int /\ CronNext(t) \in Int
        BY CronNextInt DEF TypeOK
      <4>2. CASE nextRun[n][t] >= -CatchUp
        BY <2>3, <4>1, <4>2 DEF SyncTask
      <4>3. CASE nextRun[n][t] < -CatchUp
        BY <2>3, <4>1, <4>3 DEF SyncTask
      <4> QED BY <4>1, <4>2, <4>3
    <3>6. load' \in [Nodes -> [Tasks -> {"todo", "new", "read", "missed", "done"}]]
      BY <3>1 DEF TypeOK
    <3>7. rowEnabled' \in [Tasks -> BOOLEAN]
      BY <3>2 DEF TypeOK
    <3>8. lock' \in [Tasks -> Locks]
      BY <3>3 DEF TypeOK
    <3>9. nextRun' \in [Nodes -> [Tasks -> Int]]
      BY <3>4 DEF TypeOK
    <3> QED BY <2>3, <3>6, <3>7, <3>8, <3>9 DEF SyncTask, TypeOK
  <2>4. CASE TickTask(n, t)
    <3>1. /\ pc' \in [Nodes -> [Tasks -> [Slots -> Steps]]]
          /\ running' \in [Nodes -> [Tasks -> BOOLEAN]]
      BY <2>4 DEF TickTask, Spawn, TypeOK, Steps
    <3>2. QED BY <2>4, <3>1 DEF TickTask, table, TypeOK
  <2>5. CASE RunNow(n, t)
    <3>1. /\ pc' \in [Nodes -> [Tasks -> [Slots -> Steps]]]
          /\ running' \in [Nodes -> [Tasks -> BOOLEAN]]
      BY <2>5 DEF RunNow, Spawn, TypeOK, Steps
    <3>2. QED BY <2>5, <3>1 DEF RunNow, table, TypeOK
  <2>6. ASSUME NEW v \in BOOLEAN, ToggleMemory(n, t, v) PROVE TypeOK'
    BY <2>6 DEF ToggleMemory, table, TypeOK
  <2>7. ASSUME NEW v \in BOOLEAN, ToggleRow(n, t, v) PROVE TypeOK'
    BY <2>7 DEF ToggleRow, TypeOK, memory, table
  <2>9. CASE SkipMissed(n, t)
    <3>1. load' \in [Nodes -> [Tasks -> {"todo", "new", "read", "missed", "done"}]]
      BY <2>9 DEF SkipMissed, TypeOK
    <3>2. rowNext' \in [Tasks -> Int]
      BY <2>9 DEF SkipMissed, TypeOK
    <3> QED BY <2>9, <3>1, <3>2 DEF SkipMissed, TypeOK, memory
  <2>8. ASSUME NEW k \in Slots, RunStep(n, t, k) PROVE TypeOK'
    <3>1. CASE BeginLocal(n, t, k)
      BY <3>1 DEF BeginLocal, TypeOK, memory, table, Steps
    <3>2. CASE AcquireLock(n, t, k)
      BY <3>2 DEF AcquireLock, TypeOK, memory, table, Steps, Locks
    <3>3. CASE SkipRun(n, t, k)
      BY <3>3, CronNextInt DEF SkipRun, table, TypeOK, Steps
    <3>4. CASE FinishRun(n, t, k)
      <4>1. Attempts(t, attempt[n][t]) \in Nat
        BY DEF TypeOK, Attempts
      <4>2. CronNext(t) \in Int /\ Backoff(Attempts(t, attempt[n][t])) \in Int
        BY <4>1, BackoffInt, CronNextInt
      <4>3. PICK a \in Nat : attempt' = [attempt EXCEPT ![n][t] = a]
        BY <3>4, <4>1 DEF FinishRun
      <4>4. PICK d \in Int : nextRun' = [nextRun EXCEPT ![n][t] = d]
        BY <3>4, <4>2 DEF FinishRun
      <4>5. pc' = [pc EXCEPT ![n][t][k] = "record"]
        BY <3>4 DEF FinishRun
      <4>6. attempt' \in [Nodes -> [Tasks -> Nat]]
        BY <4>3 DEF TypeOK
      <4>7. nextRun' \in [Nodes -> [Tasks -> Int]]
        BY <4>4 DEF TypeOK
      <4>8. pc' \in [Nodes -> [Tasks -> [Slots -> Steps]]]
        BY <4>5 DEF TypeOK, Steps
      <4> QED BY <3>4, <4>6, <4>7, <4>8 DEF FinishRun, table, TypeOK
    <3>5. CASE RecordRun(n, t, k)
      BY <3>5 DEF RecordRun, TypeOK, memory, table, Steps
    <3>6. CASE ReleaseLock(n, t, k)
      <4>1. PICK l \in Locks : lock' = [lock EXCEPT ![t] = l]
        BY <3>6, UnlockedType DEF ReleaseLock, TypeOK
      <4>2. pc' \in [Nodes -> [Tasks -> [Slots -> Steps]]]
        BY <3>6 DEF ReleaseLock, TypeOK, Steps
      <4>3. lock' \in [Tasks -> Locks]
        BY <4>1 DEF TypeOK
      <4> QED BY <3>6, <4>2, <4>3 DEF ReleaseLock, TypeOK, memory
    <3>7. CASE EndRun(n, t, k)
      BY <3>7 DEF EndRun, table, TypeOK, Steps
    <3> QED BY <2>8, <3>1, <3>2, <3>3, <3>4, <3>5, <3>6, <3>7 DEF RunStep
  <2> QED BY <1>3, <2>1, <2>2, <2>3, <2>4, <2>5, <2>6, <2>7, <2>8, <2>9
          DEF TaskStep
<1>4. CASE UNCHANGED vars
  BY <1>4 DEF vars, table, memory, TypeOK
<1> QED BY <1>1, <1>2, <1>3, <1>4 DEF Next

THEOREM TypeCorrect == Spec => []TypeOK
  BY InitType, TypeInvariant, PTL DEF Spec

-----------------------------------------------------------------------------
(* One run per node *)

RunInv == OneRunPerNode /\ RunningHasGoroutine

LEMMA InitRun == Init => RunInv
  BY DEF Init, RunInv, OneRunPerNode, RunningHasGoroutine, Active

\* The two facts, for one task on one node.
RunAt(n, t) ==
  /\ \A j, k \in Active(n, t) : j = k
  /\ running[n][t] <=> Active(n, t) # {}

LEMMA RunInvAt == RunInv <=> \A n \in Nodes, t \in Tasks : RunAt(n, t)
  BY DEF RunInv, OneRunPerNode, RunningHasGoroutine, RunAt

LEMMA RunInvAtNext == RunInv' <=> \A n \in Nodes, t \in Tasks : RunAt(n, t)'
  BY DEF RunInv, OneRunPerNode, RunningHasGoroutine, RunAt

\* A goroutine that starts while the running flag is clear is the only one.
LEMMA SpawnRun ==
  ASSUME TypeOK, RunInv, NEW n \in Nodes, NEW t \in Tasks,
         ~running[n][t], Spawn(n, t)
  PROVE  RunInv'
<1>1. PICK k \in Slots : /\ pc' = [pc EXCEPT ![n][t][k] = "start"]
                         /\ running' = [running EXCEPT ![n][t] = TRUE]
  BY DEF Spawn
<1>2. Active(n, t) = {}
  BY DEF RunInv, RunningHasGoroutine
<1>3. RunAt(n, t)'
  BY <1>1, <1>2 DEF RunAt, Active, TypeOK
<1>4. ASSUME NEW m \in Nodes, NEW u \in Tasks, m # n \/ u # t
      PROVE  RunAt(m, u)'
  <2>1. pc'[m][u] = pc[m][u] /\ running'[m][u] = running[m][u]
    BY <1>1, <1>4 DEF TypeOK
  <2>2. RunAt(m, u)
    BY RunInvAt
  <2> QED BY <2>1, <2>2 DEF RunAt, Active
<1> QED BY <1>3, <1>4, RunInvAtNext

\* A goroutine that goes on to another step stays the one it was.
LEMMA MoveRun ==
  ASSUME TypeOK, RunInv, NEW n \in Nodes, NEW t \in Tasks, NEW k \in Slots,
         NEW s \in Steps \ {"none"}, pc[n][t][k] # "none",
         pc' = [pc EXCEPT ![n][t][k] = s], UNCHANGED running
  PROVE  RunInv'
<1>1. ASSUME NEW m \in Nodes, NEW u \in Tasks
      PROVE  RunAt(m, u)'
  <2>1. \A j \in Slots : pc'[m][u][j] # "none" <=> pc[m][u][j] # "none"
    BY DEF TypeOK
  <2>2. RunAt(m, u)
    BY RunInvAt
  <2> QED BY <2>1, <2>2 DEF RunAt, Active
<1> QED BY <1>1, RunInvAtNext

LEMMA RunInvariant == TypeOK /\ RunInv /\ [Next]_vars => RunInv'
<1> SUFFICES ASSUME TypeOK, RunInv, [Next]_vars PROVE RunInv'
  OBVIOUS
<1>0. UNCHANGED <<pc, running>> => RunInv'
  BY DEF RunInv, OneRunPerNode, RunningHasGoroutine, Active
<1>1. CASE Advance
  BY <1>0, <1>1 DEF Advance
<1>2. ASSUME NEW n \in Nodes, NodeStep(n) PROVE RunInv'
  <2>1. CASE Down(n)
    <3>1. ASSUME NEW m \in Nodes, NEW u \in Tasks PROVE RunAt(m, u)'
      <4>1. CASE m = n
        BY <2>1, <4>1 DEF Down, RunAt, Active, TypeOK
      <4>2. CASE m # n
        <5>1. pc'[m][u] = pc[m][u] /\ running'[m][u] = running[m][u]
          BY <2>1, <4>2 DEF Down, TypeOK
        <5>2. RunAt(m, u)
          BY RunInvAt
        <5> QED BY <5>1, <5>2 DEF RunAt, Active
      <4> QED BY <4>1, <4>2
    <3> QED BY <3>1, RunInvAtNext
  <2>2. CASE UNCHANGED <<pc, running>>
    BY <1>0, <2>2
  <2> QED BY <1>2, <2>1, <2>2 DEF NodeStep, BeginStart, EndStart, Stop, LoopExit,
             EndWait, ForceRelease, memory
<1>3. ASSUME NEW n \in Nodes, NEW t \in Tasks, TaskStep(n, t) PROVE RunInv'
  <2>1. CASE TickTask(n, t)
    BY <2>1, SpawnRun DEF TickTask
  <2>2. CASE RunNow(n, t)
    BY <2>2, SpawnRun DEF RunNow
  <2>3. ASSUME NEW k \in Slots, RunStep(n, t, k) PROVE RunInv'
    <3>1. CASE EndRun(n, t, k)
      <4>1. Active(n, t) = {k}
        BY <3>1 DEF EndRun, Active, RunInv, OneRunPerNode
      <4>2. RunAt(n, t)'
        BY <3>1, <4>1 DEF EndRun, RunAt, Active, TypeOK
      <4>3. ASSUME NEW m \in Nodes, NEW u \in Tasks, m # n \/ u # t
            PROVE  RunAt(m, u)'
        <5>1. pc'[m][u] = pc[m][u] /\ running'[m][u] = running[m][u]
          BY <3>1, <4>3 DEF EndRun, TypeOK
        <5>2. RunAt(m, u)
          BY RunInvAt
        <5> QED BY <5>1, <5>2 DEF RunAt, Active
      <4> QED BY <4>2, <4>3, RunInvAtNext
    <3>2. CASE \E s \in Steps \ {"none"} :
                 /\ pc[n][t][k] # "none"
                 /\ pc' = [pc EXCEPT ![n][t][k] = s]
                 /\ UNCHANGED running
      BY <3>2, MoveRun
    <3> QED BY <2>3, <3>1, <3>2 DEF RunStep, BeginLocal, AcquireLock, SkipRun,
               FinishRun, RecordRun, ReleaseLock, memory, Steps
  <2>4. CASE UNCHANGED <<pc, running>>
    BY <1>0, <2>4
  <2> QED BY <1>3, <2>1, <2>2, <2>3, <2>4 DEF TaskStep, LoadTask, InsertTask,
             SyncTask, SkipMissed, ToggleMemory, ToggleRow, memory
<1>4. CASE UNCHANGED vars
  BY <1>0, <1>4 DEF vars, memory
<1> QED BY <1>1, <1>2, <1>3, <1>4 DEF Next

\* In every process, however ticks, Run Now requests, shutdowns and crashes
\* interleave, a task is executed by at most one goroutine.
THEOREM OneRun == Spec => []OneRunPerNode
  BY InitType, InitRun, TypeInvariant, RunInvariant, PTL DEF Spec, RunInv

\* The running flag of a task is never left set without a goroutine that
\* will clear it.
THEOREM NoStuckTask == Spec => []RunningHasGoroutine
  BY InitType, InitRun, TypeInvariant, RunInvariant, PTL DEF Spec, RunInv

-----------------------------------------------------------------------------
(* The cluster lock under the operating rules *)

\* Nothing runs on n once Stop has waited for it.
Quiet(n) ==
  phase[n] = "releasing" =>
    ~loop[n] /\ \A t \in Tasks, k \in Slots : pc[n][t][k] = "none"

\* A node executes only under a lock of its own that is not stale.
Held(n, t) ==
  Executes(n, t) => lock[t].by = n /\ lock[t].age <= LockTimeout

QuietInv == \A n \in Nodes : Quiet(n)
HeldInv  == \A n \in Nodes, t \in Global : Held(n, t)

LEMMA InitLock == Init => QuietInv /\ HeldInv
  BY DEF Init, QuietInv, HeldInv, Quiet, Held, Executes

LEMMA QuietInvariant ==
  Disciplined /\ TypeOK /\ QuietInv /\ [Next]_vars => QuietInv'
<1> SUFFICES ASSUME Disciplined, TypeOK, QuietInv, [Next]_vars,
                    NEW m \in Nodes
             PROVE  Quiet(m)'
  BY DEF QuietInv
<1>0. Quiet(m)
  BY DEF QuietInv
<1>1. CASE UNCHANGED <<phase, loop, pc>>
  BY <1>0, <1>1 DEF Quiet
<1>2. ASSUME NEW n \in Nodes, NodeStep(n) PROVE Quiet(m)'
  <2>1. CASE BeginStart(n) \/ EndStart(n) \/ Stop(n) \/ ForceRelease(n)
    BY <1>0, <2>1 DEF BeginStart, EndStart, Stop, ForceRelease, Quiet, TypeOK
  <2>2. CASE LoopExit(n)
    BY <1>0, <2>2 DEF LoopExit, Quiet, TypeOK
  <2>3. CASE EndWait(n)
    BY <1>0, <2>3 DEF EndWait, Quiet, TypeOK, Active, Disciplined
  <2>4. CASE Down(n)
    BY <1>0, <2>4 DEF Down, Quiet, TypeOK
  <2> QED BY <1>2, <2>1, <2>2, <2>3, <2>4 DEF NodeStep
<1>3. ASSUME NEW n \in Nodes, NEW t \in Tasks, TaskStep(n, t) PROVE Quiet(m)'
  <2>1. CASE UNCHANGED <<phase, loop, pc>>
    BY <1>1, <2>1
  <2>2. CASE TickTask(n, t) \/ RunNow(n, t)
    <3>1. phase[n] # "releasing"
      BY <2>2 DEF TickTask, RunNow, QuietInv, Quiet, Disciplined
    <3>2. /\ UNCHANGED <<phase, loop>>
          /\ \E k \in Slots : pc' = [pc EXCEPT ![n][t][k] = "start"]
      BY <2>2 DEF TickTask, RunNow, Spawn
    <3> QED BY <1>0, <3>1, <3>2 DEF Quiet, TypeOK
  <2>3. ASSUME NEW k \in Slots, RunStep(n, t, k) PROVE Quiet(m)'
    <3>1. /\ pc[n][t][k] # "none"
          /\ UNCHANGED <<phase, loop>>
          /\ \E s \in Steps : pc' = [pc EXCEPT ![n][t][k] = s]
      BY <2>3 DEF RunStep, BeginLocal, AcquireLock, SkipRun, FinishRun,
                  RecordRun, ReleaseLock, EndRun, Steps
    <3>2. phase[n] # "releasing"
      BY <3>1 DEF QuietInv, Quiet
    <3> QED BY <1>0, <3>1, <3>2 DEF Quiet, TypeOK
  <2> QED BY <1>3, <2>1, <2>2, <2>3 DEF TaskStep, LoadTask, InsertTask,
             SyncTask, SkipMissed, ToggleMemory, ToggleRow
<1>4. CASE UNCHANGED vars
  BY <1>1, <1>4 DEF vars
<1> QED BY <1>1, <1>2, <1>3, <1>4 DEF Next, Advance

\* Who executes after a step of goroutine k of t on n that leaves the others.
LEMMA ExecutesElsewhere ==
  ASSUME TypeOK, NEW n \in Nodes, NEW t \in Tasks, NEW k \in Slots,
         NEW s \in Steps, pc' = [pc EXCEPT ![n][t][k] = s],
         NEW m \in Nodes, NEW u \in Tasks, m # n \/ u # t
  PROVE  Executes(m, u)' <=> Executes(m, u)
<1>1. pc'[m][u] = pc[m][u]
  BY DEF TypeOK
<1> QED BY <1>1 DEF Executes

LEMMA HeldInvariant ==
  /\ Disciplined /\ TypeOK /\ RunInv /\ QuietInv /\ HeldInv
  /\ [Next]_vars
  => HeldInv'
<1> SUFFICES ASSUME Disciplined, TypeOK, RunInv, QuietInv, HeldInv,
                    [Next]_vars, NEW m \in Nodes, NEW u \in Global
             PROVE  Held(m, u)'
  BY DEF HeldInv
<1>0. Held(m, u) /\ u \in Tasks
  BY DEF HeldInv
<1>1. CASE UNCHANGED <<lock, pc>>
  BY <1>0, <1>1 DEF Held, Executes
<1>2. CASE Advance
  <2>1. UNCHANGED pc
    BY <1>2 DEF Advance
  <2>2. CASE Executes(m, u)
    <3>1. lock[u].by = m /\ lock[u].age < LockTimeout
      BY <1>0, <1>2, <2>2 DEF Advance, Held, Disciplined
    <3>2. lock[u].age \in Nat
      BY <1>0 DEF TypeOK, Locks
    <3>3. lock'[u] = [by |-> m, age |-> lock[u].age + 1]
      BY <1>0, <1>2, <3>1, <3>2 DEF Advance
    <3> QED BY <3>1, <3>2, <3>3 DEF Held
  <2>3. CASE ~Executes(m, u)
    BY <2>1, <2>3 DEF Held, Executes
  <2> QED BY <2>2, <2>3
<1>3. ASSUME NEW n \in Nodes, NodeStep(n) PROVE Held(m, u)'
  <2>1. CASE ForceRelease(n)
    <3>1. ~Executes(n, u)
      BY <1>0, <2>1 DEF ForceRelease, QuietInv, Quiet, Executes
    <3>2. CASE m = n
      BY <2>1, <3>1, <3>2 DEF ForceRelease, Held, Executes
    <3>3. CASE m # n
      <4>1. Executes(m, u)' <=> Executes(m, u)
        BY <2>1 DEF ForceRelease, Executes
      <4>2. Executes(m, u) => lock'[u] = lock[u]
        BY <1>0, <2>1, <3>3 DEF ForceRelease, Held
      <4> QED BY <1>0, <4>1, <4>2 DEF Held
    <3> QED BY <3>2, <3>3
  <2>2. CASE Down(n)
    <3>1. Executes(m, u)' => Executes(m, u)
      <4>1. CASE m = n
        BY <1>0, <2>2, <4>1 DEF Down, Executes, TypeOK
      <4>2. CASE m # n
        BY <1>0, <2>2, <4>2 DEF Down, Executes, TypeOK
      <4> QED BY <4>1, <4>2
    <3> QED BY <1>0, <2>2, <3>1 DEF Held, Down, table
  <2>3. CASE UNCHANGED <<lock, pc>>
    BY <1>1, <2>3
  <2> QED BY <1>3, <2>1, <2>2, <2>3 DEF NodeStep, BeginStart, EndStart, Stop,
             LoopExit, EndWait, table
<1>4. ASSUME NEW n \in Nodes, NEW t \in Tasks, TaskStep(n, t)
      PROVE  Held(m, u)'
  <2>1. CASE UNCHANGED <<lock, pc>>
    BY <1>1, <2>1
  <2>2. CASE SyncTask(n, t)
    <3>1. UNCHANGED pc
      BY <2>2 DEF SyncTask
    <3>2. CASE u = t
      <4>1. ~Executes(m, u)
        BY <2>2, <3>2 DEF SyncTask, Disciplined
      <4> QED BY <3>1, <4>1 DEF Held, Executes
    <3>3. CASE u # t
      <4>1. lock'[u] = lock[u]
        BY <1>0, <2>2, <3>3 DEF SyncTask, TypeOK
      <4> QED BY <1>0, <3>1, <4>1 DEF Held, Executes
    <3> QED BY <3>2, <3>3
  <2>3. CASE TickTask(n, t) \/ RunNow(n, t)
    <3>1. PICK k \in Slots : pc[n][t][k] = "none"
                             /\ pc' = [pc EXCEPT ![n][t][k] = "start"]
      BY <2>3 DEF TickTask, RunNow, Spawn
    <3>2. Executes(m, u)' => Executes(m, u)
      BY <1>0, <3>1 DEF Executes, TypeOK
    <3>3. UNCHANGED lock
      BY <2>3 DEF TickTask, RunNow, table
    <3> QED BY <1>0, <3>2, <3>3 DEF Held
  <2>4. ASSUME NEW k \in Slots, RunStep(n, t, k) PROVE Held(m, u)'
    <3>1. CASE AcquireLock(n, t, k)
      <4>1. /\ lock' = [lock EXCEPT ![t] = [by |-> n, age |-> 0]]
            /\ pc' = [pc EXCEPT ![n][t][k] = "fn"]
            /\ t \in Global /\ LockFree(t)
        BY <3>1 DEF AcquireLock
      <4>2. CASE u # t
        <5>1. lock'[u] = lock[u] /\ pc'[m][u] = pc[m][u]
          BY <1>0, <4>1, <4>2 DEF TypeOK
        <5> QED BY <1>0, <5>1 DEF Held, Executes
      <4>3. CASE u = t /\ m = n
        <5>1. lock'[u] = [by |-> n, age |-> 0]
          BY <4>1, <4>3 DEF TypeOK
        <5> QED BY <4>3, <5>1 DEF Held
      <4>4. CASE u = t /\ m # n
        <5>1. lock[t].age \in Nat
          BY DEF TypeOK, Locks
        <5>2. ~Executes(m, t)
          BY <1>0, <4>1, <4>4, <5>1 DEF Held, LockFree
        <5>3. ~Executes(m, u)'
          BY <4>1, <4>4, <5>2, ExecutesElsewhere DEF Steps
        <5> QED BY <5>3 DEF Held
      <4> QED BY <4>2, <4>3, <4>4
    <3>2. CASE ReleaseLock(n, t, k)
      <4>1. /\ pc' = [pc EXCEPT ![n][t][k] = "done"]
            /\ pc[n][t][k] = "release"
            /\ \/ lock' = [lock EXCEPT ![t] = Unlocked] /\ lock[t].by = n
               \/ UNCHANGED lock
        BY <3>2 DEF ReleaseLock
      <4>2. CASE u # t
        <5>1. lock'[u] = lock[u] /\ pc'[m][u] = pc[m][u]
          BY <1>0, <4>1, <4>2 DEF TypeOK
        <5> QED BY <1>0, <5>1 DEF Held, Executes
      <4>3. CASE u = t /\ m = n
        <5>1. \A j \in Slots : j # k => pc[n][t][j] = "none"
          BY <4>1 DEF RunInv, OneRunPerNode, Active
        <5>2. \A j \in Slots : pc'[n][t][j] \in {"none", "done"}
          BY <4>1, <5>1 DEF TypeOK
        <5> QED BY <4>3, <5>2 DEF Held, Executes
      <4>4. CASE u = t /\ m # n
        <5>1. Executes(m, u)' <=> Executes(m, u)
          BY <4>1, <4>4, ExecutesElsewhere DEF Steps
        <5>2. Executes(m, u) => UNCHANGED lock
          BY <1>0, <4>1, <4>4 DEF Held
        <5> QED BY <1>0, <5>1, <5>2 DEF Held
      <4> QED BY <4>2, <4>3, <4>4
    <3>3. CASE /\ UNCHANGED lock
               /\ \E s \in Steps : pc' = [pc EXCEPT ![n][t][k] = s]
                                   /\ (s \in {"fn", "record", "release"} =>
                                         \/ t \notin Global
                                         \/ pc[n][t][k] \in {"fn", "record"})
      <4>1. Executes(m, u)' => Executes(m, u)
        BY <1>0, <3>3 DEF Executes, TypeOK
      <4> QED BY <1>0, <3>3, <4>1 DEF Held
    <3> QED BY <2>4, <3>1, <3>2, <3>3 DEF RunStep, BeginLocal, SkipRun,
               FinishRun, RecordRun, EndRun, table, Steps
  <2> QED BY <1>4, <2>1, <2>2, <2>3, <2>4 DEF TaskStep, LoadTask, InsertTask,
             SkipMissed, ToggleMemory, ToggleRow, table
<1>5. CASE UNCHANGED vars
  BY <1>1, <1>5 DEF vars, table
<1> QED BY <1>2, <1>3, <1>4, <1>5 DEF Next

LEMMA HeldExcludes == Disciplined /\ HeldInv => LockExclusion
  BY DEF HeldInv, Held, LockExclusion

\* Under the operating rules at most one node of the cluster executes a
\* global task at any time, for any number of nodes, tasks and goroutines,
\* with crashes, restarts and failing statements.
THEOREM Exclusion == Spec => []LockExclusion
<1>1. CASE Disciplined
  <2>1. Init => TypeOK /\ RunInv /\ QuietInv /\ HeldInv
    BY InitType, InitRun, InitLock
  <2>2. TypeOK /\ RunInv /\ QuietInv /\ HeldInv /\ [Next]_vars
          => (TypeOK /\ RunInv /\ QuietInv /\ HeldInv)'
    BY <1>1, TypeInvariant, RunInvariant, QuietInvariant, HeldInvariant
  <2>3. HeldInv => LockExclusion
    BY <1>1, HeldExcludes
  <2> QED BY <2>1, <2>2, <2>3, PTL DEF Spec
<1>2. CASE ~Disciplined
  <2>1. LockExclusion
    BY <1>2 DEF LockExclusion
  <2> QED BY <2>1, PTL
<1> QED BY <1>1, <1>2

-----------------------------------------------------------------------------
(* The scheduler implements ClusterTask under the operating rules *)

Executors == [t \in Global |-> {n \in Nodes : Executes(n, t)}]

\* A lock that can be taken protects nobody.
LEMMA FreeLockIdle ==
  ASSUME TypeOK, HeldInv, NEW t \in Global, LockFree(t), NEW m \in Nodes
  PROVE  ~Executes(m, t)
<1>1. lock[t].age \in Nat
  BY DEF TypeOK, Locks
<1> QED BY <1>1 DEF HeldInv, Held, LockFree

\* One node begins or ends a global task, or nothing is seen from outside.
LEMMA StepRefines ==
  ASSUME Disciplined, TypeOK, RunInv, HeldInv, [Next]_vars
  PROVE  [Cluster!Next]_Executors
<1>1. ASSUME \A m \in Nodes, u \in Global : Executes(m, u)' <=> Executes(m, u)
      PROVE  UNCHANGED Executors
  BY <1>1 DEF Executors
<1>2. CASE UNCHANGED pc
  BY <1>1, <1>2 DEF Executes
<1>3. ASSUME NEW n \in Nodes, Down(n) PROVE Cluster!Next
  <2>1. \A m \in Nodes, u \in Global :
          Executes(m, u)' <=> Executes(m, u) /\ m # n
    BY <1>3 DEF Down, Executes, TypeOK
  <2>2. Executors' = [t \in Global |-> Executors[t] \ {n}]
    BY <2>1 DEF Executors
  <2> QED BY <2>2 DEF Cluster!Next, Cluster!Die, Executors
<1>4. ASSUME NEW n \in Nodes, NEW t \in Tasks, NEW k \in Slots,
             AcquireLock(n, t, k)
      PROVE  Cluster!Next
  <2>1. t \in Global /\ LockFree(t) /\ pc' = [pc EXCEPT ![n][t][k] = "fn"]
    BY <1>4 DEF AcquireLock
  <2>2. \A m \in Nodes : ~Executes(m, t)
    BY <2>1, FreeLockIdle
  <2>3. Executes(n, t)'
    BY <2>1 DEF Executes, TypeOK
  <2>4. \A m \in Nodes, u \in Global :
          m # n \/ u # t => (Executes(m, u)' <=> Executes(m, u))
    BY <2>1, ExecutesElsewhere DEF Steps
  <2>5. Executors[t] = {}
    BY <2>1, <2>2 DEF Executors
  <2>6. Executors' = [Executors EXCEPT ![t] = {n}]
    BY <2>1, <2>2, <2>3, <2>4 DEF Executors
  <2> QED BY <2>1, <2>5, <2>6 DEF Cluster!Next, Cluster!Begin, Executors
<1>5. ASSUME NEW n \in Nodes, NEW t \in Tasks, NEW k \in Slots,
             ReleaseLock(n, t, k)
      PROVE  [Cluster!Next]_Executors
  <2>1. pc[n][t][k] = "release" /\ pc' = [pc EXCEPT ![n][t][k] = "done"]
    BY <1>5 DEF ReleaseLock
  <2>2. Executes(n, t)
    BY <2>1 DEF Executes
  <2>3. \A j \in Slots : j # k => pc[n][t][j] = "none"
    BY <2>1 DEF RunInv, OneRunPerNode, Active
  <2>4. ~Executes(n, t)'
    BY <2>1, <2>3 DEF Executes, TypeOK
  <2>5. \A m \in Nodes, u \in Global :
          m # n \/ u # t => (Executes(m, u)' <=> Executes(m, u))
    BY <2>1, ExecutesElsewhere DEF Steps
  <2>6. CASE t \in Global
    <3>1. n \in Executors[t]
      BY <2>2, <2>6 DEF Executors
    <3>2. Executors' = [Executors EXCEPT ![t] = @ \ {n}]
      BY <2>4, <2>5, <2>6 DEF Executors
    <3> QED BY <2>6, <3>1, <3>2 DEF Cluster!Next, Cluster!End, Executors
  <2>7. CASE t \notin Global
    BY <1>1, <2>5, <2>7
  <2> QED BY <2>6, <2>7
<1>6. ASSUME NEW n \in Nodes, NEW t \in Tasks, NEW k \in Slots,
             NEW s \in Steps, pc' = [pc EXCEPT ![n][t][k] = s],
             t \in Global => (s \in {"fn", "record", "release"}
                              <=> pc[n][t][k] \in {"fn", "record", "release"})
      PROVE  UNCHANGED Executors
  <2>1. \A m \in Nodes, u \in Global :
          m # n \/ u # t => (Executes(m, u)' <=> Executes(m, u))
    BY <1>6, ExecutesElsewhere
  <2>2. \A j \in Slots : pc'[n][t][j] = IF j = k THEN s ELSE pc[n][t][j]
    BY <1>6 DEF TypeOK
  <2>3. t \in Global => (Executes(n, t)' <=> Executes(n, t))
    BY <1>6, <2>2 DEF Executes
  <2> QED BY <1>1, <2>1, <2>3
<1>7. ASSUME NEW n \in Nodes, NEW t \in Tasks, TickTask(n, t) \/ RunNow(n, t)
      PROVE  UNCHANGED Executors
  <2>1. PICK k \in Slots : pc[n][t][k] = "none"
                           /\ pc' = [pc EXCEPT ![n][t][k] = "start"]
    BY <1>7 DEF TickTask, RunNow, Spawn
  <2> QED BY <1>6, <2>1 DEF Steps
<1>8. ASSUME NEW n \in Nodes, NEW t \in Tasks, NEW k \in Slots,
             BeginLocal(n, t, k) \/ SkipRun(n, t, k) \/ FinishRun(n, t, k)
               \/ (RecordRun(n, t, k) /\ t \in Global) \/ EndRun(n, t, k)
      PROVE  UNCHANGED Executors
  <2>1. \E s \in Steps :
          /\ pc' = [pc EXCEPT ![n][t][k] = s]
          /\ t \in Global => (s \in {"fn", "record", "release"}
                              <=> pc[n][t][k] \in {"fn", "record", "release"})
    BY <1>8 DEF BeginLocal, SkipRun, FinishRun, RecordRun, EndRun, Steps
  <2> QED BY <1>6, <2>1
<1>9. ASSUME NEW n \in Nodes, NEW t \in Tasks, NEW k \in Slots,
             RecordRun(n, t, k), t \notin Global
      PROVE  UNCHANGED Executors
  BY <1>6, <1>9 DEF RecordRun, Steps
<1>10. CASE UNCHANGED vars
  BY <1>2, <1>10 DEF vars
<1>11. CASE Advance
  BY <1>2, <1>11 DEF Advance
<1>12. ASSUME NEW n \in Nodes, NodeStep(n) PROVE [Cluster!Next]_Executors
  BY <1>2, <1>3, <1>12 DEF NodeStep, BeginStart, EndStart, Stop, LoopExit,
     EndWait, ForceRelease
<1>13. ASSUME NEW n \in Nodes, NEW t \in Tasks, TaskStep(n, t)
       PROVE  [Cluster!Next]_Executors
  <2>1. ASSUME NEW k \in Slots, RunStep(n, t, k)
        PROVE  [Cluster!Next]_Executors
    BY <1>4, <1>5, <1>8, <1>9, <2>1 DEF RunStep
  <2>2. CASE TickTask(n, t) \/ RunNow(n, t)
    BY <1>7, <2>2
  <2>3. CASE UNCHANGED pc
    BY <1>2, <2>3
  <2> QED BY <1>13, <2>1, <2>2, <2>3 DEF TaskStep, LoadTask, InsertTask,
             SyncTask, SkipMissed, ToggleMemory, ToggleRow
<1> QED BY <1>10, <1>11, <1>12, <1>13 DEF Next

\* Under the operating rules the scheduler implements the abstract cluster
\* task: a global task begins on a node only when no node is at it.
THEOREM Implementation == Disciplined /\ Spec => OneExecutor
<1> SUFFICES ASSUME Disciplined PROVE Spec => OneExecutor
  OBVIOUS
<1>1. Init => TypeOK /\ RunInv /\ QuietInv /\ HeldInv
  BY InitType, InitRun, InitLock
<1>2. TypeOK /\ RunInv /\ QuietInv /\ HeldInv /\ [Next]_vars
        => (TypeOK /\ RunInv /\ QuietInv /\ HeldInv)'
  BY TypeInvariant, RunInvariant, QuietInvariant, HeldInvariant
<1>3. Init => Cluster!Init
  BY DEF Init, Cluster!Init, Executes
<1>4. TypeOK /\ RunInv /\ HeldInv /\ [Next]_vars => [Cluster!Next]_Executors
  BY StepRefines
<1> QED BY <1>1, <1>2, <1>3, <1>4, PTL DEF Spec, OneExecutor, Cluster!Spec,
           Executors

-----------------------------------------------------------------------------
(* What holds without any operating rule *)

\* The reasons for which the lock of t may be lost by a node that executes it.
MayLose(n, t) ==
  \/ lock[t].age > LockTimeout
  \/ phase[n] = "releasing"
  \/ \E m \in Nodes : load[m][t] = "read" /\ load'[m][t] # "read"

LEMMA LockLossStep ==
  ASSUME TypeOK, RunInv, [Next]_vars, NEW t \in Global, NEW n \in Nodes,
         lock[t].by = n, Executes(n, t)', lock'[t].by # n
  PROVE  MayLose(n, t)
<1>1. t \in Tasks /\ n # NoNode /\ lock'[t] # lock[t]
  OBVIOUS
<1>2. lock \in [Tasks -> Locks]
  BY DEF TypeOK
<1>3. CASE UNCHANGED lock
  BY <1>1, <1>3
<1>4. CASE Advance
  <2>1. lock'[t].by = lock[t].by
    BY <1>1, <1>4 DEF Advance
  <2> QED BY <2>1
<1>5. ASSUME NEW m \in Nodes, ForceRelease(m) PROVE MayLose(n, t)
  <2>1. CASE lock[t].by = m
    BY <1>5, <2>1 DEF ForceRelease, MayLose
  <2>2. CASE lock[t].by # m
    BY <1>1, <1>3, <1>5, <2>2 DEF ForceRelease
  <2> QED BY <2>1, <2>2
<1>6. ASSUME NEW m \in Nodes, NEW u \in Tasks, SyncTask(m, u)
      PROVE  MayLose(n, t)
  <2>1. load[m][u] = "read" /\ load'[m][u] # "read"
    BY <1>6 DEF SyncTask, TypeOK
  <2>2. CASE u = t
    BY <2>1, <2>2 DEF MayLose
  <2>3. CASE u # t
    BY <1>1, <1>2, <1>6, <2>3 DEF SyncTask
  <2> QED BY <2>2, <2>3
<1>7. ASSUME NEW m \in Nodes, NEW u \in Tasks, NEW k \in Slots,
             AcquireLock(m, u, k)
      PROVE  MayLose(n, t)
  <2>1. CASE u = t
    BY <1>1, <1>7, <2>1 DEF AcquireLock, LockFree, MayLose
  <2>2. CASE u # t
    BY <1>1, <1>2, <1>7, <2>2 DEF AcquireLock
  <2> QED BY <2>1, <2>2
<1>8. ASSUME NEW m \in Nodes, NEW u \in Tasks, NEW k \in Slots,
             ReleaseLock(m, u, k)
      PROVE  MayLose(n, t)
  <2>1. CASE u # t
    BY <1>1, <1>2, <1>8, <2>1 DEF ReleaseLock
  <2>2. CASE lock[u].by # m
    BY <1>3, <1>8, <2>2 DEF ReleaseLock
  <2>3. CASE u = t /\ m = n
    <3>1. pc[n][t][k] = "release" /\ pc' = [pc EXCEPT ![n][t][k] = "done"]
      BY <1>8, <2>3 DEF ReleaseLock
    <3>2. \A j \in Slots : j # k => pc[n][t][j] = "none"
      BY <1>1, <3>1 DEF RunInv, OneRunPerNode, Active
    <3>3. ~Executes(n, t)'
      BY <1>1, <3>1, <3>2 DEF Executes, TypeOK
    <3> QED BY <3>3
  <2> QED BY <2>1, <2>2, <2>3
<1>9. ASSUME NEW m \in Nodes, NodeStep(m) PROVE MayLose(n, t)
  BY <1>3, <1>5, <1>9 DEF NodeStep, BeginStart, EndStart, Stop, LoopExit,
     EndWait, Down, table
<1>10. ASSUME NEW m \in Nodes, NEW u \in Tasks, TaskStep(m, u)
       PROVE  MayLose(n, t)
  <2>1. ASSUME NEW k \in Slots, RunStep(m, u, k) PROVE MayLose(n, t)
    BY <1>3, <1>7, <1>8, <2>1 DEF RunStep, BeginLocal, SkipRun, FinishRun,
       RecordRun, EndRun, table
  <2>2. CASE SyncTask(m, u)
    BY <1>6, <2>2
  <2> QED BY <1>3, <1>10, <2>1, <2>2 DEF TaskStep, LoadTask, InsertTask,
             SkipMissed, TickTask, RunNow, ToggleMemory, ToggleRow, table
<1> QED BY <1>3, <1>4, <1>9, <1>10 DEF Next, vars, table

\* However the cluster is run, the lock of a node that executes a task is lost
\* only when it is stale, to a node that starts, or when the node's own Stop
\* gives up waiting; never to a run that had lost its lock before (releaseLock).
THEOREM LockLoss == Spec => LockLostOnlyIf
<1>1. Init => TypeOK /\ RunInv
  BY InitType, InitRun
<1>2. TypeOK /\ RunInv /\ [Next]_vars => (TypeOK /\ RunInv)'
  BY TypeInvariant, RunInvariant
<1>3. TypeOK /\ RunInv /\ [Next]_vars
        => [\A t \in Global, n \in Nodes :
              Executes(n, t) /\ lock[t].by = n
                /\ Executes(n, t)' /\ lock'[t].by # n
              => \/ lock[t].age > LockTimeout
                 \/ phase[n] = "releasing"
                 \/ \E m \in Nodes : load[m][t] = "read" /\ load'[m][t] # "read"]_vars
  BY LockLossStep DEF MayLose
<1> QED BY <1>1, <1>2, <1>3, PTL DEF Spec, LockLostOnlyIf

\* The due time of t may be moved into the future.
MayMove(t) ==
  \/ \E n \in Nodes, k \in Slots : pc[n][t][k] = "record" /\ pc'[n][t][k] # "record"
  \/ \E n \in Nodes : load[n][t] = "missed" /\ load'[n][t] # "missed"

LEMMA DueStep ==
  ASSUME TypeOK, [Next]_vars, NEW t \in Tasks,
         t \in rows, rowNext[t] <= 0, rowNext'[t] > 0
  PROVE  MayMove(t)
<1>1. rowNext \in [Tasks -> Int] /\ rowNext'[t] # rowNext[t]
  BY DEF TypeOK
<1>2. CASE UNCHANGED rowNext
  BY <1>1, <1>2
<1>3. CASE Advance
  <2>1. rowNext'[t] \in Int /\ rowNext'[t] <= rowNext[t]
    BY <1>1, <1>3 DEF Advance, Earlier, Overdue
  <2> QED BY <1>1, <2>1
<1>4. ASSUME NEW n \in Nodes, NEW u \in Tasks, InsertTask(n, u)
      PROVE  MayMove(t)
  <2>1. CASE u = t
    BY <1>2, <1>4, <2>1 DEF InsertTask
  <2>2. CASE u # t
    BY <1>1, <1>2, <1>4, <2>2 DEF InsertTask
  <2> QED BY <2>1, <2>2
<1>5. ASSUME NEW n \in Nodes, NEW u \in Tasks, SkipMissed(n, u)
      PROVE  MayMove(t)
  <2>1. CASE u = t
    BY <1>5, <2>1 DEF SkipMissed, MayMove, TypeOK
  <2>2. CASE u # t
    BY <1>1, <1>2, <1>5, <2>2 DEF SkipMissed
  <2> QED BY <2>1, <2>2
<1>6. ASSUME NEW n \in Nodes, NEW u \in Tasks, NEW k \in Slots,
             RecordRun(n, u, k)
      PROVE  MayMove(t)
  <2>1. pc[n][u][k] = "record" /\ pc'[n][u][k] # "record"
    BY <1>6 DEF RecordRun, TypeOK
  <2>2. CASE u = t
    BY <2>1, <2>2 DEF MayMove
  <2>3. CASE u # t
    BY <1>1, <1>2, <1>6, <2>3 DEF RecordRun
  <2> QED BY <2>2, <2>3
<1>7. ASSUME NEW n \in Nodes, NodeStep(n) PROVE MayMove(t)
  BY <1>2, <1>7 DEF NodeStep, BeginStart, EndStart, Stop, LoopExit, EndWait,
     ForceRelease, Down, table
<1>8. ASSUME NEW n \in Nodes, NEW u \in Tasks, TaskStep(n, u)
      PROVE  MayMove(t)
  <2>1. ASSUME NEW k \in Slots, RunStep(n, u, k) PROVE MayMove(t)
    BY <1>2, <1>6, <2>1 DEF RunStep, BeginLocal, AcquireLock, SkipRun,
       FinishRun, ReleaseLock, EndRun, table
  <2>2. CASE InsertTask(n, u) \/ SkipMissed(n, u)
    BY <1>4, <1>5, <2>2
  <2> QED BY <1>2, <1>8, <2>1, <2>2 DEF TaskStep, LoadTask, SyncTask, TickTask,
             RunNow, ToggleMemory, ToggleRow, table
<1> QED BY <1>2, <1>3, <1>7, <1>8 DEF Next, vars, table

\* A starting node gives up a run only when it is overdue beyond the window.
LEMMA MissedStep ==
  ASSUME TypeOK, [Next]_vars, NEW n \in Nodes, NEW t \in Tasks,
         load[n][t] = "read", load'[n][t] = "missed"
  PROVE  nextRun[n][t] < -CatchUp
<1>1. CASE UNCHANGED load
  BY <1>1
<1>2. ASSUME NEW m \in Nodes, NodeStep(m) PROVE nextRun[n][t] < -CatchUp
  <2>1. CASE Down(m)
    BY <2>1 DEF Down, TypeOK
  <2> QED BY <1>1, <1>2, <2>1 DEF NodeStep, BeginStart, EndStart, Stop,
             LoopExit, EndWait, ForceRelease
<1>3. ASSUME NEW m \in Nodes, NEW u \in Tasks, SyncTask(m, u)
      PROVE  nextRun[n][t] < -CatchUp
  <2>1. PICK s : load' = [load EXCEPT ![m][u] = s]
                 /\ (s = "missed" => nextRun[m][u] < -CatchUp)
    BY <1>3 DEF SyncTask
  <2>2. m = n /\ u = t /\ s = "missed"
    BY <2>1 DEF TypeOK
  <2> QED BY <2>1, <2>2
<1>4. ASSUME NEW m \in Nodes, NEW u \in Tasks,
             LoadTask(m, u) \/ InsertTask(m, u) \/ SkipMissed(m, u)
      PROVE  FALSE
  <2>1. PICK s \in {"read", "new", "done"} : load' = [load EXCEPT ![m][u] = s]
    BY <1>4 DEF LoadTask, InsertTask, SkipMissed
  <2> QED BY <2>1 DEF TypeOK
<1>5. ASSUME NEW m \in Nodes, NEW u \in Tasks, TaskStep(m, u)
      PROVE  nextRun[n][t] < -CatchUp
  BY <1>1, <1>3, <1>4, <1>5 DEF TaskStep, TickTask, RunNow, ToggleMemory,
     ToggleRow, RunStep, BeginLocal, AcquireLock, SkipRun, FinishRun,
     RecordRun, ReleaseLock, EndRun
<1> QED BY <1>1, <1>2, <1>5 DEF Next, vars, Advance

\* The due time in the table moves into the future only with a run that was
\* recorded, or when a starting node found the window missed (recordRun,
\* loadOrInitTaskState): a crash in the middle of a run leaves it due.
THEOREM DueKept == Spec => DueNotLost
<1>1. Init => TypeOK
  BY InitType
<1>2. TypeOK /\ [Next]_vars => TypeOK'
  BY TypeInvariant
<1>3. TypeOK /\ [Next]_vars
        => [\A t \in Tasks :
              t \in rows /\ rowNext[t] <= 0 /\ rowNext'[t] > 0
              => \/ \E n \in Nodes, k \in Slots :
                      pc[n][t][k] = "record" /\ pc'[n][t][k] # "record"
                 \/ \E n \in Nodes :
                      load[n][t] = "missed" /\ load'[n][t] # "missed"]_vars
  BY DueStep DEF MayMove
<1>4. TypeOK /\ [Next]_vars
        => [\A n \in Nodes, t \in Tasks :
              load[n][t] = "read" /\ load'[n][t] = "missed"
              => nextRun[n][t] < -CatchUp]_vars
  BY MissedStep
<1> QED BY <1>1, <1>2, <1>3, <1>4, PTL DEF Spec, DueNotLost

-----------------------------------------------------------------------------
(* Tasks that are never off *)

\* No request under way will write that a task of these is off.
NoneTurnsOff ==
  \A t \in NonSkippable, n \in Nodes : toggles[n][t] \subseteq {TRUE}

EnabledInv == NeverDisabled /\ NoneTurnsOff

LEMMA EnabledInvariant ==
  TypeOK /\ EnabledInv /\ [Next]_vars => EnabledInv'
<1> SUFFICES ASSUME TypeOK, EnabledInv, [Next]_vars PROVE EnabledInv'
  OBVIOUS
<1>1. /\ \A t \in NonSkippable : t \in rows => rowEnabled[t]
      /\ \A t \in NonSkippable, m \in Nodes :
           /\ load[m][t] # "todo" => enabled[m][t]
           /\ toggles[m][t] \subseteq {TRUE}
  BY DEF EnabledInv, NeverDisabled, NoneTurnsOff
<1>2. ASSUME UNCHANGED <<rows, rowEnabled, load, enabled, toggles>>
      PROVE  EnabledInv'
  BY <1>1, <1>2 DEF EnabledInv, NeverDisabled, NoneTurnsOff
<1>3. CASE Advance
  BY <1>2, <1>3 DEF Advance
<1>4. ASSUME NEW n \in Nodes, NodeStep(n) PROVE EnabledInv'
  <2>1. CASE Down(n)
    BY <1>1, <2>1 DEF Down, table, TypeOK, EnabledInv, NeverDisabled, NoneTurnsOff
  <2>2. CASE UNCHANGED <<rows, rowEnabled, load, enabled, toggles>>
    BY <1>2, <2>2
  <2>3. QED BY <1>4, <2>1, <2>2 DEF NodeStep, BeginStart, EndStart, Stop, LoopExit,
            EndWait, ForceRelease, memory, table
<1>5. ASSUME NEW n \in Nodes, NEW t \in Tasks, TaskStep(n, t) PROVE EnabledInv'
  <2>1. CASE LoadTask(n, t)
    <3>1. UNCHANGED <<rows, rowEnabled, toggles>>
      BY <2>1 DEF LoadTask, table
    <3>2. /\ (rowEnabled[t] \/ t \in NonSkippable) \in BOOLEAN
          /\ (t \in CfgEnabled \cup NonSkippable) \in BOOLEAN
          /\ t \in NonSkippable => (rowEnabled[t] \/ t \in NonSkippable)
          /\ t \in NonSkippable => t \in CfgEnabled \cup NonSkippable
      OBVIOUS
    <3>3. PICK b \in BOOLEAN : /\ enabled' = [enabled EXCEPT ![n][t] = b]
                               /\ t \in NonSkippable => b
      BY <2>1, <3>2, Zenon DEF LoadTask
    <3>4. \A m \in Nodes, u \in Tasks :
            \/ load'[m][u] = load[m][u] /\ enabled'[m][u] = enabled[m][u]
            \/ m = n /\ u = t /\ enabled'[m][u] = b
      BY <2>1, <3>3 DEF LoadTask, TypeOK
    <3>5. ASSUME NEW u \in NonSkippable, NEW m \in Nodes
          PROVE  load'[m][u] # "todo" => enabled'[m][u]
      <4>1. u \in Tasks /\ (load[m][u] # "todo" => enabled[m][u])
        BY <1>1
      <4>2. CASE load'[m][u] = load[m][u] /\ enabled'[m][u] = enabled[m][u]
        BY <4>1, <4>2
      <4>3. CASE u = t /\ enabled'[m][u] = b
        BY <3>3, <4>3
      <4>4. QED BY <3>4, <4>1, <4>2, <4>3
    <3>6. QED BY <1>1, <3>1, <3>5 DEF EnabledInv, NeverDisabled, NoneTurnsOff
  <2>2. CASE InsertTask(n, t)
    <3>1. UNCHANGED <<enabled, toggles>> /\ load[n][t] = "new"
      BY <2>2 DEF InsertTask, memory
    <3>2. \A m \in Nodes, u \in Tasks : load[m][u] = "todo" => load'[m][u] = "todo"
      BY <2>2 DEF InsertTask, TypeOK
    <3>3. \A u \in Tasks : \/ u \in rows' => u \in rows /\ rowEnabled'[u] = rowEnabled[u]
                           \/ u = t /\ rowEnabled'[u] = enabled[n][t]
      BY <2>2 DEF InsertTask, TypeOK
    <3>4. QED BY <1>1, <3>1, <3>2, <3>3 DEF EnabledInv, NeverDisabled, NoneTurnsOff
  <2>3. CASE SyncTask(n, t)
    <3>1. UNCHANGED <<rows, enabled, toggles>> /\ load[n][t] = "read"
      BY <2>3 DEF SyncTask
    <3>5. PICK s : load' = [load EXCEPT ![n][t] = s]
      BY <2>3 DEF SyncTask
    <3>2. \A m \in Nodes, u \in Tasks : load[m][u] = "todo" => load'[m][u] = "todo"
      BY <3>1, <3>5 DEF TypeOK
    <3>3. \A u \in Tasks : \/ rowEnabled'[u] = rowEnabled[u]
                           \/ u = t /\ rowEnabled'[u] = enabled[n][t]
      BY <2>3 DEF SyncTask, TypeOK
    <3>4. QED BY <1>1, <3>1, <3>2, <3>3 DEF EnabledInv, NeverDisabled, NoneTurnsOff
  <2>4. ASSUME NEW v \in BOOLEAN, ToggleMemory(n, t, v) PROVE EnabledInv'
    <3>1. UNCHANGED <<rows, rowEnabled, load>> /\ (t \in NonSkippable => v = TRUE)
      BY <2>4 DEF ToggleMemory, Refused, table
    <3>2. \A m \in Nodes, u \in Tasks :
            \/ enabled'[m][u] = enabled[m][u] /\ toggles'[m][u] = toggles[m][u]
            \/ m = n /\ u = t /\ enabled'[m][u] = v /\ toggles'[m][u] = toggles[m][u] \cup {v}
      BY <2>4 DEF ToggleMemory, TypeOK
    <3>3. ASSUME NEW u \in NonSkippable, NEW m \in Nodes
          PROVE  /\ load'[m][u] # "todo" => enabled'[m][u]
                 /\ toggles'[m][u] \subseteq {TRUE}
      <4>1. u \in Tasks /\ toggles[m][u] \subseteq {TRUE}
            /\ (load[m][u] # "todo" => enabled[m][u])
        BY <1>1
      <4>2. CASE enabled'[m][u] = enabled[m][u] /\ toggles'[m][u] = toggles[m][u]
        BY <3>1, <4>1, <4>2
      <4>3. CASE u = t /\ enabled'[m][u] = v /\ toggles'[m][u] = toggles[m][u] \cup {v}
        BY <3>1, <4>1, <4>3
      <4>4. QED BY <3>2, <4>1, <4>2, <4>3
    <3>4. QED BY <1>1, <3>1, <3>3 DEF EnabledInv, NeverDisabled, NoneTurnsOff
  <2>5. ASSUME NEW v \in BOOLEAN, ToggleRow(n, t, v) PROVE EnabledInv'
    <3>1. UNCHANGED <<rows, load, enabled>> /\ v \in toggles[n][t]
      BY <2>5 DEF ToggleRow, memory
    <3>2. \A m \in Nodes, u \in Tasks : toggles'[m][u] \subseteq toggles[m][u]
      BY <2>5 DEF ToggleRow, TypeOK
    <3>3. \A u \in Tasks : \/ rowEnabled'[u] = rowEnabled[u]
                           \/ u = t /\ rowEnabled'[u] = v
      BY <2>5 DEF ToggleRow, TypeOK
    <3>4. QED BY <1>1, <3>1, <3>2, <3>3 DEF EnabledInv, NeverDisabled, NoneTurnsOff
  <2>6. CASE UNCHANGED <<rows, rowEnabled, load, enabled, toggles>>
    BY <1>2, <2>6
  <2>8. CASE SkipMissed(n, t)
    <3>1. UNCHANGED <<rows, rowEnabled, enabled, toggles>>
      BY <2>8 DEF SkipMissed, memory
    <3>2. \A m \in Nodes, u \in Tasks : load[m][u] = "todo" => load'[m][u] = "todo"
      BY <2>8 DEF SkipMissed, TypeOK
    <3>3. QED BY <1>1, <3>1, <3>2 DEF EnabledInv, NeverDisabled, NoneTurnsOff
  <2>7. QED BY <1>5, <2>1, <2>2, <2>3, <2>4, <2>5, <2>6, <2>8 DEF TaskStep, TickTask, RunNow,
            RunStep, BeginLocal, AcquireLock, SkipRun, FinishRun, RecordRun,
            ReleaseLock, EndRun, memory, table
<1>6. CASE UNCHANGED vars
  BY <1>2, <1>6 DEF vars, memory, table
<1>7. QED BY <1>3, <1>4, <1>5, <1>6 DEF Next

\* Whatever is configured, toggled at whichever nodes, left in the table by an
\* earlier process, read or not read at a start, and written in whatever order:
\* no node and no row ever has a task off that must not be.
THEOREM CriticalTasksStayOn == Spec => []NeverDisabled
<1>1. Init => EnabledInv
  <2>1. Init => /\ rows = {}
                /\ \A n \in Nodes, t \in Tasks : load[n][t] = "todo" /\ toggles[n][t] = {}
    BY DEF Init
  <2>2. QED BY <2>1 DEF EnabledInv, NeverDisabled, NoneTurnsOff
<1>2. EnabledInv => NeverDisabled
  BY DEF EnabledInv
<1>3. QED BY <1>1, <1>2, InitType, TypeInvariant, EnabledInvariant, PTL DEF Spec

-----------------------------------------------------------------------------
(* Locks of nodes that execute nothing *)

\* Nothing runs on a node before its Start has loaded all tasks.
Loaded(n) ==
  \/ Serving(n)
  \/ loop[n]
  \/ \E t \in Tasks, k \in Slots : pc[n][t][k] # "none"
  => \A t \in Tasks : load[n][t] = "done"

LoadedInv == \A n \in Nodes : Loaded(n)

\* A node in whose name the lock of t is has the row, and executes t or is
\* about to clear the lock its previous process left.
Owned(n, t) ==
  lock[t].by = n =>
    /\ t \in rows /\ load[n][t] \notin {"new", "missed"}
    /\ load[n][t] = "done" => Executes(n, t)

OwnedInv == Failing = {} => \A n \in Nodes, t \in Global : Owned(n, t)

LEMMA LoadedInvariant ==
  TypeOK /\ LoadedInv /\ [Next]_vars => LoadedInv'
<1> SUFFICES ASSUME TypeOK, LoadedInv, [Next]_vars, NEW m \in Nodes
             PROVE  Loaded(m)'
  BY DEF LoadedInv
<1>1. Loaded(m)
  BY DEF LoadedInv
<1>2. ASSUME UNCHANGED <<phase, load, loop, pc>>
      PROVE  Loaded(m)'
  BY <1>1, <1>2 DEF Loaded, Serving, Stopping
<1>3. CASE Advance
  BY <1>2, <1>3 DEF Advance
<1>4. ASSUME NEW n \in Nodes, NodeStep(n) PROVE Loaded(m)'
  <2>1. CASE BeginStart(n) \/ Stop(n) \/ EndWait(n) \/ ForceRelease(n)
    BY <1>1, <2>1 DEF BeginStart, Stop, EndWait, ForceRelease, memory, table, TypeOK,
       Loaded, Serving, Stopping
  <2>2. CASE EndStart(n) \/ LoopExit(n)
    BY <1>1, <2>2 DEF EndStart, LoopExit, memory, table, TypeOK, Loaded, Serving, Stopping
  <2>3. CASE Down(n)
    BY <1>1, <2>3 DEF Down, table, TypeOK, Loaded, Serving, Stopping
  <2>4. QED BY <1>4, <2>1, <2>2, <2>3 DEF NodeStep
<1>5. ASSUME NEW n \in Nodes, NEW t \in Tasks, TaskStep(n, t) PROVE Loaded(m)'
  <2>1. CASE \/ LoadTask(n, t) \/ InsertTask(n, t)
             \/ SyncTask(n, t) \/ SkipMissed(n, t)
    <3>1. UNCHANGED <<phase, loop, pc>>
      BY <2>1 DEF LoadTask, InsertTask, SyncTask, SkipMissed, memory, table
    <3>2. PICK s : load' = [load EXCEPT ![n][t] = s]
                   /\ (load[n][t] = "done" => s = "done")
      BY <2>1 DEF LoadTask, InsertTask, SyncTask, SkipMissed
    <3>3. \A u \in Tasks : load[m][u] = "done" => load'[m][u] = "done"
      BY <3>2 DEF TypeOK
    <3>4. QED BY <1>1, <3>1, <3>3 DEF Loaded, Serving, Stopping
  <2>2. CASE TickTask(n, t) \/ RunNow(n, t)
    <3>1. UNCHANGED <<phase, load, loop>>
      BY <2>2 DEF TickTask, RunNow
    <3>2. Serving(n) \/ loop[n]
      BY <2>2 DEF TickTask, RunNow, Serving
    <3>3. m # n => pc'[m] = pc[m]
      BY <2>2 DEF TickTask, RunNow, Spawn, TypeOK
    <3>4. QED BY <1>1, <3>1, <3>2, <3>3 DEF Loaded, Serving, Stopping
  <2>3. ASSUME NEW k \in Slots, RunStep(n, t, k) PROVE Loaded(m)'
    <3>1. UNCHANGED <<phase, load, loop>> /\ pc[n][t][k] # "none"
      BY <2>3 DEF RunStep, BeginLocal, AcquireLock, SkipRun, FinishRun, RecordRun,
         ReleaseLock, EndRun
    <3>2. m # n => pc'[m] = pc[m]
      BY <2>3 DEF RunStep, BeginLocal, AcquireLock, SkipRun, FinishRun, RecordRun,
         ReleaseLock, EndRun, TypeOK
    <3>3. QED BY <1>1, <3>1, <3>2 DEF Loaded, Serving, Stopping
  <2>4. CASE UNCHANGED <<phase, load, loop, pc>>
    BY <1>2, <2>4
  <2>5. QED BY <1>5, <2>1, <2>2, <2>3, <2>4 DEF TaskStep, ToggleMemory, ToggleRow
<1>6. CASE UNCHANGED vars
  BY <1>2, <1>6 DEF vars
<1>7. QED BY <1>3, <1>4, <1>5, <1>6 DEF Next

\* A goroutine that does not execute ends no execution by its step.
LEMMA OthersExecute ==
  ASSUME TypeOK, NEW n \in Nodes, NEW t \in Tasks, NEW k \in Slots, NEW s,
         pc' = [pc EXCEPT ![n][t][k] = s],
         pc[n][t][k] \notin {"fn", "record", "release"},
         NEW m \in Nodes, NEW u \in Tasks, Executes(m, u)
  PROVE  Executes(m, u)'
<1>1. PICK j \in Slots : pc[m][u][j] \in {"fn", "record", "release"}
  BY DEF Executes
<1>2. pc'[m][u][j] = pc[m][u][j]
  BY <1>1 DEF TypeOK
<1>3. QED BY <1>1, <1>2 DEF Executes

\* A step that takes no lock and ends no execution.
LEMMA OwnedStays ==
  ASSUME NEW n \in Nodes, NEW t \in Global, Owned(n, t),
         lock'[t].by \in {lock[t].by, NoNode}, rows \subseteq rows',
         load'[n][t] = load[n][t], Executes(n, t) => Executes(n, t)'
  PROVE  Owned(n, t)'
BY DEF Owned

LEMMA OwnedInvariant ==
  TypeOK /\ LoadedInv /\ OwnedInv /\ [Next]_vars => OwnedInv'
<1> SUFFICES ASSUME TypeOK, LoadedInv, OwnedInv, [Next]_vars, Failing = {},
                    NEW m \in Nodes, NEW u \in Global
             PROVE  Owned(m, u)'
  BY DEF OwnedInv
<1>1. Owned(m, u) /\ Loaded(m) /\ u \in Tasks
  BY DEF OwnedInv, LoadedInv
<1>2. ASSUME UNCHANGED <<lock, rows, load, pc>>
      PROVE  Owned(m, u)'
  BY <1>1, <1>2 DEF Owned, Executes
<1>3. CASE Advance
  <2>1. lock'[u].by = lock[u].by
    BY <1>1, <1>3 DEF Advance, TypeOK, Locks
  <2>2. UNCHANGED <<rows, load, pc>>
    BY <1>3 DEF Advance
  <2>3. QED BY <1>1, <2>1, <2>2, OwnedStays DEF Executes
<1>4. ASSUME NEW n \in Nodes, NodeStep(n) PROVE Owned(m, u)'
  <2>1. CASE ForceRelease(n)
    <3>1. lock'[u].by \in {lock[u].by, NoNode}
      BY <1>1, <2>1 DEF ForceRelease, Unlocked
    <3>2. UNCHANGED <<rows, load, pc>>
      BY <2>1 DEF ForceRelease
    <3>3. QED BY <1>1, <3>1, <3>2, OwnedStays DEF Executes
  <2>2. CASE Down(n)
    <3>1. UNCHANGED <<rows, lock>>
      BY <2>2 DEF Down, table
    <3>2. CASE m = n
      BY <1>1, <2>2, <3>1, <3>2 DEF Down, Owned, TypeOK
    <3>3. CASE m # n
      <4>1. load'[m] = load[m] /\ pc'[m] = pc[m]
        BY <2>2, <3>3 DEF Down, TypeOK
      <4>2. QED BY <1>1, <3>1, <4>1 DEF Owned, Executes
    <3>4. QED BY <3>2, <3>3
  <2>3. CASE UNCHANGED <<lock, rows, load, pc>>
    BY <1>2, <2>3
  <2>4. QED BY <1>4, <2>1, <2>2, <2>3 DEF NodeStep, BeginStart, EndStart, Stop, LoopExit,
            EndWait, table
<1>5. ASSUME NEW n \in Nodes, NEW t \in Tasks, TaskStep(n, t) PROVE Owned(m, u)'
  <2>1. CASE LoadTask(n, t)
    <3>1. UNCHANGED <<rows, lock, pc>>
      BY <2>1 DEF LoadTask, table
    <3>2. PICK s : /\ load' = [load EXCEPT ![n][t] = s]
                   /\ s = "read" \/ (s = "new" /\ t \notin rows)
      BY <2>1 DEF LoadTask
    <3>3. \/ load'[m][u] = load[m][u]
          \/ m = n /\ u = t /\ load'[m][u] = s
      BY <1>1, <3>2 DEF TypeOK
    <3>4. QED BY <1>1, <3>1, <3>2, <3>3 DEF Owned, Executes
  <2>2. CASE InsertTask(n, t)
    <3>1. UNCHANGED <<lock, pc>> /\ rows \subseteq rows'
      BY <2>2 DEF InsertTask
    <3>2. \/ load'[m][u] = load[m][u]
          \/ m = n /\ u = t /\ load[m][u] = "new"
      BY <1>1, <2>2 DEF InsertTask, TypeOK
    <3>3. QED BY <1>1, <3>1, <3>2 DEF Owned, Executes
  <2>3. CASE SyncTask(n, t)
    <3>1. UNCHANGED <<rows, pc>>
      BY <2>3 DEF SyncTask
    <3>5. PICK s : load' = [load EXCEPT ![n][t] = s]
      BY <2>3 DEF SyncTask
    <3>2. CASE u = t
      <4>1. lock' = [lock EXCEPT ![t] = Unlocked]
        BY <2>3 DEF SyncTask
      <4>2. lock'[u].by = NoNode
        BY <1>1, <3>2, <4>1 DEF Unlocked, TypeOK
      <4>3. QED BY <4>2 DEF Owned
    <3>3. CASE u # t
      <4>1. lock'[u] = lock[u]
        BY <1>1, <2>3, <3>3 DEF SyncTask, TypeOK
      <4>3. load'[m][u] = load[m][u]
        BY <1>1, <3>3, <3>5 DEF TypeOK
      <4>2. QED BY <1>1, <3>1, <4>1, <4>3 DEF Owned, Executes
    <3>4. QED BY <3>2, <3>3
  <2>4. CASE TickTask(n, t) \/ RunNow(n, t)
    <3>1. UNCHANGED <<rows, lock, load>> /\ Spawn(n, t)
      BY <2>4 DEF TickTask, RunNow, table
    <3>2. PICK k \in Slots : pc[n][t][k] = "none" /\ pc' = [pc EXCEPT ![n][t][k] = "start"]
      BY <3>1 DEF Spawn
    <3>3. Executes(m, u) => Executes(m, u)'
      BY <1>1, <3>2, OthersExecute
    <3>4. QED BY <1>1, <3>1, <3>3, OwnedStays
  <2>5. ASSUME NEW k \in Slots, RunStep(n, t, k) PROVE Owned(m, u)'
    <3>1. UNCHANGED <<rows, load>>
      BY <2>5 DEF RunStep, BeginLocal, AcquireLock, SkipRun, FinishRun, RecordRun,
         ReleaseLock, EndRun, table
    <3>2. CASE AcquireLock(n, t, k)
      <4>1. /\ t \in rows /\ lock' = [lock EXCEPT ![t] = [by |-> n, age |-> 0]]
            /\ pc[n][t][k] = "start" /\ pc' = [pc EXCEPT ![n][t][k] = "fn"]
        BY <3>2 DEF AcquireLock, LockFree
      <4>2. CASE u # t
        <5>1. lock'[u] = lock[u] /\ pc'[m][u] = pc[m][u]
          BY <1>1, <4>1, <4>2 DEF TypeOK
        <5>2. QED BY <1>1, <3>1, <5>1 DEF Owned, Executes
      <4>3. CASE u = t /\ m # n
        BY <4>1, <4>3 DEF Owned, TypeOK
      <4>4. CASE u = t /\ m = n
        <5>1. load[m][u] = "done"
          BY <1>1, <4>1, <4>4 DEF Loaded
        <5>2. pc'[m][u][k] = "fn"
          BY <4>1, <4>4 DEF TypeOK
        <5>3. QED BY <3>1, <4>1, <4>4, <5>1, <5>2 DEF Owned, Executes
      <4>5. QED BY <4>2, <4>3, <4>4
    <3>3. CASE ReleaseLock(n, t, k)
      <4>1. /\ pc' = [pc EXCEPT ![n][t][k] = "done"]
            /\ \/ lock' = [lock EXCEPT ![t] = Unlocked]
               \/ lock[t].by # n /\ lock' = lock
        BY <3>3 DEF ReleaseLock
      <4>2. CASE u # t \/ m # n
        <5>1. lock'[u].by \in {lock[u].by, NoNode} /\ pc'[m][u] = pc[m][u]
          BY <1>1, <4>1, <4>2 DEF Unlocked, TypeOK
        <5>2. QED BY <1>1, <3>1, <5>1, OwnedStays DEF Executes
      <4>3. CASE u = t /\ m = n
        BY <4>1, <4>3 DEF Unlocked, Owned, TypeOK
      <4>4. QED BY <4>2, <4>3
    <3>4. CASE BeginLocal(n, t, k) \/ SkipRun(n, t, k) \/ EndRun(n, t, k)
      <4>1. UNCHANGED lock
        BY <3>4 DEF BeginLocal, SkipRun, EndRun, table
      <4>2. PICK s \in {"fn", "done", "none"} : pc' = [pc EXCEPT ![n][t][k] = s]
        BY <3>4 DEF BeginLocal, SkipRun, EndRun
      <4>3. pc[n][t][k] \notin {"fn", "record", "release"}
        BY <3>4 DEF BeginLocal, SkipRun, EndRun
      <4>4. Executes(m, u) => Executes(m, u)'
        BY <1>1, <4>2, <4>3, OthersExecute
      <4>5. QED BY <1>1, <3>1, <4>1, <4>4, OwnedStays
    <3>5. CASE FinishRun(n, t, k) \/ RecordRun(n, t, k)
      <4>1. UNCHANGED lock
        BY <3>5 DEF FinishRun, RecordRun, table
      <4>2. PICK s \in Steps : /\ pc' = [pc EXCEPT ![n][t][k] = s]
                               /\ t \in Global => s \in {"record", "release"}
        BY <3>5 DEF FinishRun, RecordRun, Steps
      <4>3. Executes(m, u) => Executes(m, u)'
        BY <1>1, <4>2 DEF Executes, TypeOK
      <4>4. QED BY <1>1, <3>1, <4>1, <4>3, OwnedStays
    <3>6. QED BY <2>5, <3>2, <3>3, <3>4, <3>5 DEF RunStep
  <2>6. CASE UNCHANGED <<lock, rows, load, pc>>
    BY <1>2, <2>6
  <2>8. CASE SkipMissed(n, t)
    <3>1. UNCHANGED <<lock, rows, pc>>
      BY <2>8 DEF SkipMissed
    <3>2. \/ load'[m][u] = load[m][u]
          \/ m = n /\ u = t /\ load[m][u] = "missed"
      BY <1>1, <2>8 DEF SkipMissed, TypeOK
    <3>3. QED BY <1>1, <3>1, <3>2 DEF Owned, Executes
  <2>7. QED BY <1>5, <2>1, <2>2, <2>3, <2>4, <2>5, <2>6, <2>8 DEF TaskStep, ToggleMemory,
            ToggleRow, table
<1>6. CASE UNCHANGED vars
  BY <1>2, <1>6 DEF vars, table
<1>7. QED BY <1>3, <1>4, <1>5, <1>6 DEF Next

\* While no statement fails, whatever crashes, restarts, overruns and shutdowns
\* there are: a node that has loaded a global task and does not execute it
\* holds no lock of it, so that no peer has to wait until a lock is stale.
THEOREM IdleNodesHoldNothing == Spec => []IdleHoldsNoLock
<1>1. Init => LoadedInv /\ OwnedInv
  <2>1. Init => /\ \A n \in Nodes : ~Serving(n) /\ ~loop[n]
                /\ \A n \in Nodes, t \in Tasks, k \in Slots : pc[n][t][k] = "none"
                /\ \A t \in Tasks : lock[t].by = NoNode
    BY DEF Init, Unlocked, Serving, Stopping
  <2>2. QED BY <2>1 DEF LoadedInv, Loaded, OwnedInv, Owned
<1>2. OwnedInv => IdleHoldsNoLock
  BY DEF OwnedInv, Owned, IdleHoldsNoLock
<1>3. QED BY <1>1, <1>2, InitType, TypeInvariant, LoadedInvariant, OwnedInvariant, PTL
          DEF Spec
=============================================================================
