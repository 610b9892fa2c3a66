------------------------- MODULE CronScheduler_proofs -------------------------
(***************************************************************************)
(* Proofs, for any processes and schedules: the schedulers use the lease   *)
(* as CronLease says; a scheduler that stopped leaves no timer; and, as    *)
(* long as the record of a run can be written, a process runs a one-shot   *)
(* once and never both runs it and misses it.                              *)
(***************************************************************************)
EXTENDS CronScheduler, CronLease_proofs

\* What a process of CronScheduler does to the lease, CronLease allows.
LEMMA SchedulingOfLease ==
  ASSUME NEW p \in Procs, Scheduling(p)
  PROVE  [LeaseNext]_leaseVars
<1> USE DEF LeaseNext, leaseVars
<1>0. Idle(p) => Free(p)
  BY DEF Idle
<1>1. StartListener(p) => LeaseNext
  BY DEF StartListener
<1>2. RetryTimer(p) => LeaseNext
  BY DEF RetryTimer
<1>3. StopListener(p) => LeaseNext
  BY DEF StopListener
<1>4. Tick(p) => Hold(p)
  BY <1>0 DEF Tick, Holds, Lapses, Hold
<1>5. Heartbeat(p) => Hold(p)
  BY <1>0 DEF Heartbeat, Holds, Lapses, Hold
<1>6. Record(p) => UNCHANGED leaseVars
  BY DEF Record
<1>7. Crash(p) => LeaseNext
  BY DEF Crash
<1>8. ASSUME NEW t \in Tasks
      PROVE  LookAt(p, t) \/ JitterTimer(p, t) \/ Created(p, t) => Hold(p) \/ UNCHANGED leaseVars
  <2>1. Free(p) /\ DoFire(p, t) /\ UNCHANGED <<alive, on, retry>> => Hold(p) \/ UNCHANGED leaseVars
    BY DEF DoFire, Hold, HoldKept
  <2>2. LookAt(p, t) => Hold(p) \/ UNCHANGED leaseVars
    BY <2>1 DEF LookAt
  <2>3. JitterTimer(p, t) => Hold(p) \/ UNCHANGED leaseVars
    BY <2>1, <1>0 DEF JitterTimer
  <2>4. Created(p, t) => UNCHANGED leaseVars
    BY DEF Created
  <2>5. QED
    BY <2>2, <2>3, <2>4
<1>9. QED
  BY <1>1, <1>2, <1>3, <1>4, <1>5, <1>6, <1>7, <1>8 DEF Scheduling

LEMMA NextOfLease == [Next]_vars => [LeaseNext]_leaseVars
<1>1. UNCHANGED vars => UNCHANGED leaseVars
  BY DEF vars, leaseVars
<1>2. (\E t \in Tasks : Add(t) \/ Pause(t) \/ Resume(t) \/ Delete(t)) => UNCHANGED leaseVars
  BY DEF Add, Pause, Resume, Delete
<1>3. Clock => UNCHANGED leaseVars
  BY DEF Clock
<1>4. FileLost \/ Others => LeaseNext
  BY DEF FileLost, Others, LeaseNext
<1>5. QED
  BY <1>1, <1>2, <1>3, <1>4, SchedulingOfLease DEF Next

(* The schedulers use the lease as CronLease describes it: what is proved of *)
(* the lease holds of them.  (tick, startScheduler, stopScheduler)           *)
THEOREM SchedulersLease == Spec => LeaseSpec
<1>1. Init => LeaseInit
  BY DEF Init
<1>2. QED
  BY <1>1, NextOfLease, PTL DEF Spec, LeaseSpec

(* No schedule has two schedulers, also while they fire, miss, retry and     *)
(* crash.  (tick, fireCronTask)                                              *)
THEOREM SchedulersExclude == ~TornLearn => (Spec => []LaneExclusive)
<1> SUFFICES ASSUME ~TornLearn
             PROVE  Spec => []LaneExclusive
  OBVIOUS
<1>1. LeaseSpec => []LaneExclusive
  BY LanesExclude
<1>2. QED
  BY <1>1, SchedulersLease, PTL

-----------------------------------------------------------------------------
USE DEF procVars, fileVars, historyVars, leaseVars

LEMMA OpenedTypes ==
  ASSUME TypeOK, NEW p \in Procs, OpenedIf(p)
  PROVE  opening' \subseteq Procs /\ seen' \in [Procs -> Minutes]
BY DEF OpenedIf, TypeOK

LEMMA ForgottenTypes ==
  ASSUME TypeOK, NEW p \in Procs, Forgotten(p)
  PROVE  /\ seen' \in [Procs -> Minutes]
         /\ fired' \in [Procs -> SUBSET Tasks]
         /\ lapsed' \subseteq Procs
BY BoundAssumption DEF Forgotten, TypeOK, Minutes

LEMMA FireTypes ==
  ASSUME TypeOK, NEW p \in Procs, NEW t \in Tasks, DoFire(p, t)
  PROVE  fires' \in [Procs -> [Tasks -> Nat]]
<1>1. CASE UNCHANGED fires
  BY <1>1 DEF TypeOK
<1>2. CASE Awaiting(p, t)
  BY <1>2 DEF Awaiting, TypeOK
<1>3. QED
  BY <1>1, <1>2 DEF DoFire

LEMMA LookFires ==
  ASSUME NEW p \in Procs, NEW t \in Tasks, LookAt(p, t)
  PROVE  fired' = fired \/ fired' = [fired EXCEPT ![p] = @ \cup {t}]
BY Zenon DEF LookAt

\* The types of what is not the lease's.
TasksOK ==
  /\ minute \in Minutes
  /\ status \in [Tasks -> Statuses]
  /\ due \in [OneShots -> DueTimes]
  /\ opening \subseteq Procs
  /\ loop \in [Procs -> SUBSET Tasks]
  /\ seen \in [Procs -> Minutes]
  /\ fired \in [Procs -> SUBSET Tasks]
  /\ timers \in [Procs -> SUBSET Jittered]
  /\ fires \in [Procs -> [Tasks -> Nat]]
  /\ record \in [Procs -> SUBSET OneShots]
  /\ runs \in [Procs -> [OneShots -> Counted]]
  /\ marked \in [Procs -> SUBSET OneShots]
  /\ lapsed \subseteq Procs

LEMMA TypeParts == TypeOK <=> LeaseTypeOK /\ TasksOK
BY DEF TypeOK, TasksOK

LEMMA SchedulingTypes ==
  ASSUME TypeOK, NEW p \in Procs, Scheduling(p)
  PROVE  TasksOK'
<1> USE DEF TypeOK, TasksOK
<1>1. StartListener(p) \/ RetryTimer(p) => TasksOK'
  BY OpenedTypes DEF StartListener, RetryTimer
<1>2. StopListener(p) => TasksOK'
  BY ForgottenTypes DEF StopListener
<1>3. Tick(p) => TasksOK'
  <2>1. ActiveTasks(p) \subseteq Tasks
    BY DEF ActiveTasks
  <2>2. Tick(p) => /\ loop' \in [Procs -> SUBSET Tasks]
                   /\ timers' \in [Procs -> SUBSET Jittered]
                   /\ lapsed' \subseteq Procs
    <3>1. Holds(p) => lapsed' \subseteq Procs /\ UNCHANGED timers
      BY DEF Holds
    <3>2. Lapses(p) => lapsed' \subseteq Procs /\ timers' = [timers EXCEPT ![p] = {}]
      BY DEF Lapses
    <3>3. [timers EXCEPT ![p] = {}] \in [Procs -> SUBSET Jittered]
      OBVIOUS
    <3>4. Tick(p) => loop' = loop \/ loop' = [loop EXCEPT ![p] = ActiveTasks(p)]
      BY DEF Tick
    <3>5. Tick(p) => timers' = timers \/ timers' = [timers EXCEPT ![p] = {}]
      BY <3>1, <3>2 DEF Tick
    <3>6. Tick(p) => lapsed' \subseteq Procs
      BY <3>1, <3>2, ForgottenTypes DEF Tick
    <3>7. [loop EXCEPT ![p] = ActiveTasks(p)] \in [Procs -> SUBSET Tasks]
      BY <2>1
    <3>8. Tick(p) => loop' \in [Procs -> SUBSET Tasks]
      BY <3>4, <3>7
    <3>9. Tick(p) => timers' \in [Procs -> SUBSET Jittered]
      BY <3>3, <3>5
    <3>10. QED
      BY <3>6, <3>8, <3>9
  <2>3. Tick(p) => fired' \in [Procs -> SUBSET Tasks] /\ seen' \in [Procs -> Minutes]
    <3>1. CASE Forgotten(p)
      BY <3>1, ForgottenTypes
    <3>2. CASE UNCHANGED <<fired, seen>>
      BY <3>2
    <3>3. CASE /\ fired' = [fired EXCEPT ![p] = IF seen[p] = minute THEN @ ELSE {}]
               /\ seen' = [seen EXCEPT ![p] = minute]
      BY <3>3
    <3>4. QED
      BY <3>1, <3>2, <3>3 DEF Tick
  <2>4. QED
    BY <2>2, <2>3 DEF Tick
<1>4. Heartbeat(p) => TasksOK'
  BY DEF Heartbeat, Holds, Lapses
<1>5. Record(p) => TasksOK'
  <2>1. Record(p) => status' \in [Tasks -> Statuses]
    BY DEF Record, Statuses
  <2>2. QED
    BY <2>1 DEF Record
<1>6. Crash(p) => TasksOK'
  BY ForgottenTypes DEF Crash, Counted
<1>7. ASSUME NEW t \in Tasks
      PROVE  LookAt(p, t) \/ JitterTimer(p, t) \/ Created(p, t) => TasksOK'
  <2>1. LookAt(p, t) => TasksOK'
    <3>1. MarkMissed(p, t) /\ Overdue(t) => status' \in [Tasks -> Statuses]
                                            /\ marked' \in [Procs -> SUBSET OneShots]
      BY DEF MarkMissed, Overdue, Statuses
    <3>2. Delayed(t) => t \in Jittered
      BY DEF Delayed
    <3>3. LookAt(p, t) => /\ status' \in [Tasks -> Statuses]
                          /\ marked' \in [Procs -> SUBSET OneShots]
      BY <3>1 DEF LookAt
    <3>4. LookAt(p, t) => timers' \in [Procs -> SUBSET Jittered]
      BY <3>2 DEF LookAt
    <3>5. LookAt(p, t) => fires' \in [Procs -> [Tasks -> Nat]]
      BY FireTypes DEF LookAt
    <3>6. LookAt(p, t) => fired' \in [Procs -> SUBSET Tasks] /\ loop' \in [Procs -> SUBSET Tasks]
      <4>1. LookAt(p, t) => fired' = fired \/ fired' = [fired EXCEPT ![p] = @ \cup {t}]
        BY LookFires
      <4>2. LookAt(p, t) => loop' = [loop EXCEPT ![p] = @ \ {t}]
        BY DEF LookAt
      <4>3. fired \in [Procs -> SUBSET Tasks] /\ loop \in [Procs -> SUBSET Tasks]
        OBVIOUS
      <4>4. [fired EXCEPT ![p] = @ \cup {t}] \in [Procs -> SUBSET Tasks]
        BY <4>3
      <4>5. [loop EXCEPT ![p] = @ \ {t}] \in [Procs -> SUBSET Tasks]
        BY <4>3
      <4>6. QED
        BY <4>1, <4>2, <4>3, <4>4, <4>5
    <3>7. QED
      BY <3>3, <3>4, <3>5, <3>6 DEF LookAt
  <2>2. JitterTimer(p, t) => TasksOK'
    BY FireTypes DEF JitterTimer
  <2>3. Created(p, t) => TasksOK'
    <3>0. \A n \in Counted : CountedUp(n) \in Counted
      BY DEF CountedUp
    <3>1. Enqueue(p, t) => record' \in [Procs -> SUBSET OneShots]
      <4>1. CASE t \in OneShots
        BY <4>1 DEF Enqueue
      <4>2. CASE t \notin OneShots
        BY <4>2 DEF Enqueue
      <4>3. QED
        BY <4>1, <4>2
    <3>2. Enqueue(p, t) => runs' \in [Procs -> [OneShots -> Counted]]
      <4>1. CASE t \in OneShots
        <5>1. CountedUp(runs[p][t]) \in Counted
          BY <4>1, <3>0
        <5>2. Enqueue(p, t) => runs' = [runs EXCEPT ![p] = [runs[p] EXCEPT ![t] = CountedUp(runs[p][t])]]
          BY <4>1 DEF Enqueue
        <5>3. [runs[p] EXCEPT ![t] = CountedUp(runs[p][t])] \in [OneShots -> Counted]
          BY <4>1, <5>1
        <5>4. QED
          BY <5>2, <5>3
      <4>2. CASE t \notin OneShots
        BY <4>2 DEF Enqueue
      <4>3. QED
        BY <4>1, <4>2
    <3>3. Created(p, t) => fires' \in [Procs -> [Tasks -> Nat]]
      BY DEF Created
    <3>4. QED
      BY <3>1, <3>2, <3>3 DEF Created
  <2>4. QED
    BY <2>1, <2>2, <2>3
<1>8. QED
  BY <1>1, <1>2, <1>3, <1>4, <1>5, <1>6, <1>7 DEF Scheduling

LEMMA UserTypes ==
  ASSUME TypeOK, NEW t \in Tasks, Add(t) \/ Pause(t) \/ Resume(t) \/ Delete(t)
  PROVE  TasksOK'
<1> USE DEF TypeOK, TasksOK
<1>1. status' \in [Tasks -> Statuses]
  BY DEF Add, Pause, Resume, Delete, Statuses
<1>2. due' \in [OneShots -> DueTimes]
  BY DEF Add, Pause, Resume, Delete
<1>3. QED
  BY <1>1, <1>2 DEF Add, Pause, Resume, Delete

LEMMA TypeStepped == TypeOK /\ [Next]_vars => TypeOK'
<1> SUFFICES ASSUME TypeOK, [Next]_vars
             PROVE  TypeOK'
  OBVIOUS
<1>1. LeaseTypeOK'
  BY NextOfLease, TypeStep, TypeParts
<1>2. TasksOK'
  <2>1. CASE UNCHANGED vars
    BY <2>1 DEF vars, taskVars, TypeOK, TasksOK
  <2>2. CASE Clock
    BY <2>2, BoundAssumption DEF Clock, Minutes, TypeOK, TasksOK
  <2>3. CASE FileLost
    BY <2>3 DEF FileLost, Statuses, TypeOK, TasksOK
  <2>4. CASE Others
    BY <2>4 DEF Others, taskVars, TypeOK, TasksOK
  <2>5. QED
    BY <2>1, <2>2, <2>3, <2>4, SchedulingTypes, UserTypes DEF Next
<1>3. QED
  BY <1>1, <1>2 DEF TypeOK, TasksOK

LEMMA TypeInit == Init => TypeOK
<1> SUFFICES ASSUME Init
             PROVE  TypeOK
  OBVIOUS
<1>1. LeaseTypeOK
  BY InvInit DEF Init, Inv
<1>2. 0 \in Minutes /\ (OneShots # {} => 0 \in DueTimes) /\ 0 \in Counted
  BY BoundAssumption DEF Minutes, DueTimes, Counted
<1>3. QED
  BY <1>1, <1>2 DEF Init, TypeOK, Statuses

(* The variables have their types.  (tick, startScheduler)                   *)
THEOREM SchedulersTyped == Spec => []TypeOK
BY TypeInit, TypeStepped, PTL DEF Spec

-----------------------------------------------------------------------------
\* The file will not take the one-shot for one that has still to run.
Settled(t) == status[t] \notin {"none", "active", "paused"}

\* A stretch of code is under way in a running scheduler that has its lease, one
\* at a time.
OneStretch ==
  \A p \in Procs :
    /\ p \in opening => loop[p] = {} /\ record[p] = {}
    /\ loop[p] # {} => Running(p) /\ p \notin lapsed /\ record[p] = {}
    /\ \A t, u \in record[p] : t = u

\* Who ran a one-shot has settled it, or is about to; who marked it has too.
RunsSettle ==
  \A p \in Procs, t \in OneShots :
    /\ runs[p][t] > 0 => t \in record[p] \/ Settled(t)
    /\ t \in loop[p] => runs[p][t] = 0
    /\ t \in marked[p] => Settled(t) /\ runs[p][t] = 0
    /\ runs[p][t] <= 1

LEMMA RunsCount ==
  ASSUME TypeOK, NEW p \in Procs, NEW t \in OneShots
  PROVE  runs[p][t] = 0 \/ runs[p][t] > 0
<1>1. runs[p][t] \in Counted
  BY DEF TypeOK
<1>2. QED
  BY <1>1 DEF Counted

TaskInv == OneStretch /\ TimersStopped /\ (~LockTimesOut => RunsSettle)

LEMMA SameKeeps ==
  ASSUME TypeOK, TaskInv, UNCHANGED <<status, opening, loop, timers, record, runs, marked, lapsed>>,
         \A p \in Procs : Running(p) => Running(p)'
  PROVE  TaskInv'
BY DEF TaskInv, OneStretch, TimersStopped, RunsSettle, Settled

\* Only a stop, or the death of the process, ends a scheduler.
LEMMA ClaimRuns ==
  ASSUME TypeOK, NEW p \in Procs, Claim(p)
  PROVE  \A q \in Procs : Running(q) => Running(q)'
<1>1. PICK n \in Nums : sched' = [sched EXCEPT ![p] = <<p, n>>]
  BY DEF Claim
<1>2. <<p, n>> # NoOwner
  BY NoOwnerAssumption DEF Tokens
<1>3. QED
  BY <1>1, <1>2 DEF Running, TypeOK, LeaseTypeOK

LEMMA HoldRuns ==
  ASSUME TypeOK, NEW p \in Procs, HoldKept(p) \/ HoldReclaimed(p) \/ HoldLost(p)
  PROVE  \A q \in Procs : Running(q) => Running(q)'
<1>1. CASE HoldReclaimed(p)
  BY <1>1, ClaimRuns DEF HoldReclaimed
<1>2. CASE HoldKept(p) \/ HoldLost(p)
  BY <1>2 DEF HoldKept, Refresh, HoldLost, Running
<1>3. QED
  BY <1>1, <1>2

LEMMA AttemptRuns ==
  ASSUME TypeOK, NEW p \in Procs, NEW n, NEW timers_, Attempt(p, n, timers_)
  PROVE  \A q \in Procs : Running(q) => Running(q)'
BY ClaimRuns DEF Attempt, Running

LEMMA FireRuns ==
  ASSUME TypeOK, NEW p \in Procs, NEW t \in Tasks, DoFire(p, t)
  PROVE  UNCHANGED sched
BY DEF DoFire, Refresh

LEMMA OpenKeeps ==
  ASSUME TypeOK, TaskInv, NEW p \in Procs, StartListener(p) \/ RetryTimer(p)
  PROVE  TaskInv'
<1>1. \A q \in Procs : Running(q) => Running(q)'
  BY AttemptRuns DEF StartListener, RetryTimer, Start, Retry
<1>2. opening' \subseteq opening \cup {p}
  BY DEF StartListener, RetryTimer, OpenedIf
<1>3. QED
  BY <1>1, <1>2 DEF StartListener, RetryTimer, Idle, TaskInv, OneStretch, TimersStopped,
     RunsSettle, Settled

LEMMA StopKeepsTasks ==
  ASSUME TypeOK, TaskInv, NEW p \in Procs, StopListener(p)
  PROVE  TaskInv'
<1>1. \A q \in Procs \ {p} : Running(q) => Running(q)'
  BY DEF StopListener, Stop, StopScheduler, Running, TypeOK, LeaseTypeOK
<1>2. QED
  BY <1>1 DEF StopListener, Forgotten, Idle, TaskInv, OneStretch, TimersStopped, RunsSettle, Settled, TypeOK

LEMMA TickKeeps ==
  ASSUME TypeOK, TaskInv, NEW p \in Procs, Tick(p)
  PROVE  TaskInv'
<1> USE DEF TaskInv, OneStretch, TimersStopped, RunsSettle, Settled, TypeOK
<1>0. loop[p] = {} /\ record[p] = {} /\ Running(p)
  BY DEF Tick, Idle
<1>1. CASE Holds(p) /\ loop' = [loop EXCEPT ![p] = ActiveTasks(p)]
  <2>1. \A q \in Procs : Running(q) => Running(q)'
    BY <1>1, HoldRuns DEF Holds
  <2>2. ~LockTimesOut => \A t \in OneShots : t \in ActiveTasks(p) => runs[p][t] = 0
    BY <1>0, RunsCount DEF ActiveTasks
  <2>3. QED
    BY <1>0, <1>1, <2>1, <2>2 DEF Tick, Holds
<1>2. CASE Lapses(p) /\ UNCHANGED loop
  <2>1. \A q \in Procs : Running(q) => Running(q)'
    BY <1>2, HoldRuns DEF Lapses
  <2>2. QED
    BY <1>0, <1>2, <2>1 DEF Tick, Lapses
<1>3. CASE HoldStopped(p) /\ timers' = [timers EXCEPT ![p] = {}] /\ Forgotten(p) /\ UNCHANGED loop
  <2>1. \A q \in Procs \ {p} : Running(q) => Running(q)'
    BY <1>3 DEF HoldStopped, StopScheduler, Running, LeaseTypeOK
  <2>2. QED
    BY <1>0, <1>3, <2>1 DEF Tick, Forgotten
<1>4. QED
  BY <1>1, <1>2, <1>3 DEF Tick

LEMMA HeartbeatKeeps ==
  ASSUME TypeOK, TaskInv, NEW p \in Procs, Heartbeat(p)
  PROVE  TaskInv'
<1>1. \A q \in Procs : Running(q) => Running(q)'
  BY HoldRuns DEF Heartbeat, Holds, Lapses
<1>2. loop[p] = {} /\ UNCHANGED <<status, opening, loop, record, runs, marked>>
  BY DEF Heartbeat, Idle
<1>3. OneStretch'
  <2>1. \A q \in Procs \ {p} : q \notin lapsed => q \notin lapsed'
    BY DEF Heartbeat, Holds, Lapses
  <2>2. QED
    BY <1>1, <1>2, <2>1 DEF TaskInv, OneStretch
<1>4. TimersStopped'
  <2>1. CASE Holds(p)
    BY <1>1, <2>1 DEF Holds, TaskInv, TimersStopped
  <2>2. CASE Lapses(p)
    <3>1. timers' = [timers EXCEPT ![p] = {}] /\ lapsed' = lapsed \cup {p}
      BY <2>2 DEF Lapses
    <3>2. timers \in [Procs -> SUBSET Jittered]
      BY DEF TypeOK
    <3>3. QED
      BY <1>1, <3>1, <3>2 DEF TaskInv, TimersStopped
  <2>3. QED
    BY <2>1, <2>2 DEF Heartbeat
<1>5. ~LockTimesOut => RunsSettle'
  BY <1>2 DEF TaskInv, RunsSettle, Settled
<1>6. QED
  BY <1>3, <1>4, <1>5 DEF TaskInv

LEMMA LookKeeps ==
  ASSUME TypeOK, TaskInv, NEW p \in Procs, NEW t \in Tasks, LookAt(p, t)
  PROVE  TaskInv'
<1> USE DEF TaskInv, OneStretch, TimersStopped, RunsSettle, Settled, TypeOK
<1>1. Running(p) /\ p \notin lapsed /\ record[p] = {} /\ p \notin opening
  BY DEF LookAt
<1>2. UNCHANGED sched
  BY FireRuns DEF LookAt
<1>3. CASE Overdue(t) /\ MarkMissed(p, t) /\ UNCHANGED timers
  <2>1. t \in OneShots /\ (~LockTimesOut => runs[p][t] = 0)
    BY <1>3 DEF LookAt, Overdue
  <2>2. Settled(t)' /\ \A u \in Tasks : Settled(u) => Settled(u)'
    BY <1>3 DEF MarkMissed
  <2>3. QED
    BY <1>1, <1>2, <1>3, <2>1, <2>2 DEF LookAt, MarkMissed, Running, Tasks
<1>4. CASE UNCHANGED <<status, marked>>
  <2>1. \A q \in Procs : timers'[q] # {} => timers[q] # {} \/ q = p
    BY DEF LookAt
  <2>2. \A q \in Procs : loop'[q] \subseteq loop[q]
    BY DEF LookAt
  <2>3. UNCHANGED <<sched, status, marked, opening, record, runs, lapsed>>
    BY <1>2, <1>4 DEF LookAt
  <2>4. OneStretch'
    BY <1>1, <2>2, <2>3 DEF Running
  <2>5. TimersStopped'
    BY <1>1, <2>1, <2>3 DEF Running
  <2>6. ~LockTimesOut => RunsSettle'
    BY <2>2, <2>3
  <2>7. QED
    BY <2>4, <2>5, <2>6
<1>5. QED
  BY <1>3, <1>4 DEF LookAt

LEMMA JitterKeeps ==
  ASSUME TypeOK, TaskInv, NEW p \in Procs, NEW t \in Tasks, JitterTimer(p, t)
  PROVE  TaskInv'
<1>1. UNCHANGED sched
  BY FireRuns DEF JitterTimer
<1>2. QED
  BY <1>1 DEF JitterTimer, TaskInv, OneStretch, TimersStopped, RunsSettle, Settled, TypeOK,
     Running

LEMMA CreatedKeeps ==
  ASSUME TypeOK, TaskInv, NEW p \in Procs, NEW t \in Tasks, Created(p, t)
  PROVE  TaskInv'
<1> USE DEF TaskInv, OneStretch, TimersStopped, RunsSettle, Settled, TypeOK
<1>1. p \notin opening /\ loop[p] = {} /\ record[p] = {}
  BY DEF Created, Idle
<1>2. \A q \in Procs : Running(q)' = Running(q)
  BY DEF Created, Running
<1>3. CASE UNCHANGED <<record, runs>>
  BY <1>1, <1>2, <1>3 DEF Created
<1>4. CASE t \in OneShots /\ status[t] = "active" /\ Enqueue(p, t)
  <2>1. record' = [record EXCEPT ![p] = {t}]
    BY <1>4 DEF Enqueue
  <2>2. OneStretch' /\ TimersStopped'
    BY <1>1, <1>2, <2>1 DEF Created
  <2>3. ASSUME ~LockTimesOut PROVE RunsSettle'
    <3>1. runs[p][t] = 0 /\ t \notin marked[p]
      BY <1>1, <1>4, <2>3, RunsCount
    <3>2. runs' = [runs EXCEPT ![p][t] = 1]
      BY <1>4, <3>1 DEF Enqueue, CountedUp, Counted
    <3>3. QED
      BY <1>1, <1>4, <2>1, <2>3, <3>1, <3>2 DEF Created
  <2>4. QED
    BY <2>2, <2>3
<1>5. QED
  BY <1>3, <1>4 DEF Created, Enqueue

LEMMA RecordKeeps ==
  ASSUME TypeOK, TaskInv, NEW p \in Procs, Record(p)
  PROVE  TaskInv'
<1> USE DEF TaskInv, OneStretch, TimersStopped, RunsSettle, Settled, TypeOK
<1>1. OneStretch' /\ TimersStopped'
  BY DEF Record, Running
<1>2. ASSUME ~LockTimesOut PROVE RunsSettle'
  <2>1. PICK t \in record[p] :
          status' = [status EXCEPT ![t] = IF @ = "deleted" THEN @ ELSE "fired"]
    BY <1>2 DEF Record
  <2>2. t \in OneShots /\ t \in Tasks /\ Settled(t)' /\ \A u \in Tasks : Settled(u) => Settled(u)'
    BY <2>1 DEF Tasks
  <2>3. QED
    BY <1>2, <2>2 DEF Record, Tasks
<1>3. QED
  BY <1>1, <1>2

LEMMA CrashKeeps ==
  ASSUME TypeOK, TaskInv, NEW p \in Procs, Crash(p)
  PROVE  TaskInv'
<1>1. \A q \in Procs \ {p} : Running(q)' = Running(q)
  BY DEF Crash, Die, Running, TypeOK, LeaseTypeOK
<1>2. QED
  BY <1>1 DEF Crash, Forgotten, TaskInv, OneStretch, TimersStopped, RunsSettle, Settled, TypeOK

\* No hand of a user makes a settled schedule active again.
LEMMA UserKeeps ==
  ASSUME TypeOK, TaskInv, UNCHANGED <<procVars, historyVars, leaseVars>>,
         \A t \in Tasks : Settled(t) => Settled(t)'
  PROVE  TaskInv'
BY DEF TaskInv, OneStretch, TimersStopped, RunsSettle, Running, Tasks

LEMMA TaskInvStep ==
  ASSUME TypeOK, TaskInv, [Next]_vars
  PROVE  TaskInv'
<1>1. CASE UNCHANGED vars
  BY <1>1, UserKeeps DEF vars, taskVars, Settled
<1>2. ASSUME NEW p \in Procs, Scheduling(p)
      PROVE  TaskInv'
  BY <1>2, OpenKeeps, StopKeepsTasks, TickKeeps, HeartbeatKeeps, RecordKeeps, CrashKeeps,
     LookKeeps, JitterKeeps, CreatedKeeps DEF Scheduling
<1>3. ASSUME NEW t \in Tasks, Add(t) \/ Pause(t) \/ Resume(t) \/ Delete(t)
      PROVE  TaskInv'
  BY <1>3, UserKeeps DEF Add, Pause, Resume, Delete, Settled, TypeOK
<1>4. CASE Clock
  BY <1>4, UserKeeps DEF Clock, Settled
<1>5. CASE FileLost
  <2>1. \A p \in Procs : Running(p)' = Running(p)
    BY <1>5 DEF FileLost, Wipe, Running
  <2>2. \A t \in Tasks : Settled(t) => Settled(t)'
    BY <1>5 DEF FileLost, Settled
  <2>3. QED
    BY <1>5, <2>1, <2>2 DEF FileLost, TaskInv, OneStretch, TimersStopped, RunsSettle, Tasks
<1>6. CASE Others
  <2>1. UNCHANGED <<taskVars, sched>>
    BY <1>6 DEF Others, Learn, Strip
  <2>2. QED
    BY <2>1, SameKeeps DEF taskVars, Running
<1>7. QED
  BY <1>1, <1>2, <1>3, <1>4, <1>5, <1>6 DEF Next

LEMMA TaskInvInit == Init => TaskInv
BY DEF Init, TaskInv, OneStretch, TimersStopped, RunsSettle

LEMMA TaskInvHolds == Spec => [](TypeOK /\ TaskInv)
<1>1. TypeOK /\ TaskInv /\ [Next]_vars => (TypeOK /\ TaskInv)'
  BY TypeStepped, TaskInvStep
<1>2. QED
  BY <1>1, TypeInit, TaskInvInit, PTL DEF Spec

(* A scheduler that stopped leaves no jitter timer behind, and neither does  *)
(* a lane's owner whose lease was lost when it looked last: it sets none     *)
(* before it has the lease again.  (clearPendingFireTimers,                  *)
(* holdSchedulerLease)                                                       *)
THEOREM TimersAreStopped == Spec => []TimersStopped
<1>1. TypeOK /\ TaskInv => TimersStopped
  BY DEF TaskInv
<1>2. QED
  BY <1>1, TaskInvHolds, PTL

(* As long as the lock is had in time, a process puts the prompt of a        *)
(* one-shot in a queue once.  (fireCronTask, recordTaskQueued)               *)
THEOREM OneShotsOnce == ~LockTimesOut => (Spec => []OneShotOnce)
<1> SUFFICES ASSUME ~LockTimesOut
             PROVE  Spec => []OneShotOnce
  OBVIOUS
<1>1. TypeOK /\ TaskInv => OneShotOnce
  BY DEF TaskInv, RunsSettle, OneShotOnce
<1>2. QED
  BY <1>1, TaskInvHolds, PTL

(* And it reports no one-shot missed that it ran, nor runs one that it       *)
(* reported.  (handleMissedOneShot)                                          *)
THEOREM RunsOrMisses == ~LockTimesOut => (Spec => []RunOrMissed)
<1> SUFFICES ASSUME ~LockTimesOut
             PROVE  Spec => []RunOrMissed
  OBVIOUS
<1>1. TypeOK /\ TaskInv => RunOrMissed
  BY DEF TaskInv, RunsSettle, RunOrMissed
<1>2. QED
  BY <1>1, TaskInvHolds, PTL
=============================================================================
