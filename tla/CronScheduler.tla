--------------------------- MODULE CronScheduler ---------------------------
(***************************************************************************)
(* The schedules of crons.json and the processes that run them: each owner *)
(* of the lease looks at the active schedules of its lanes, fires the ones *)
(* that are due and marks the one-shots it finds too late.  A fire first   *)
(* awaits the conversation it goes to, then puts the prompt in that        *)
(* conversation's queue and records it in the file.                        *)
(*                                                                         *)
(* Every write of the file is a step of its own, and so is every stretch   *)
(* of code between two awaits; loop and record hold what is left of a      *)
(* stretch that writes more than once.  Every schedule asks for a new      *)
(* conversation, the default: the others are the case in which the backend *)
(* answers at once.  A run by hand (runCronTaskNow) goes the same way, and *)
(* leaves the schedule as it is: it changes nothing that is modelled.      *)
(***************************************************************************)
EXTENDS CronLease

CONSTANTS
  OneShots, Recurring,  \* the schedules
  Lane,                 \* [Tasks -> Lanes], from the agent of each
  Jittered,             \* the recurring ones whose jitter is not 0
  LastMinute,           \* the clock stops there
  MissAfter,            \* minutes after which a one-shot is missed: 5
  MaxFires              \* bound: fires of a schedule in flight in one process

Tasks == OneShots \cup Recurring
Minutes == 0 .. LastMinute
DueTimes == 0 .. LastMinute - MissAfter - 1   \* the clock passes them all
Statuses == {"none", "active", "paused", "fired", "missed", "deleted"}

ASSUME LaneAssumption == Lane \in [Tasks -> Lanes]
ASSUME TaskAssumption ==
  OneShots \cap Recurring = {} /\ Jittered \subseteq Recurring
ASSUME BoundAssumption ==
  /\ MissAfter \in Nat /\ LastMinute \in Nat
  /\ OneShots # {} => LastMinute > MissAfter
  /\ MaxFires \in [Tasks -> Nat]

VARIABLES
  minute,  \* the wall clock
  status,  \* of each schedule in the file
  due,     \* scheduled_for of the one-shots
  opening, \* the processes whose scheduler has not had its first tick
  loop,    \* the cached schedules that tick() has still to look at
  seen,    \* lastMinuteKey
  fired,   \* firedThisMinute
  timers,  \* pendingTimers: the recurring schedules that wait for jitter
  fires,   \* the fires that await their conversation, by schedule
  record,  \* the one-shot that is in the queue and not yet recorded
  runs,    \* history: the automatic fires of a one-shot put in a queue
           \* that the process, still alive, keeps in memory
  marked,  \* history: the one-shots that a process marked missed
  lapsed   \* history: the processes that found the lease of their lane lost
           \* when they looked at it last; they go on looking

taskVars == <<minute, status, due, opening, loop, seen, fired, timers, fires,
              record, runs, marked, lapsed>>
vars == <<leaseVars, taskVars>>

Counted == 0 .. 2   \* more than one run is all that matters

TypeOK ==
  /\ LeaseTypeOK
  /\ minute \in Minutes
  /\ status \in [Tasks -> Statuses]
  /\ due \in [OneShots -> DueTimes]
  /\ opening \subseteq Procs
  /\ loop \in [Procs -> SUBSET Tasks]
  /\ seen \in [Procs -> Minutes]
  /\ fired \in [Procs -> SUBSET Tasks]
  /\ timers \in [Procs -> SUBSET Jittered]
  /\ fires \in [Procs -> [Tasks -> Nat]]
  /\ record \in [Procs -> SUBSET OneShots]
  /\ runs \in [Procs -> [OneShots -> Counted]]
  /\ marked \in [Procs -> SUBSET OneShots]
  /\ lapsed \subseteq Procs

Init ==
  /\ LeaseInit
  /\ minute = 0
  /\ status = [t \in Tasks |-> "none"]
  /\ due = [t \in OneShots |-> 0]
  /\ opening = {}
  /\ loop = [p \in Procs |-> {}]
  /\ seen = [p \in Procs |-> 0]
  /\ fired = [p \in Procs |-> {}]
  /\ timers = [p \in Procs |-> {}]
  /\ fires = [p \in Procs |-> [t \in Tasks |-> 0]]
  /\ record = [p \in Procs |-> {}]
  /\ runs = [p \in Procs |-> [t \in OneShots |-> 0]]
  /\ marked = [p \in Procs |-> {}]
  /\ lapsed = {}

fileVars == <<minute, status, due>>
historyVars == <<runs, marked>>

-----------------------------------------------------------------------------
\* No stretch of the process's code is under way.
Idle(p) == Free(p) /\ p \notin opening /\ loop[p] = {} /\ record[p] = {}

Serves(p, t) == Scoped(p) => Scope[p] = Lane[t]

Overdue(t) == t \in OneShots /\ minute > due[t] + MissAfter

\* shouldFireTask; the recurring schedules match every minute.
ShouldFire(t) == t \in OneShots => due[t] <= minute

ActiveTasksOfLane(p) ==  \* the all-owner takes itself for a lane
  {t \in Tasks : status[t] = "active" /\ Scope[p] = Lane[t]}

\* The cached schedules that this scheduler looks at.
ActiveTasks(p) == {t \in Tasks : status[t] = "active" /\ Serves(p, t)}

DelayedAll(t) == TRUE  \* a one-shot waits for its jitter once more

\* A one-shot's jitter is in its due time.
Delayed(t) == t \in Jittered

\* startScheduler makes a new state.
OpenedIf(p) ==
  IF Running(p)' /\ ~Running(p)
    THEN /\ opening' = opening \cup {p}
         /\ seen' = [seen EXCEPT ![p] = minute]
    ELSE UNCHANGED <<opening, seen>>

StartListener(p) ==
  /\ Idle(p) /\ Start(p)
  /\ OpenedIf(p)
  /\ UNCHANGED <<fileVars, historyVars, loop, fired, timers, fires, record, lapsed>>

RetryTimer(p) ==
  /\ Idle(p) /\ Retry(p)
  /\ OpenedIf(p)
  /\ UNCHANGED <<fileVars, historyVars, loop, fired, timers, fires, record, lapsed>>

\* schedulerState = null.
Forgotten(p) ==
  /\ seen' = [seen EXCEPT ![p] = 0]
  /\ fired' = [fired EXCEPT ![p] = {}]
  /\ lapsed' = lapsed \ {p}

StopListener(p) ==
  /\ Idle(p) /\ Stop(p)
  /\ timers' = [timers EXCEPT ![p] = {}]
  /\ Forgotten(p)
  /\ UNCHANGED <<fileVars, historyVars, opening, loop, fires, record>>

\* holdSchedulerLease, of a lane's owner whose row is gone: it keeps its state
\* and goes on trying.
LapsesTimersKept(p) ==  \* leaves the jitter timers
  HoldLost(p) /\ lapsed' = lapsed \cup {p} /\ UNCHANGED timers

Lapses(p) ==
  /\ HoldLost(p)
  /\ timers' = [timers EXCEPT ![p] = {}]
  /\ lapsed' = lapsed \cup {p}

Holds(p) ==
  /\ HoldKept(p) \/ HoldReclaimed(p)
  /\ lapsed' = lapsed \ {p}
  /\ UNCHANGED timers

\* The first tick and those of the interval.
Tick(p) ==
  /\ Idle(p) \/ (p \in opening /\ Free(p))
  /\ Running(p)
  /\ opening' = opening \ {p}
  /\ \/ /\ Holds(p)
        /\ loop' = [loop EXCEPT ![p] = ActiveTasks(p)]
        /\ fired' = [fired EXCEPT ![p] = IF seen[p] = minute THEN @ ELSE {}]
        /\ seen' = [seen EXCEPT ![p] = minute]
     \/ Lapses(p) /\ UNCHANGED <<loop, fired, seen>>
     \/ /\ HoldStopped(p)
        /\ timers' = [timers EXCEPT ![p] = {}]
        /\ Forgotten(p)
        /\ UNCHANGED loop
  /\ UNCHANGED <<alive, on, retry, fileVars, historyVars, fires, record>>

Heartbeat(p) ==
  /\ Idle(p) /\ Running(p) /\ Scoped(p)
  /\ Holds(p) \/ Lapses(p)
  /\ UNCHANGED <<alive, on, retry, fileVars, historyVars, opening, loop, seen, fired,
                 fires, record>>

-----------------------------------------------------------------------------
\* One more fire awaits its conversation, within the bound.
Awaiting(p, t) ==
  fires' = [fires EXCEPT ![p][t] = IF @ < MaxFires[t] THEN @ + 1 ELSE @]

\* doFire, up to the conversation that fireCronTask awaits.
DoFire(p, t) ==
  \/ /\ Running(p) /\ Refreshed(p) /\ Refresh(p)
     /\ IF status[t] = "active" /\ p \in on
          THEN Awaiting(p, t) ELSE UNCHANGED fires
  \/ /\ ~Running(p) \/ ~Refreshed(p) \/ LockTimesOut
     /\ UNCHANGED <<legacy, rows, sched, known, learn, fires>>

MarkMissed(p, t) ==
  /\ status' = [status EXCEPT ![t] = IF @ = "deleted" THEN @ ELSE "missed"]
  /\ marked' = [marked EXCEPT ![p] = @ \cup {t}]

\* One round of the loop of tick().
LookAt(p, t) ==
  /\ Free(p) /\ t \in loop[p]
  /\ loop' = [loop EXCEPT ![p] = @ \ {t}]
  /\ \/ /\ Overdue(t)
        /\ MarkMissed(p, t)
        /\ UNCHANGED <<leaseVars, fired, timers, fires>>
     \/ /\ ~Overdue(t) /\ (t \in fired[p] \/ ~ShouldFire(t))
        /\ UNCHANGED <<leaseVars, status, marked, fired, timers, fires>>
     \/ /\ ~Overdue(t) /\ t \notin fired[p] /\ ShouldFire(t)
        /\ fired' = [fired EXCEPT ![p] = @ \cup {t}]
        /\ IF Delayed(t)
             THEN /\ timers' = [timers EXCEPT ![p] = @ \cup {t}]
                  /\ UNCHANGED <<leaseVars, fires>>
             ELSE /\ DoFire(p, t)
                  /\ UNCHANGED <<alive, on, retry, timers>>
        /\ UNCHANGED <<status, marked>>
  /\ UNCHANGED <<minute, due, opening, seen, record, runs, lapsed>>

JitterTimer(p, t) ==
  /\ Idle(p) /\ t \in timers[p]
  /\ timers' = [timers EXCEPT ![p] = @ \ {t}]
  /\ DoFire(p, t)
  /\ UNCHANGED <<alive, on, retry, fileVars, historyVars, opening, loop, seen, fired,
                 record, lapsed>>

CountedUp(n) == IF n + 1 \in Counted THEN n + 1 ELSE n

\* The prompt is in the queue.  What the record of a recurring fire writes, its
\* counts and dates, is not modelled.
Enqueue(p, t) ==
  IF t \in OneShots
    THEN /\ runs' = [runs EXCEPT ![p][t] = CountedUp(@)]
         /\ record' = [record EXCEPT ![p] = {t}]
    ELSE UNCHANGED <<runs, record>>

CreatedUnchecked(p, t) ==  \* the status is not asked for again
  /\ Idle(p) /\ fires[p][t] > 0
  /\ fires' = [fires EXCEPT ![p][t] = @ - 1]
  /\ Enqueue(p, t) \/ UNCHANGED <<record, runs>>
  /\ UNCHANGED <<leaseVars, fileVars, marked, opening, loop, seen, fired, timers, lapsed>>

CreatedIfUnfired(p, t) ==  \* any one-shot that was not fired will do
  /\ Idle(p) /\ fires[p][t] > 0
  /\ fires' = [fires EXCEPT ![p][t] = @ - 1]
  /\ \/ UNCHANGED <<record, runs>>
     \/ status[t] \notin {"fired", "deleted"} /\ Enqueue(p, t)
  /\ UNCHANGED <<leaseVars, fileVars, marked, opening, loop, seen, fired, timers, lapsed>>

\* The conversation is there and the schedule still active; or the one cannot
\* be had, the other is not, or the queue has no room.
Created(p, t) ==
  /\ Idle(p) /\ fires[p][t] > 0
  /\ fires' = [fires EXCEPT ![p][t] = @ - 1]
  /\ \/ UNCHANGED <<record, runs>>
     \/ status[t] = "active" /\ Enqueue(p, t)
  /\ UNCHANGED <<leaseVars, fileVars, marked, opening, loop, seen, fired, timers, lapsed>>

\* recordTaskQueued, or the failure to record.
Record(p) ==
  /\ Free(p)
  /\ \E t \in record[p] :
       \/ status' = [status EXCEPT ![t] = IF @ = "deleted" THEN @ ELSE "fired"]
       \/ LockTimesOut /\ UNCHANGED status
  /\ record' = [record EXCEPT ![p] = {}]
  /\ UNCHANGED <<leaseVars, minute, due, historyVars, opening, loop, seen, fired, timers,
                 fires, lapsed>>

-----------------------------------------------------------------------------
procVars == <<opening, loop, seen, fired, timers, fires, record, lapsed>>

Add(t) ==
  /\ status[t] = "none"
  /\ status' = [status EXCEPT ![t] = "active"]
  /\ IF t \in OneShots THEN \E m \in DueTimes : due' = [due EXCEPT ![t] = m]
                      ELSE UNCHANGED due
  /\ UNCHANGED <<leaseVars, minute, historyVars, procVars>>

Pause(t) ==
  /\ status[t] = "active"
  /\ status' = [status EXCEPT ![t] = "paused"]
  /\ UNCHANGED <<leaseVars, minute, due, historyVars, procVars>>

\* A one-shot that is past needs a new time.
Resume(t) ==
  /\ status[t] = "paused"
  /\ status' = [status EXCEPT ![t] = "active"]
  /\ IF t \in OneShots
       THEN \E m \in DueTimes : m > minute /\ due' = [due EXCEPT ![t] = m]
       ELSE UNCHANGED due
  /\ UNCHANGED <<leaseVars, minute, historyVars, procVars>>

Delete(t) ==
  /\ status[t] \notin {"none", "deleted"}
  /\ status' = [status EXCEPT ![t] = "deleted"]
  /\ UNCHANGED <<leaseVars, minute, due, historyVars, procVars>>

Clock ==
  /\ minute < LastMinute
  /\ minute' = minute + 1
  /\ UNCHANGED <<leaseVars, status, due, historyVars, procVars>>

\* A process dies, also of a write it cannot make: the tick of the interval
\* does not catch the timeout of the lock.
Crash(p) ==
  /\ Die(p)
  /\ opening' = opening \ {p}
  /\ loop' = [loop EXCEPT ![p] = {}]
  /\ timers' = [timers EXCEPT ![p] = {}]
  /\ fires' = [fires EXCEPT ![p] = [t \in Tasks |-> 0]]
  /\ record' = [record EXCEPT ![p] = {}]
  /\ runs' = [runs EXCEPT ![p] = [t \in OneShots |-> 0]]
  /\ marked' = [marked EXCEPT ![p] = {}]
  /\ Forgotten(p)
  /\ UNCHANGED fileVars

FileLost ==
  /\ Wipe
  /\ status' = [t \in Tasks |-> IF status[t] = "none" THEN "none" ELSE "deleted"]
  /\ UNCHANGED <<minute, due, historyVars, procVars>>

Others ==
  /\ \/ \E p \in Procs : Learn(p)
     \/ Strip
  /\ UNCHANGED taskVars

Scheduling(p) ==
  \/ StartListener(p) \/ RetryTimer(p) \/ StopListener(p)
  \/ Tick(p) \/ Heartbeat(p) \/ Record(p) \/ Crash(p)
  \/ \E t \in Tasks :
       LookAt(p, t) \/ JitterTimer(p, t) \/ Created(p, t)

Next ==
  \/ \E p \in Procs : Scheduling(p)
  \/ \E t \in Tasks : Add(t) \/ Pause(t) \/ Resume(t) \/ Delete(t)
  \/ Clock \/ FileLost
  \/ Others

Spec == Init /\ [][Next]_vars

\* The interval's timer fires, a stretch of code under way goes on, and so
\* does the clock.  Nothing is assumed of the backend.
Code(p) ==
  \/ Tick(p) \/ Record(p)
  \/ \E t \in Tasks : LookAt(p, t)
  \/ Learn(p) /\ UNCHANGED taskVars

Fairness ==
  /\ WF_vars(Clock)
  /\ \A p \in Procs : WF_vars(Code(p))

FairSpec == Spec /\ Fairness

-----------------------------------------------------------------------------
(* However many fires of a one-shot await their conversation in a process,   *)
(* and however often its listener stops and starts meanwhile, the process    *)
(* puts the prompt in a queue once.  (fireCronTask, recordTaskQueued)        *)
OneShotOnce == \A p \in Procs, t \in OneShots : runs[p][t] <= 1

(* A process that ran a one-shot does not report it missed, nor run what it  *)
(* reported.  (fireCronTask, handleMissedOneShot)                            *)
RunOrMissed == \A p \in Procs, t \in OneShots : t \in marked[p] => runs[p][t] = 0

(* While a lane's owner runs, older releases find a live owner in the field  *)
(* they know: when the process whose mark it was dies or stops, or the file  *)
(* is lost, a heartbeat of the owner puts its own there.                     *)
(* (refreshSchedulerLease: "restore a dead tombstone")                       *)
Unmarked == legacy = NoOwner /\ \E p \in Procs : Scoped(p) /\ Owns(p)

TombstoneBack == []<>~Unmarked

(* A jitter timer outlives neither the scheduler that set it nor the lease   *)
(* it was set under: the owner of a lane that finds the lease lost goes on   *)
(* without timers, and sets none before it has the lease again.              *)
(* (clearPendingFireTimers, holdSchedulerLease, stopScheduler)               *)
TimersStopped ==
  \A p \in Procs : timers[p] # {} => Running(p) /\ p \notin lapsed

(* While a scheduler of its lane runs, a one-shot that is due is run or      *)
(* reported missed.  (tick)                                                  *)
DueIsSettled ==
  \A t \in OneShots :
    (status[t] = "active" /\ due[t] <= minute)
      ~> \/ status[t] # "active" \/ due[t] > minute
         \/ \A p \in Procs : Serves(p, t) => ~Running(p)
=============================================================================
