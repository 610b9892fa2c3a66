----------------------------- MODULE CronLease -----------------------------
(***************************************************************************)
(* The lease under which a process runs the schedules of crons.json.  A    *)
(* scheduler serves every schedule (scope "all") or one lane, "local" or   *)
(* "cloud".  The file has a field for the all-owner, scheduler_owner, and  *)
(* a row per lane, scheduler_owners.  Releases of the program from before  *)
(* the lanes (scope "old") know the first only, and drop the rows whenever *)
(* they write the file; a lane's owner therefore leaves a mark of its own  *)
(* in scheduler_owner, the tombstone, and restores it and its row.         *)
(*                                                                         *)
(* Every operation under the lock of the file is one step.  The record of  *)
(* a dead process counts nowhere in the code, so it is removed with it.    *)
(***************************************************************************)
EXTENDS Naturals

CONSTANTS
  Procs,        \* a process that starts anew is another one
  Scope,        \* [Procs -> Scopes], from the environment of each process
  Nums,         \* tells apart the tokens of one process
  NoOwner,
  MaxRetries,   \* MAX_LEASE_RETRIES
  Strips,       \* whether older releases rewrite the file, or it is lost
  LockTimesOut, \* whether the lock of the file may not be had in time
  TornLearn     \* whether others write between a claim and the read of the
                \* tombstone after it

Lanes == {"local", "cloud"}
Scopes == Lanes \cup {"all", "old"}
Tokens == Procs \X Nums

ASSUME ScopeAssumption == Scope \in [Procs -> Scopes]
ASSUME NoOwnerAssumption == NoOwner \notin Tokens
ASSUME RetryAssumption == MaxRetries \in Nat
ASSUME FlagAssumption == {Strips, LockTimesOut, TornLearn} \subseteq BOOLEAN

VARIABLES
  alive,   \* the processes that run
  legacy,  \* scheduler_owner
  rows,    \* scheduler_owners
  sched,   \* the token of each process's schedulerState, or NoOwner: null
  known,   \* its tombstoneToken
  learn,   \* the processes between a claim and the read of the tombstone
  on,      \* the processes whose listener runs
  retry    \* the retry timers of startScheduler, by their count

leaseVars == <<alive, legacy, rows, sched, known, learn, on, retry>>

Holders == Tokens \cup {NoOwner}
Retries == 1 .. MaxRetries

LeaseTypeOK ==
  /\ alive \subseteq Procs
  /\ legacy \in Holders
  /\ rows \in [Lanes -> Holders]
  /\ sched \in [Procs -> Holders]
  /\ known \in [Procs -> Holders]
  /\ learn \subseteq Procs
  /\ on \subseteq Procs
  /\ retry \in [Procs -> SUBSET Retries]

LeaseInit ==
  /\ alive = Procs
  /\ legacy = NoOwner
  /\ rows = [l \in Lanes |-> NoOwner]
  /\ sched = [p \in Procs |-> NoOwner]
  /\ known = [p \in Procs |-> NoOwner]
  /\ learn = {}
  /\ on = {}
  /\ retry = [p \in Procs |-> {}]

-----------------------------------------------------------------------------
Scoped(p) == Scope[p] \in Lanes

Running(p) == sched[p] # NoOwner

Row(p) == IF Scoped(p) THEN rows[Scope[p]] ELSE legacy

\* ownerMatches, for the field of the process's scope.
Owns(p) == Running(p) /\ Row(p) = sched[p]

IsOf(owner, p) == \E n \in Nums : owner = <<p, n>>

NoRows == \A l \in Lanes : rows[l] = NoOwner

\* The process's own code may run now.
Free(p) == p \in alive /\ p \notin learn /\ (TornLearn \/ learn = {})

InUse == {legacy} \cup {rows[l] : l \in Lanes}
           \cup {sched[p] : p \in Procs} \cup {known[p] : p \in Procs}

\* Tokens are random: a new one is none that anybody remembers.
FreshNum(p) == CHOOSE n \in Nums : <<p, n>> \notin InUse

CanClaim(p) ==
  CASE Scope[p] = "all" -> NoRows /\ (legacy = NoOwner \/ IsOf(legacy, p))
    [] Scope[p] = "old" -> legacy = NoOwner \/ IsOf(legacy, p)
    [] OTHER -> /\ NoRows => legacy = NoOwner
                /\ Row(p) = NoOwner \/ IsOf(Row(p), p)

Claim(p) ==
  /\ CanClaim(p)
  /\ \E n \in Nums :
       /\ <<p, n>> \notin InUse
       /\ n = FreshNum(p)
       /\ sched' = [sched EXCEPT ![p] = <<p, n>>]
       /\ IF Scoped(p)
            THEN /\ rows' = [rows EXCEPT ![Scope[p]] = <<p, n>>]
                 /\ legacy' = IF legacy = NoOwner THEN <<p, n>> ELSE legacy
            ELSE /\ rows' = [l \in Lanes |-> NoOwner]
                 /\ legacy' = <<p, n>>
  /\ learn' = learn \cup {p}
  /\ UNCHANGED known

\* state.tombstoneToken = readCronFile().scheduler_owner?.token
Learn(p) ==
  /\ p \in learn
  /\ known' = [known EXCEPT ![p] = legacy]
  /\ learn' = learn \ {p}
  /\ UNCHANGED <<alive, legacy, rows, sched, on, retry>>

-----------------------------------------------------------------------------
RestorableAny(p) ==  \* restores the row beside any scheduler_owner
  /\ Running(p) /\ Scoped(p)
  /\ Row(p) = NoOwner

Restorable(p) ==
  /\ Running(p) /\ Scoped(p)
  /\ Row(p) = NoOwner
  /\ legacy \in {NoOwner, known[p], sched[p]}

\* What refreshSchedulerLease returns.
Refreshed(p) == Owns(p) \/ Restorable(p)

RefreshRowOnly(p) ==  \* restores the row and leaves a dead tombstone
  /\ rows' = IF Scoped(p) THEN [rows EXCEPT ![Scope[p]] = sched[p]] ELSE rows
  /\ UNCHANGED <<legacy, sched, known, learn>>

Refresh(p) ==
  /\ rows' = IF Scoped(p) THEN [rows EXCEPT ![Scope[p]] = sched[p]] ELSE rows
  /\ legacy' = IF legacy = NoOwner THEN sched[p] ELSE legacy
  /\ UNCHANGED <<sched, known, learn>>

Release(p) ==
  IF ~Owns(p) THEN UNCHANGED <<rows, legacy>>
  ELSE IF ~Scoped(p) THEN legacy' = NoOwner /\ UNCHANGED rows
  ELSE /\ rows' = [rows EXCEPT ![Scope[p]] = NoOwner]
       /\ IF legacy # sched[p] THEN UNCHANGED legacy
          ELSE \E l \in Lanes \ {Scope[p]} : legacy' = rows[l]

StopScheduler(p) ==
  /\ IF Running(p)
       THEN Release(p) \/ (LockTimesOut /\ UNCHANGED <<rows, legacy>>)
       ELSE UNCHANGED <<rows, legacy>>
  /\ sched' = [sched EXCEPT ![p] = NoOwner]
  /\ known' = [known EXCEPT ![p] = NoOwner]
  /\ UNCHANGED learn

HoldKept(p) == Refreshed(p) /\ Refresh(p)

HoldReclaimed(p) == ~Refreshed(p) /\ Scoped(p) /\ Claim(p)

HoldLost(p) ==
  /\ ~Refreshed(p) /\ Scoped(p)
  /\ LockTimesOut \/ ~CanClaim(p)
  /\ UNCHANGED <<rows, legacy, sched, known, learn>>

HoldStopped(p) == ~Refreshed(p) /\ ~Scoped(p) /\ StopScheduler(p)

\* holdSchedulerLease: every tick, and every second for a lane's owner.
Hold(p) ==
  /\ Free(p) /\ Running(p)
  /\ HoldKept(p) \/ HoldReclaimed(p) \/ HoldLost(p) \/ HoldStopped(p)
  /\ UNCHANGED <<alive, on, retry>>

-----------------------------------------------------------------------------
\* startScheduler with _retryCount = n; timers are those left besides it.
Attempt(p, n, timers) ==
  \/ Running(p) /\ retry' = timers /\ UNCHANGED <<legacy, rows, sched, known, learn>>
  \/ ~Running(p) /\ Claim(p) /\ retry' = timers
  \/ /\ ~Running(p) /\ (LockTimesOut \/ ~CanClaim(p))
     /\ retry' = IF n < MaxRetries
                   THEN [timers EXCEPT ![p] = @ \cup {n + 1}] ELSE timers
     /\ UNCHANGED <<legacy, rows, sched, known, learn>>

Start(p) ==
  /\ Free(p) /\ p \notin on
  /\ on' = on \cup {p}
  /\ Attempt(p, 0, retry)
  /\ UNCHANGED alive

\* The timer is nobody's: stopScheduler does not clear it.
Retry(p) ==
  /\ Free(p)
  /\ \E n \in retry[p] : Attempt(p, n, [retry EXCEPT ![p] = @ \ {n}])
  /\ UNCHANGED <<alive, on>>

\* stopRuntime -> clearProcessServices -> stopScheduler.
Stop(p) ==
  /\ Free(p) /\ p \in on
  /\ on' = on \ {p}
  /\ StopScheduler(p)
  /\ UNCHANGED <<alive, retry>>

Gone(owner, p) == IF IsOf(owner, p) THEN NoOwner ELSE owner

Die(p) ==
  /\ p \in alive /\ (TornLearn \/ learn \subseteq {p})
  /\ alive' = alive \ {p}
  /\ legacy' = Gone(legacy, p)
  /\ rows' = [l \in Lanes |-> Gone(rows[l], p)]
  /\ sched' = [sched EXCEPT ![p] = NoOwner]
  /\ known' = [known EXCEPT ![p] = NoOwner]
  /\ learn' = learn \ {p}
  /\ on' = on \ {p}
  /\ retry' = [retry EXCEPT ![p] = {}]

\* An older release adds or edits a schedule: the rows are not written back.
Strip ==
  /\ Strips /\ (TornLearn \/ learn = {})
  /\ rows' = [l \in Lanes |-> NoOwner]
  /\ UNCHANGED <<alive, legacy, sched, known, learn, on, retry>>

\* The file is removed, or not readable: readCronFile takes it for empty.
Wipe ==
  /\ Strips /\ (TornLearn \/ learn = {})
  /\ rows' = [l \in Lanes |-> NoOwner]
  /\ legacy' = NoOwner
  /\ UNCHANGED <<alive, sched, known, learn, on, retry>>

LeaseNext ==
  \/ \E p \in Procs : Learn(p) \/ Hold(p) \/ Start(p) \/ Retry(p) \/ Stop(p)
                     \/ Die(p)
  \/ Strip \/ Wipe

LeaseSpec == LeaseInit /\ [][LeaseNext]_leaseVars

-----------------------------------------------------------------------------
Overlap(p, q) == Scoped(p) /\ Scoped(q) => Scope[p] = Scope[q]

(* No schedule has two schedulers: two processes never both own the leases   *)
(* of scopes that share a lane, whatever was restored, stripped, reclaimed   *)
(* or left behind.  (refreshSchedulerLease, claimSchedulerLease)             *)
LaneExclusive ==
  \A p, q \in Procs : Owns(p) /\ Owns(q) /\ Overlap(p, q) => p = q

(* A scheduler runs only while the listener it was started for does.         *)
(* (stopScheduler: "Should be called when the WS listener disconnects.")     *)
StoppedStaysStopped == \A p \in Procs : Running(p) => p \in on
=============================================================================
