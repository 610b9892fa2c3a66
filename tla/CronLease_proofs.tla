-------------------------- MODULE CronLease_proofs --------------------------
(***************************************************************************)
(* Proofs, for any number of processes of any scopes, that no schedule has *)
(* two schedulers, as long as nobody writes the file between a claim and   *)
(* the read of the tombstone after it.                                     *)
(***************************************************************************)
EXTENDS CronLease, TLAPS

\* A process's token is its own.
SchedIsOwn == \A p \in Procs : sched[p] = NoOwner \/ IsOf(sched[p], p)

\* The row of a lane is of a process of that lane.
RowsOfLanes ==
  \A l \in Lanes : rows[l] = NoOwner \/ \E p \in Procs : Scope[p] = l /\ IsOf(rows[l], p)

\* While an all-owner, or an older release, is in scheduler_owner, no lane has
\* an owner.
AllExcludesLanes ==
  \A p \in Procs : ~Scoped(p) /\ IsOf(legacy, p) => NoRows

\* The tombstone that a lane's owner knows is of a lane's owner: it may restore
\* its row beside it.
KnownOfLane ==
  \A p \in Procs : Scoped(p) /\ p \notin learn =>
    known[p] = NoOwner \/ \E q \in Procs : Scoped(q) /\ IsOf(known[p], q)

\* Until it has read the tombstone, a lane's owner keeps its row.
LearnerOwns == \A p \in learn : Scoped(p) => Owns(p)

Exclusion ==
  SchedIsOwn /\ RowsOfLanes /\ AllExcludesLanes /\ KnownOfLane /\ LearnerOwns

Inv == LeaseTypeOK /\ Exclusion

\* A token has one process, and is never the lack of one.
LEMMA TokenOfOne ==
  ASSUME NEW o, NEW p \in Procs, NEW q \in Procs, IsOf(o, p)
  PROVE  o # NoOwner /\ (IsOf(o, q) => p = q)
BY NoOwnerAssumption DEF IsOf, Tokens

\* Whatever is in the file is nothing or the token of a process.
LEMMA HolderOfOne ==
  ASSUME NEW o \in Holders
  PROVE  o = NoOwner \/ \E p \in Procs : IsOf(o, p)
BY DEF Holders, Tokens, IsOf

LEMMA LanesAre == Lanes = {"local", "cloud"} /\ \A p \in Procs : Scoped(p) => Scope[p] \in Lanes
BY DEF Lanes, Scoped

\* While a lane has an owner, scheduler_owner is a mark, not an all-owner.
LEMMA MarkOfLane ==
  ASSUME Inv, ~NoRows
  PROVE  legacy = NoOwner \/ \E p \in Procs : Scoped(p) /\ IsOf(legacy, p)
<1>1. legacy = NoOwner \/ \E p \in Procs : IsOf(legacy, p)
  BY HolderOfOne DEF Inv, LeaseTypeOK
<1>2. QED
  BY <1>1 DEF Inv, Exclusion, AllExcludesLanes

-----------------------------------------------------------------------------
\* What each operation of the file writes.
Written == rows' \in [Lanes -> Holders] /\ legacy' \in Holders
             /\ sched' \in [Procs -> Holders] /\ known' \in [Procs -> Holders]
             /\ learn' \subseteq Procs

LEMMA ClaimWrites ==
  ASSUME LeaseTypeOK, NEW p \in Procs, Claim(p)
  PROVE  Written
BY LanesAre DEF Claim, Written, LeaseTypeOK, Holders, Tokens

LEMMA StopWrites ==
  ASSUME LeaseTypeOK, NEW p \in Procs, StopScheduler(p)
  PROVE  Written
<1>1. Release(p) \/ UNCHANGED <<rows, legacy>>
  BY DEF StopScheduler
<1>2. rows' \in [Lanes -> Holders] /\ legacy' \in Holders
  BY <1>1, LanesAre DEF Release, LeaseTypeOK, Holders
<1>3. QED
  BY <1>2 DEF StopScheduler, Written, LeaseTypeOK, Holders

LEMMA HoldWrites ==
  ASSUME LeaseTypeOK, NEW p \in Procs, Hold(p)
  PROVE  Written
<1>1. CASE HoldKept(p)
  BY <1>1, LanesAre DEF HoldKept, Refresh, Written, LeaseTypeOK
<1>2. CASE HoldReclaimed(p)
  BY <1>2, ClaimWrites DEF HoldReclaimed
<1>3. CASE HoldLost(p)
  BY <1>3 DEF HoldLost, Written, LeaseTypeOK
<1>4. CASE HoldStopped(p)
  BY <1>4, StopWrites DEF HoldStopped
<1>5. QED
  BY <1>1, <1>2, <1>3, <1>4 DEF Hold

LEMMA AttemptWrites ==
  ASSUME LeaseTypeOK, NEW p \in Procs, NEW n \in Nat, n <= MaxRetries,
         NEW timers \in [Procs -> SUBSET Retries], Attempt(p, n, timers)
  PROVE  Written /\ retry' \in [Procs -> SUBSET Retries]
<1>1. CASE Running(p) /\ retry' = timers /\ UNCHANGED <<legacy, rows, sched, known, learn>>
  BY <1>1 DEF Written, LeaseTypeOK
<1>2. CASE ~Running(p) /\ Claim(p) /\ retry' = timers
  BY <1>2, ClaimWrites
<1>3. CASE /\ retry' = IF n < MaxRetries
                        THEN [timers EXCEPT ![p] = @ \cup {n + 1}] ELSE timers
           /\ UNCHANGED <<legacy, rows, sched, known, learn>>
  <2>1. n < MaxRetries => n + 1 \in Retries
    BY RetryAssumption DEF Retries
  <2>2. QED
    BY <1>3, <2>1 DEF Written, LeaseTypeOK
<1>4. QED
  BY <1>1, <1>2, <1>3 DEF Attempt

LEMMA TypeStep == LeaseTypeOK /\ [LeaseNext]_leaseVars => LeaseTypeOK'
<1> SUFFICES ASSUME LeaseTypeOK, [LeaseNext]_leaseVars
             PROVE  LeaseTypeOK'
  OBVIOUS
<1>1. CASE UNCHANGED leaseVars
  BY <1>1 DEF leaseVars, LeaseTypeOK
<1>2. CASE Strip \/ Wipe
  BY <1>2 DEF Strip, Wipe, LeaseTypeOK, Holders
<1>3. ASSUME NEW p \in Procs
      PROVE  Learn(p) \/ Hold(p) \/ Start(p) \/ Retry(p) \/ Stop(p) \/ Die(p)
               => LeaseTypeOK'
  <2>1. Learn(p) => LeaseTypeOK'
    BY DEF Learn, LeaseTypeOK
  <2>2. Hold(p) => LeaseTypeOK'
    BY HoldWrites DEF Hold, Written, LeaseTypeOK
  <2>3. Start(p) => LeaseTypeOK'
    <3>1. Start(p) => Written /\ retry' \in [Procs -> SUBSET Retries]
      BY AttemptWrites, RetryAssumption DEF Start, LeaseTypeOK
    <3>2. QED
      BY <3>1 DEF Start, Written, LeaseTypeOK
  <2>4. Retry(p) => LeaseTypeOK'
    <3>1. ASSUME NEW n \in retry[p]
          PROVE  /\ n \in Nat /\ n <= MaxRetries
                 /\ [retry EXCEPT ![p] = @ \ {n}] \in [Procs -> SUBSET Retries]
      BY RetryAssumption DEF LeaseTypeOK, Retries
    <3>2. Retry(p) => Written /\ retry' \in [Procs -> SUBSET Retries]
      BY <3>1, AttemptWrites DEF Retry
    <3>3. QED
      BY <3>2 DEF Retry, Written, LeaseTypeOK
  <2>5. Stop(p) => LeaseTypeOK'
    BY StopWrites DEF Stop, Written, LeaseTypeOK
  <2>6. Die(p) => LeaseTypeOK'
    BY DEF Die, Gone, LeaseTypeOK, Holders
  <2>7. QED
    BY <2>1, <2>2, <2>3, <2>4, <2>5, <2>6
<1>4. QED
  BY <1>1, <1>2, <1>3 DEF LeaseNext
-----------------------------------------------------------------------------
LEMMA ClaimKeeps ==
  ASSUME Inv, learn = {}, NEW p \in Procs, Claim(p)
  PROVE  Exclusion'
<1> USE DEF Inv, Exclusion
<1>1. PICK n \in Nums :
        /\ sched' = [sched EXCEPT ![p] = <<p, n>>]
        /\ IF Scoped(p)
             THEN /\ rows' = [rows EXCEPT ![Scope[p]] = <<p, n>>]
                  /\ legacy' = IF legacy = NoOwner THEN <<p, n>> ELSE legacy
             ELSE /\ rows' = [l \in Lanes |-> NoOwner]
                  /\ legacy' = <<p, n>>
  BY DEF Claim
<1>2. IsOf(<<p, n>>, p) /\ <<p, n>> # NoOwner
  BY <1>1, TokenOfOne DEF IsOf
<1>3. SchedIsOwn'
  BY <1>1, <1>2 DEF SchedIsOwn, LeaseTypeOK, IsOf
<1>4. RowsOfLanes'
  BY <1>1, <1>2, LanesAre DEF RowsOfLanes, LeaseTypeOK, IsOf
<1>5. AllExcludesLanes'
  <2>1. CASE ~Scoped(p)
    BY <2>1, <1>1 DEF AllExcludesLanes, NoRows
  <2>2. CASE Scoped(p) /\ legacy = NoOwner
    <3>1. legacy' = <<p, n>>
      BY <2>2, <1>1
    <3>2. QED
      BY <2>2, <3>1, <1>2, TokenOfOne DEF AllExcludesLanes, Scoped, IsOf
  <2>3. CASE Scoped(p) /\ legacy # NoOwner
    <3>1. ~NoRows
      BY <2>3 DEF Claim, CanClaim, Scoped, Lanes
    <3>2. PICK q \in Procs : Scoped(q) /\ IsOf(legacy, q)
      BY <3>1, <2>3, MarkOfLane
    <3>3. legacy' = legacy
      BY <2>3, <1>1
    <3>4. QED
      BY <3>2, <3>3, TokenOfOne DEF AllExcludesLanes, Scoped, IsOf
  <2>4. QED
    BY <2>1, <2>2, <2>3
<1>6. KnownOfLane'
  BY DEF Claim, KnownOfLane, Scoped, IsOf
<1>7. LearnerOwns'
  <2>1. learn' = {p}
    BY DEF Claim
  <2>2. Scoped(p) => sched'[p] = <<p, n>> /\ rows'[Scope[p]] = <<p, n>>
    BY <1>1, LanesAre DEF LeaseTypeOK
  <2>3. QED
    BY <2>1, <2>2, <1>2 DEF LearnerOwns, Owns, Running, Row, Scoped
<1>8. QED
  BY <1>3, <1>4, <1>5, <1>6, <1>7

LEMMA RefreshKeeps ==
  ASSUME Inv, learn = {}, NEW p \in Procs, Running(p), Refreshed(p), Refresh(p)
  PROVE  Exclusion'
<1> USE DEF Inv, Exclusion
<1>1. sched[p] # NoOwner /\ IsOf(sched[p], p)
  BY DEF Running, SchedIsOwn
<1>2. SchedIsOwn' /\ KnownOfLane' /\ LearnerOwns'
  BY DEF Refresh, SchedIsOwn, KnownOfLane, LearnerOwns, IsOf, Scoped
<1>3. RowsOfLanes'
  BY <1>1, LanesAre DEF Refresh, RowsOfLanes, LeaseTypeOK, IsOf, Scoped
<1>4. AllExcludesLanes'
  <2>1. CASE ~Scoped(p)
    <3>1. legacy = sched[p]
      BY <2>1 DEF Refreshed, Owns, Restorable, Row
    <3>2. rows' = rows /\ legacy' = legacy
      BY <2>1, <3>1, <1>1 DEF Refresh
    <3>3. QED
      BY <3>2 DEF AllExcludesLanes, NoRows, IsOf, Scoped
  <2>2. CASE Scoped(p)
    <3>1. legacy = NoOwner \/ \E q \in Procs : Scoped(q) /\ IsOf(legacy, q)
      <4>1. CASE Owns(p)
        <5>1. ~NoRows
          BY <4>1, <2>2, <1>1, LanesAre DEF Owns, Row, NoRows
        <5>2. QED
          BY <5>1, MarkOfLane
      <4>2. CASE Restorable(p)
        BY <4>2, <2>2, <1>1 DEF Restorable, KnownOfLane
      <4>3. QED
        BY <4>1, <4>2 DEF Refreshed
    <3>2. \E q \in Procs : Scoped(q) /\ IsOf(legacy', q)
      BY <3>1, <2>2, <1>1 DEF Refresh
    <3>3. QED
      BY <3>2, TokenOfOne DEF AllExcludesLanes, Scoped, IsOf
  <2>3. QED
    BY <2>1, <2>2
<1>5. QED
  BY <1>2, <1>3, <1>4

LEMMA StopKeeps ==
  ASSUME Inv, learn = {}, NEW p \in Procs, StopScheduler(p)
  PROVE  Exclusion'
<1> USE DEF Inv, Exclusion
<1>1. SchedIsOwn' /\ KnownOfLane' /\ LearnerOwns'
  BY DEF StopScheduler, SchedIsOwn, KnownOfLane, LearnerOwns, IsOf, Scoped, LeaseTypeOK
<1>2. CASE UNCHANGED <<rows, legacy>>
  BY <1>1, <1>2 DEF RowsOfLanes, AllExcludesLanes, NoRows, IsOf, Scoped
<1>3. CASE Running(p) /\ Release(p) /\ Owns(p)
  <2>1. CASE ~Scoped(p)
    <3>1. rows' = rows /\ legacy' = NoOwner
      BY <2>1, <1>3 DEF Release
    <3>2. RowsOfLanes'
      BY <3>1 DEF RowsOfLanes, IsOf
    <3>3. AllExcludesLanes'
      BY <3>1, NoOwnerAssumption DEF AllExcludesLanes, IsOf, Tokens
    <3>4. QED
      BY <1>1, <3>2, <3>3
  <2>2. CASE Scoped(p)
    <3>1. rows' = [rows EXCEPT ![Scope[p]] = NoOwner]
      BY <2>2, <1>3 DEF Release
    <3>2. RowsOfLanes'
      BY <3>1 DEF RowsOfLanes, IsOf, LeaseTypeOK
    <3>3. ~NoRows
      BY <1>3, <2>2, LanesAre DEF Owns, Row, NoRows, Running
    <3>4. legacy = NoOwner \/ \E q \in Procs : Scoped(q) /\ IsOf(legacy, q)
      BY <3>3, MarkOfLane
    <3>5. legacy' = NoOwner \/ \E q \in Procs : Scoped(q) /\ IsOf(legacy', q)
      <4>1. legacy' = legacy \/ \E l \in Lanes : legacy' = rows[l]
        BY <1>3, <2>2 DEF Release
      <4>2. QED
        BY <4>1, <3>4 DEF RowsOfLanes, Scoped
    <3>6. AllExcludesLanes'
      BY <3>5, TokenOfOne DEF AllExcludesLanes, IsOf, Scoped
    <3>7. QED
      BY <1>1, <3>2, <3>6
  <2>3. QED
    BY <2>1, <2>2
<1>4. QED
  BY <1>2, <1>3 DEF StopScheduler, Release

LEMMA UnchangedKeeps ==
  ASSUME Inv, UNCHANGED <<legacy, rows, sched, known, learn>>
  PROVE  Exclusion'
BY DEF Inv, Exclusion, SchedIsOwn, RowsOfLanes, AllExcludesLanes, KnownOfLane, LearnerOwns,
       IsOf, NoRows, Scoped, Owns, Running, Row

LEMMA LearnKeeps ==
  ASSUME Inv, NEW p \in Procs, Learn(p)
  PROVE  Exclusion'
<1> USE DEF Inv, Exclusion
<1>1. SchedIsOwn' /\ RowsOfLanes' /\ AllExcludesLanes' /\ LearnerOwns'
  BY DEF Learn, SchedIsOwn, RowsOfLanes, AllExcludesLanes, LearnerOwns, IsOf, NoRows, Scoped,
         Owns, Running, Row
<1>2. KnownOfLane'
  <2>1. Scoped(p) => ~NoRows
    BY LanesAre DEF Learn, LearnerOwns, Owns, Running, Row, NoRows
  <2>2. Scoped(p) => legacy = NoOwner \/ \E q \in Procs : Scoped(q) /\ IsOf(legacy, q)
    BY <2>1, MarkOfLane
  <2>3. known' = [known EXCEPT ![p] = legacy] /\ learn' = learn \ {p}
    BY DEF Learn
  <2>4. QED
    BY <2>2, <2>3 DEF KnownOfLane, Scoped, IsOf, LeaseTypeOK
<1>3. QED
  BY <1>1, <1>2

LEMMA DieKeeps ==
  ASSUME Inv, NEW p \in Procs, Die(p), learn \subseteq {p}
  PROVE  Exclusion'
<1> USE DEF Inv, Exclusion
<1>1. learn' = {} /\ ((Scoped(p) /\ p \in learn) \/ known' = [known EXCEPT ![p] = NoOwner])
  BY DEF Die
<1>2. SchedIsOwn' /\ LearnerOwns'
  BY <1>1 DEF Die, SchedIsOwn, LearnerOwns, IsOf, LeaseTypeOK
<1>3. KnownOfLane'
  BY DEF Die, KnownOfLane, IsOf, Scoped, LeaseTypeOK
<1>4. RowsOfLanes'
  BY DEF Die, Gone, RowsOfLanes, IsOf
<1>5. AllExcludesLanes'
  <2>1. ASSUME NEW q \in Procs, IsOf(legacy', q)
        PROVE  legacy' = legacy
    BY <2>1, TokenOfOne DEF Die, Gone
  <2>2. NoRows => NoRows'
    BY DEF Die, Gone, NoRows
  <2>3. QED
    BY <2>1, <2>2 DEF AllExcludesLanes, IsOf, Scoped
<1>6. QED
  BY <1>2, <1>3, <1>4, <1>5

LEMMA LossKeeps ==
  ASSUME Inv, learn = {}, Strip \/ Wipe
  PROVE  Exclusion'
<1> USE DEF Inv, Exclusion
<1>1. SchedIsOwn' /\ KnownOfLane' /\ LearnerOwns'
  BY DEF Strip, Wipe, SchedIsOwn, KnownOfLane, LearnerOwns, IsOf, Scoped
<1>2. RowsOfLanes' /\ AllExcludesLanes'
  BY DEF Strip, Wipe, RowsOfLanes, AllExcludesLanes, NoRows
<1>3. QED
  BY <1>1, <1>2

LEMMA ExclusionStep ==
  ASSUME ~TornLearn, Inv, [LeaseNext]_leaseVars
  PROVE  Exclusion'
<1>1. CASE UNCHANGED leaseVars
  BY <1>1, UnchangedKeeps DEF leaseVars
<1>2. CASE Strip \/ Wipe
  <2>1. learn = {}
    BY <1>2 DEF Strip, Wipe
  <2>2. QED
    BY <1>2, <2>1, LossKeeps
<1>3. ASSUME NEW p \in Procs,
             Learn(p) \/ Hold(p) \/ Start(p) \/ Retry(p) \/ Stop(p) \/ Die(p)
      PROVE  Exclusion'
  <2>0. Free(p) => learn = {}
    BY DEF Free
  <2>1. CASE Learn(p)
    BY <2>1, LearnKeeps
  <2>2. CASE Hold(p)
    <3>1. CASE HoldKept(p)
      BY <3>1, <2>2, <2>0, RefreshKeeps DEF HoldKept, Hold
    <3>2. CASE HoldReclaimed(p)
      BY <3>2, <2>2, <2>0, ClaimKeeps DEF HoldReclaimed, Hold
    <3>3. CASE HoldLost(p)
      BY <3>3, UnchangedKeeps DEF HoldLost
    <3>4. CASE HoldStopped(p)
      BY <3>4, <2>2, <2>0, StopKeeps DEF HoldStopped, Hold
    <3>5. QED
      BY <2>2, <3>1, <3>2, <3>3, <3>4 DEF Hold
  <2>3. CASE Start(p)
    BY <2>3, <2>0, ClaimKeeps, UnchangedKeeps DEF Start, Attempt
  <2>4. CASE Retry(p)
    BY <2>4, <2>0, ClaimKeeps, UnchangedKeeps DEF Retry, Attempt
  <2>5. CASE Stop(p)
    BY <2>5, <2>0, StopKeeps DEF Stop
  <2>6. CASE Die(p)
    BY <2>6, DieKeeps DEF Die
  <2>7. QED
    BY <1>3, <2>1, <2>2, <2>3, <2>4, <2>5, <2>6
<1>4. QED
  BY <1>1, <1>2, <1>3 DEF LeaseNext

LEMMA InvInit == LeaseInit => Inv
<1> SUFFICES ASSUME LeaseInit
             PROVE  Inv
  OBVIOUS
<1>1. LeaseTypeOK
  BY DEF LeaseInit, LeaseTypeOK, Holders
<1>2. SchedIsOwn /\ RowsOfLanes /\ AllExcludesLanes /\ KnownOfLane /\ LearnerOwns
  BY DEF LeaseInit, SchedIsOwn, RowsOfLanes, AllExcludesLanes, NoRows, KnownOfLane, LearnerOwns
<1>3. QED
  BY <1>1, <1>2 DEF Inv, Exclusion

\* Two owners of one lane would hold the same token.
LEMMA InvExcludes == Inv => LaneExclusive
<1> SUFFICES ASSUME Inv, NEW p \in Procs, NEW q \in Procs, Owns(p), Owns(q), Overlap(p, q)
             PROVE  p = q
  BY DEF LaneExclusive
<1> USE DEF Inv, Exclusion, Owns, Running
<1>1. IsOf(sched[p], p) /\ IsOf(sched[q], q)
  BY DEF SchedIsOwn
<1>2. CASE Scoped(p) <=> Scoped(q)
  <2>1. sched[p] = sched[q]
    BY <1>2 DEF Row, Overlap
  <2>2. QED
    BY <1>1, <2>1, TokenOfOne
<1>3. ASSUME NEW r \in Procs, NEW s \in Procs, ~Scoped(r), Scoped(s), Owns(r), Owns(s)
      PROVE  FALSE
  <2>1. legacy = sched[r] /\ IsOf(sched[r], r)
    BY <1>3 DEF Row, SchedIsOwn
  <2>2. NoRows
    BY <2>1, <1>3 DEF AllExcludesLanes
  <2>3. QED
    BY <2>2, <1>3, LanesAre DEF NoRows, Row
<1>4. QED
  BY <1>2, <1>3

-----------------------------------------------------------------------------
(* The lease has the types stated.  (claimSchedulerLease, startScheduler)    *)
THEOREM LeaseTyped == LeaseSpec => []LeaseTypeOK
<1>1. LeaseInit => LeaseTypeOK
  BY InvInit DEF Inv
<1>2. QED
  BY <1>1, TypeStep, PTL DEF LeaseSpec

(* No schedule has two schedulers, for any number of processes of any scopes *)
(* and any number of releases from before the lanes.  (refreshSchedulerLease,*)
(* claimSchedulerLease, releaseSchedulerLease)                               *)
THEOREM LanesExclude == ~TornLearn => (LeaseSpec => []LaneExclusive)
<1> SUFFICES ASSUME ~TornLearn
             PROVE  LeaseSpec => []LaneExclusive
  OBVIOUS
<1>1. Inv /\ [LeaseNext]_leaseVars => Inv'
  BY TypeStep, ExclusionStep DEF Inv
<1>2. QED
  BY <1>1, InvInit, InvExcludes, PTL DEF LeaseSpec
=============================================================================
