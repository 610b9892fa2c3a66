-------------------------- MODULE TurnOwners_proofs --------------------------
(***************************************************************************)
(* Proofs, for any set of leases, of the safety invariants of TurnOwners.  *)
(* They follow from Ownership, which says of every lease whether its owner *)
(* still holds the conversation, has finished, or was discarded.           *)
(***************************************************************************)
EXTENDS TurnOwners, TLAPS

Ownership ==
  /\ turn.kind \in {"active", "cancelling"} => turn.lease \in used
  /\ turn.kind = "cancelling" =>
       /\ turn.lease \in aborted
       /\ turn.ownerFinished => turn.externalSettlementPending
  /\ \A l \in Leases : IsCurrent(turn, l) => l \in running /\ terminals[l] = 0
  /\ \A l \in used :
       ~IsCurrent(turn, l) =>
          \/ terminals[l] = 1
          \/ terminals[l] = 0 /\ l \in discarded
  /\ \A l \in Leases \ used : terminals[l] = 0
  /\ discarded \subseteq aborted

IInv == TypeOK /\ Ownership /\ SettlementHeld

\* The states the methods build from scratch are turn states.
LEMMA FreshStates ==
  /\ IdleState \in TurnState /\ IdleState.kind = "idle"
  /\ CommandState \in TurnState /\ CommandState.kind = "command"
  /\ \A l \in Leases, s \in ActiveTurnLoopStatus :
       /\ ActiveState(l, s) \in TurnState
       /\ ActiveState(l, s).kind = "active"
       /\ ActiveState(l, s).lease = l
BY DEF TurnState, TurnKinds, LoopStatus, ActiveTurnLoopStatus, IdleState, CommandState,
       ActiveState

\* The progress methods keep the turn state well typed.
LEMMA ProgressStates ==
  ASSUME NEW t \in TurnState, NEW l \in Leases
  PROVE  /\ \A s \in ActiveTurnLoopStatus : WithStatus(t, l, s) \in TurnState
         /\ \A r \in Leases \cup {NoLease} : WithRunId(t, l, r) \in TurnState
         /\ \A e \in BOOLEAN : WithExecuting(t, l, e) \in TurnState
BY DEF TurnState, LoopStatus, WithStatus, WithRunId, WithExecuting

\* So do the methods that end a turn.
LEMMA EndingStates ==
  ASSUME NEW t \in TurnState, NEW l \in Leases
  PROVE  /\ Finished(t, l) \in TurnState
         /\ Settled(t, l) \in TurnState
<1>1. [t EXCEPT !.ownerFinished = TRUE] \in TurnState
  BY DEF TurnState
<1>2. [t EXCEPT !.externalSettlementPending = FALSE] \in TurnState
  BY DEF TurnState
<1>3. QED
  BY <1>1, <1>2, FreshStates DEF Finished, Settled

\* Nobody owns the conversation at the start.
LEMMA InitEstablishes == Init => IInv
BY FreshStates, NoLeaseAssumption
DEF Init, IInv, TypeOK, Ownership, SettlementHeld, IdleState, IsCurrent, StopReasons,
    TurnState, TurnKinds, LoopStatus, ActiveTurnLoopStatus

\* A begun turn finds nobody in possession, so nothing is out for another one.
LEMMA BeginPreserves ==
  ASSUME IInv, NEW l \in Leases, Begin(l)
  PROVE  IInv'
<1> USE DEF IInv, Begin
<1>1. PICK s \in ActiveTurnLoopStatus : turn' = ActiveState(l, s)
  BY DEF ActiveTurnLoopStatus
<1>2. /\ turn' \in TurnState
      /\ turn'.kind = "active" /\ turn'.lease = l
  BY <1>1, FreshStates
<1>3. TypeOK'
  BY <1>2 DEF TypeOK, StopReasons
<1>4. cancels \ discarded = {}
  BY DEF SettlementHeld, CanBegin
<1>5. SettlementHeld'
  BY <1>4 DEF SettlementHeld
<1>6. \A k \in Leases : ~IsCurrent(turn, k)
  BY DEF CanBegin, IsCurrent
<1>7. \A k \in Leases : IsCurrent(turn, k)' <=> k = l
  BY <1>2 DEF IsCurrent
<1>8. Ownership'
  BY <1>2, <1>6, <1>7 DEF Ownership, TypeOK
<1>9. QED
  BY <1>3, <1>5, <1>8

\* Progress reports change neither the owner nor the kind of the state.
LEMMA UpdatePreserves ==
  ASSUME IInv, NEW l \in Leases, OwnerUpdate(l)
  PROVE  IInv'
<1> USE DEF IInv, OwnerUpdate
<1>1. turn' \in TurnState
  BY ProgressStates DEF TypeOK
<1>2. /\ turn'.kind = turn.kind
      /\ turn'.lease = turn.lease
      /\ turn'.ownerFinished = turn.ownerFinished
      /\ turn'.externalSettlementPending = turn.externalSettlementPending
  BY DEF TypeOK, TurnState, WithStatus, WithRunId, WithExecuting
<1>3. TypeOK'
  BY <1>1 DEF TypeOK
<1>4. \A k \in Leases : IsCurrent(turn, k)' <=> IsCurrent(turn, k)
  BY <1>2 DEF IsCurrent
<1>5. Ownership' /\ SettlementHeld'
  BY <1>2, <1>4 DEF Ownership, SettlementHeld, TypeOK
<1>6. QED
  BY <1>3, <1>5

\* finish() by a stale owner does nothing; by the current one it ends the
\* turn, or waits in cancelling for the backend.
LEMMA FinishPreserves ==
  ASSUME IInv, NEW l \in Leases, OwnerFinish(l)
  PROVE  IInv'
<1> USE DEF IInv, OwnerFinish, FinishTakes
<1>1. CASE ~IsCurrent(turn, l)
  <2>1. UNCHANGED vars
    BY <1>1 DEF Finished, vars
  <2>2. QED
    BY <2>1 DEF vars, TypeOK, Ownership, SettlementHeld
<1>2. CASE IsCurrent(turn, l)
  <2>1. turn' \in TurnState
    BY EndingStates DEF TypeOK
  <2>2. /\ terminals' = [terminals EXCEPT ![l] = @ + 1]
        /\ terminals[l] = 0 /\ terminals'[l] = 1
        /\ l \in running /\ l \in used
    BY <1>2 DEF Ownership, TypeOK
  <2>3. TypeOK'
    BY <1>2, <2>1, <2>2 DEF TypeOK, StopReasons
  <2>4. CASE turn.kind = "cancelling" /\ turn.externalSettlementPending
    <3>1. turn' = [turn EXCEPT !.ownerFinished = TRUE]
      BY <1>2, <2>4 DEF Finished
    <3>2. /\ turn'.kind = "cancelling" /\ turn'.lease = turn.lease
          /\ turn'.ownerFinished /\ turn'.externalSettlementPending
      BY <3>1, <2>4 DEF TypeOK, TurnState
    <3>3. \A k \in Leases : ~IsCurrent(turn, k)'
      BY <3>2 DEF IsCurrent
    <3>4. \A k \in Leases : IsCurrent(turn, k) => k = l
      BY <1>2 DEF IsCurrent
    <3>5. Ownership' /\ SettlementHeld'
      BY <2>2, <2>4, <3>2, <3>3, <3>4 DEF Ownership, SettlementHeld, TypeOK
    <3>6. QED
      BY <2>3, <3>5
  <2>5. CASE ~(turn.kind = "cancelling" /\ turn.externalSettlementPending)
    <3>1. turn' = IdleState
      BY <1>2, <2>5 DEF Finished
    <3>2. \A k \in Leases : ~IsCurrent(turn, k)'
      BY <3>1 DEF IsCurrent, IdleState
    <3>3. \A k \in Leases : IsCurrent(turn, k) => k = l
      BY <1>2 DEF IsCurrent
    <3>4. cancels \ discarded = {}
      BY <2>5 DEF SettlementHeld
    <3>5. Ownership' /\ SettlementHeld'
      BY <2>2, <3>1, <3>2, <3>3, <3>4, FreshStates DEF Ownership, SettlementHeld, TypeOK
    <3>6. QED
      BY <2>3, <3>5
  <2>6. QED
    BY <2>4, <2>5
<1>3. QED
  BY <1>1, <1>2

\* An owner leaves only after its lease stopped being current.
LEMMA ReturnPreserves ==
  ASSUME IInv, NEW l \in Leases, OwnerReturn(l)
  PROVE  IInv'
<1> USE DEF IInv, OwnerReturn
<1>1. TypeOK' /\ SettlementHeld'
  BY DEF TypeOK, SettlementHeld
<1>2. \A k \in Leases : IsCurrent(turn, k)' <=> IsCurrent(turn, k)
  BY DEF IsCurrent
<1>3. Ownership'
  BY <1>2 DEF Ownership, TypeOK
<1>4. QED
  BY <1>1, <1>3

\* A cancelled turn keeps the conversation, and its owner is told to stop.
LEMMA CancelPreserves ==
  ASSUME IInv, NEW w \in BOOLEAN, RequestCancellation(w)
  PROVE  IInv'
<1> USE DEF IInv, RequestCancellation
<1>1. turn.lease \in used /\ LiveLease(turn) = {turn.lease}
  BY DEF Ownership, LiveLease
<1>2. /\ turn' \in TurnState
      /\ turn'.kind = "cancelling" /\ turn'.lease = turn.lease
      /\ turn'.ownerFinished = FALSE
      /\ turn'.externalSettlementPending = w
  BY DEF TypeOK, TurnState, TurnKinds, CancelRequested, LoopStatus
<1>3. TypeOK'
  BY <1>1, <1>2 DEF TypeOK, StopReasons
<1>4. cancels \ discarded = {}
  BY DEF SettlementHeld
<1>5. SettlementHeld'
  BY <1>2, <1>4 DEF SettlementHeld
<1>6. \A k \in Leases : IsCurrent(turn, k)' <=> IsCurrent(turn, k)
  BY <1>2 DEF IsCurrent
<1>7. Ownership'
  BY <1>1, <1>2, <1>6 DEF Ownership, TypeOK
<1>8. QED
  BY <1>3, <1>5, <1>7

\* The backend's answer frees a turn whose owner is done, no other.
LEMMA SettlePreserves ==
  ASSUME IInv, NEW l \in Leases, SettleCancellation(l)
  PROVE  IInv'
<1> USE DEF IInv, SettleCancellation
<1>1. turn' \in TurnState
  BY EndingStates DEF TypeOK
<1>2. TypeOK'
  BY <1>1 DEF TypeOK
<1>3. CASE ~SettleTakes(turn, l)
  <2>1. turn' = turn
    BY <1>3 DEF Settled
  <2>2. QED
    BY <1>2, <2>1 DEF Ownership, SettlementHeld, IsCurrent
<1>4. CASE SettleTakes(turn, l)
  <2>1. cancels' \ discarded' = {}
    BY <1>4 DEF SettlementHeld, SettleTakes
  <2>2. SettlementHeld'
    BY <2>1 DEF SettlementHeld
  <2>3. CASE turn.ownerFinished
    <3>1. turn' = IdleState
      BY <1>4, <2>3 DEF Settled
    <3>2. \A k \in Leases : ~IsCurrent(turn, k) /\ ~IsCurrent(turn, k)'
      BY <1>4, <2>3, <3>1 DEF SettleTakes, IsCurrent, IdleState
    <3>3. Ownership'
      BY <3>1, <3>2, FreshStates DEF Ownership, TypeOK
    <3>4. QED
      BY <1>2, <2>2, <3>3
  <2>4. CASE ~turn.ownerFinished
    <3>1. turn' = [turn EXCEPT !.externalSettlementPending = FALSE]
      BY <1>4, <2>4 DEF Settled
    <3>2. /\ turn'.kind = turn.kind /\ turn'.lease = turn.lease
          /\ turn'.ownerFinished = turn.ownerFinished
      BY <3>1 DEF TypeOK, TurnState
    <3>3. \A k \in Leases : IsCurrent(turn, k)' <=> IsCurrent(turn, k)
      BY <3>2 DEF IsCurrent
    <3>4. Ownership'
      BY <2>4, <3>2, <3>3 DEF Ownership, TypeOK
    <3>5. QED
      BY <1>2, <2>2, <3>4
  <2>5. QED
    BY <2>3, <2>4
<1>5. QED
  BY <1>3, <1>4

\* Commands come and go only while no turn holds the conversation.
LEMMA CommandPreserves ==
  ASSUME IInv, Command
  PROVE  IInv'
<1> USE DEF IInv, Command
<1>1. turn' = turn \/ (CanBegin(turn) /\ turn' \in {CommandState, IdleState})
  BY DEF StartedCommand, FinishedCommand, CanBegin
<1>2. CASE turn' = turn
  BY <1>2 DEF TypeOK, Ownership, SettlementHeld, IsCurrent
<1>3. CASE CanBegin(turn) /\ turn' \in {CommandState, IdleState}
  <2>1. turn' \in TurnState /\ turn'.kind \in {"idle", "command"}
    BY <1>3, FreshStates
  <2>2. \A k \in Leases : ~IsCurrent(turn, k) /\ ~IsCurrent(turn, k)'
    BY <1>3, <2>1 DEF CanBegin, IsCurrent
  <2>3. cancels \ discarded = {}
    BY <1>3 DEF SettlementHeld, CanBegin
  <2>4. TypeOK' /\ SettlementHeld'
    BY <2>1, <2>3 DEF TypeOK, SettlementHeld
  <2>5. Ownership'
    BY <2>1, <2>2 DEF Ownership, TypeOK
  <2>6. QED
    BY <2>4, <2>5
<1>4. QED
  BY <1>1, <1>2, <1>3

\* reset() drops the turn, but fires its signal and counts it as discarded.
LEMMA ResetPreserves ==
  ASSUME IInv, Reset
  PROVE  IInv'
<1> USE DEF IInv, Reset
<1>1. LiveLease(turn) \subseteq used
  BY DEF Ownership, LiveLease
<1>2. turn' \in TurnState /\ turn'.kind = "idle"
  BY FreshStates
<1>3. TypeOK'
  BY <1>1, <1>2 DEF TypeOK, StopReasons
<1>4. cancels' \ discarded' = {}
  BY DEF SettlementHeld, LiveLease
<1>5. \A k \in Leases : ~IsCurrent(turn, k)' /\ (IsCurrent(turn, k) => k \in discarded')
  BY <1>2 DEF IsCurrent, LiveLease
<1>6. Ownership'
  BY <1>1, <1>2, <1>5 DEF Ownership, TypeOK
<1>7. QED
  BY <1>3, <1>4, <1>6 DEF SettlementHeld

\* One step of the specification preserves the inductive invariant.
LEMMA StepPreserves == IInv /\ [Next]_vars => IInv'
<1> SUFFICES ASSUME IInv, [Next]_vars PROVE IInv'
  OBVIOUS
<1>1. ASSUME NEW l \in Leases, OwnerStep(l) PROVE IInv'
  BY <1>1, UpdatePreserves, FinishPreserves, ReturnPreserves DEF OwnerStep
<1>2. CASE UNCHANGED vars
  BY <1>2 DEF vars, IInv, TypeOK, Ownership, SettlementHeld, IsCurrent
<1>3. QED
  BY <1>1, <1>2, BeginPreserves, SettlePreserves, CancelPreserves, CommandPreserves,
     ResetPreserves DEF Next

\* Ownership tells of every lease what the two invariants ask about it.
LEMMA InvariantImplies == IInv => OneLiveOwner /\ OneTerminal
<1> SUFFICES ASSUME IInv PROVE OneLiveOwner /\ OneTerminal
  OBVIOUS
<1>1. OneLiveOwner
  BY DEF OneLiveOwner, Drives, IsCurrent, IInv, Ownership, TypeOK
<1>2. ASSUME NEW l \in Leases
      PROVE  /\ terminals[l] <= 1
             /\ l \in used \ running => terminals[l] = 1 \/ l \in discarded
  <2>1. terminals[l] \in {0, 1}
    BY DEF IInv, Ownership, TypeOK
  <2>2. terminals[l] <= 1
    BY <2>1
  <2>3. l \in used \ running => terminals[l] = 1 \/ l \in discarded
    BY DEF IInv, Ownership
  <2>4. QED
    BY <2>2, <2>3
<1>3. QED
  BY <1>1, <1>2 DEF OneTerminal

\* The turn state, the leases and their bookkeeping keep their types.
THEOREM TypeCorrect == Spec => []TypeOK
<1>1. IInv => TypeOK
  BY DEF IInv
<1>2. QED
  BY <1>1, InitEstablishes, StepPreserves, PTL DEF Spec

\* However cancellations, settlements, resets and stale owners interleave, at
\* most one owner drives the agent, and the lifecycle knows it as active.
THEOREM OneOwnerDrives == Spec => []OneLiveOwner
BY InitEstablishes, StepPreserves, InvariantImplies, PTL DEF Spec

\* No turn begins while the backend is still cancelling an earlier one.
THEOREM CancellationIsHeld == Spec => []SettlementHeld
<1>1. IInv => SettlementHeld
  BY DEF IInv
<1>2. QED
  BY <1>1, InitEstablishes, StepPreserves, PTL DEF Spec

\* Each turn has one terminal transition, before its owner returns.
THEOREM TurnEndsOnce == Spec => []OneTerminal
BY InitEstablishes, StepPreserves, InvariantImplies, PTL DEF Spec
=============================================================================
