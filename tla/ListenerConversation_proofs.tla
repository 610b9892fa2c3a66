-------------------- MODULE ListenerConversation_proofs --------------------
(***************************************************************************)
(* Proofs about a conversation, for any set of leases, clients, messages   *)
(* and syncs, in five parts:                                               *)
(*                                                                         *)
(* 1. It implements TurnOwners: whatever the queue, the promise chain, the *)
(*    clients and the recovery do, its turns behave as TurnOwners says, so *)
(*    that the theorems of TurnOwners_proofs hold for them.                *)
(* 2. What a step may do to the queue and the books about its messages     *)
(*    (QueueStep), and that the queue stays typed and within its limit.    *)
(* 3. The promise chain: where a pump is scheduled there is one (PumpInv), *)
(*    and where one is needed it is scheduled or will be (Wake).           *)
(* 4. The order of the messages (OrderInv), and that none is accepted      *)
(*    twice (OnceInv).                                                   *)
(* 5. That no message is lost, but with a batch for a turn that is over    *)
(*    (Kept).                                                              *)
(***************************************************************************)
EXTENDS ListenerConversation, QueueItems_proofs, SequenceTheorems, TLAPS

\* The state of the lifecycle: run ids are not modelled here, and a turn that
\* is being cancelled has had its signal fired.
Held ==
  /\ turn \in TurnState /\ turn.runId = NoLease
  /\ turn.kind = "active" => turn.loopStatus \in ActiveTurnLoopStatus
  /\ turn.kind = "cancelling" => turn.lease \in aborted

\* An owner that awaits something has not returned.
OwnersRun ==
  /\ phase \in [Leases -> Phases]
  /\ running \subseteq used
  /\ \A l \in Leases : phase[l] \notin {"none", "gone"} => l \in running

IInv == Held /\ OwnersRun /\ approvals \subseteq Leases /\ ApprovalsOwned

\* Of a step only what it does to the turns, the owners and the approvals
\* matters.
Quiet == UNCHANGED <<lifecycle, phase, approvals>>

\* The lemmas below relate the operators of this module to those TurnOwners
\* brings along: they are the same ones.
LEMMA SameProgress ==
  ASSUME NEW t \in TurnState, NEW l, NEW s, NEW e, t.runId = NoLease
  PROVE  Lifecycle!WithExecuting(
           Lifecycle!WithRunId(Lifecycle!WithStatus(t, l, s), l, NoLease), l, e)
           = WithExecuting(WithStatus(t, l, s), l, e)
<1>1. Lifecycle!WithStatus(t, l, s) = WithStatus(t, l, s)
  BY DEF Lifecycle!WithStatus, WithStatus, Lifecycle!MayUpdate, MayUpdate,
         Lifecycle!IsCurrent, IsCurrent
<1>2. [WithStatus(t, l, s) EXCEPT !.runId = NoLease] = WithStatus(t, l, s)
  BY DEF WithStatus, TurnState
<1>3. Lifecycle!WithRunId(WithStatus(t, l, s), l, NoLease) = WithStatus(t, l, s)
  BY <1>2 DEF Lifecycle!WithRunId
<1>4. QED
  BY <1>1, <1>3 DEF Lifecycle!WithExecuting, WithExecuting, Lifecycle!MayUpdate, MayUpdate,
         Lifecycle!IsCurrent, IsCurrent

LEMMA SameCommands ==
  ASSUME NEW t
  PROVE  /\ Lifecycle!StartedCommand(t) = StartedCommand(t)
         /\ Lifecycle!FinishedCommand(t) = FinishedCommand(t)
BY DEF Lifecycle!StartedCommand, StartedCommand, Lifecycle!CommandState, CommandState,
       Lifecycle!IdleState, IdleState, Lifecycle!FinishedCommand, FinishedCommand

\* The states the methods build from scratch.
LEMMA FreshStates ==
  /\ IdleState \in TurnState /\ IdleState.runId = NoLease /\ IdleState.kind = "idle"
  /\ CommandState \in TurnState /\ CommandState.runId = NoLease /\ CommandState.kind = "command"
  /\ \A l \in Leases, s \in ActiveTurnLoopStatus :
       /\ ActiveState(l, s) \in TurnState
       /\ ActiveState(l, s).kind = "active" /\ ActiveState(l, s).lease = l
       /\ ActiveState(l, s).loopStatus = s /\ ActiveState(l, s).runId = NoLease
BY DEF TurnState, TurnKinds, LoopStatus, ActiveTurnLoopStatus, IdleState, CommandState,
       ActiveState

LEMMA InitEstablishes == Init => IInv /\ Lifecycle!Init
BY FreshStates
DEF Init, IInv, Held, OwnersRun, ApprovalsOwned, Phases, Lifecycle!Init, Lifecycle!IdleState,
    IdleState

\* What leaves the turns, the owners and the approvals alone.
LEMMA QuietPreserves == IInv /\ Quiet => IInv' /\ UNCHANGED Lifecycle!vars
BY DEF IInv, Quiet, lifecycle, Held, OwnersRun, ApprovalsOwned, Lifecycle!vars

\* A turn begins only in a conversation without one, so without approvals.
LEMMA BeginStep ==
  ASSUME IInv, NEW l \in Leases, NEW status, NEW first \in Phases, NEW conn,
         BeginTurn(l, status, first, conn)
  PROVE  IInv' /\ Lifecycle!Begin(l)
<1> USE DEF IInv, BeginTurn, Lifecycle!Begin
<1>1. PICK s \in ActiveTurnLoopStatus : turn' = ActiveState(l, s)
  BY DEF ActiveTurnLoopStatus, Lifecycle!ActiveState, ActiveState, Lifecycle!IdleState, IdleState
<1>2. Held'
  BY <1>1, FreshStates DEF Held
<1>3. OwnersRun'
  BY DEF OwnersRun
<1>4. approvals = {}
  BY DEF ApprovalsOwned, Lifecycle!CanBegin
<1>5. QED
  BY <1>2, <1>3, <1>4 DEF ApprovalsOwned

\* An owner that is told to go on reports progress with the lease it holds.
LEMMA ProceedStep ==
  ASSUME IInv, NEW l \in Leases, NEW from \in Phases \ {"none", "gone", "asking"},
         NEW to \in Phases \ {"none", "gone"},
         NEW status, NEW executing \in BOOLEAN,
         turn.kind = "active" => status \in ActiveTurnLoopStatus,
         phase[l] = from, phase' = [phase EXCEPT ![l] = to],
         turn' = WithExecuting(WithStatus(turn, l, status), l, executing),
         UNCHANGED <<used, running, aborted, cancels, discarded, terminals>>,
         \/ UNCHANGED <<stopReason, approvals>>
         \/ /\ MayUpdate(turn, l) /\ to = "asking"
            /\ stopReason' = "requires_approval" /\ approvals' = approvals \cup {l}
  PROVE  IInv' /\ Lifecycle!OwnerUpdate(l)
<1> USE DEF IInv
<1>1. l \in running
  BY DEF OwnersRun
<1>2. PICK s \in ActiveTurnLoopStatus :
        turn' = WithExecuting(WithStatus(turn, l, s), l, executing)
  BY DEF WithStatus, WithExecuting, MayUpdate, ActiveTurnLoopStatus
<1>3. turn' = Lifecycle!WithExecuting(
                Lifecycle!WithRunId(Lifecycle!WithStatus(turn, l, s), l, NoLease), l, executing)
  BY <1>2, SameProgress DEF Held
<1>4. stopReason' \in {stopReason} \cup
        IF Lifecycle!MayUpdate(turn, l) THEN Lifecycle!StopReasons \ {"none"} ELSE {}
  BY DEF MayUpdate, Lifecycle!MayUpdate, IsCurrent, Lifecycle!IsCurrent, Lifecycle!StopReasons
<1>5. Lifecycle!OwnerUpdate(l)
  BY <1>1, <1>3, <1>4 DEF Lifecycle!OwnerUpdate, Lifecycle!ActiveTurnLoopStatus,
                          ActiveTurnLoopStatus
<1>6. /\ turn' \in TurnState
      /\ turn'.kind = turn.kind /\ turn'.lease = turn.lease /\ turn'.runId = turn.runId
      /\ turn.kind = "active" => turn'.loopStatus \in ActiveTurnLoopStatus
  BY <1>2 DEF Held, TurnState, WithStatus, WithExecuting, LoopStatus
<1>7. Held'
  BY <1>6 DEF Held
<1>8. OwnersRun'
  BY DEF OwnersRun
<1>9. ApprovalsOwned'
  BY <1>6 DEF ApprovalsOwned, OwnersRun, MayUpdate, IsCurrent
<1>10. QED
  BY <1>5, <1>7, <1>8, <1>9

\* The steps of an owner that is still to go on: its abort signal has not
\* fired, so the turn is active (Held).
LEMMA LiveIsActive ==
  ASSUME IInv, NEW l \in Leases, Live(l)
  PROVE  /\ MayUpdate(turn, l)
         /\ turn.loopStatus \in ActiveTurnLoopStatus
         /\ turn.executing \in BOOLEAN
BY DEF IInv, Held, Live, IsCurrent, MayUpdate, TurnState

LEMMA LiveSteps ==
  ASSUME IInv, NEW l \in Leases,
         \/ TurnSetup(l) \/ TurnSent(l) \/ StaleApprovals(l) \/ TurnRetries(l)
         \/ TurnToolCalls(l) \/ TurnAsks(l) \/ TurnExecutes(l) \/ TurnContinues(l)
         \/ TurnCompletes(l)
  PROVE  IInv' /\ Lifecycle!OwnerUpdate(l)
<1>1. Live(l)
  BY DEF TurnSetup, TurnSent, StaleApprovals, TurnRetries, TurnToolCalls, TurnAsks,
         TurnExecutes, TurnContinues, TurnCompletes
<1>2. /\ MayUpdate(turn, l) /\ turn.loopStatus \in ActiveTurnLoopStatus
      /\ turn.executing \in BOOLEAN
  BY <1>1, LiveIsActive
<1>3. PICK from \in Phases \ {"none", "gone", "asking"}, to \in Phases \ {"none", "gone"},
           status \in ActiveTurnLoopStatus, executing \in BOOLEAN :
        /\ Proceed(l, from, to, status, executing)
        /\ \/ UNCHANGED <<stopReason, approvals>>
           \/ /\ to = "asking"
              /\ stopReason' = "requires_approval" /\ approvals' = approvals \cup {l}
  <2> USE DEF Phases, ActiveTurnLoopStatus
  <2>1. CASE TurnSetup(l) BY <1>2, <2>1 DEF TurnSetup
  <2>2. CASE TurnSent(l) BY <2>2 DEF TurnSent
  <2>3. CASE StaleApprovals(l) BY <2>3 DEF StaleApprovals
  <2>4. CASE TurnRetries(l) BY <1>2, <2>4 DEF TurnRetries
  <2>5. CASE TurnToolCalls(l) BY <1>2, <2>5 DEF TurnToolCalls
  <2>6. CASE TurnAsks(l) BY <1>2, <2>6 DEF TurnAsks
  <2>7. CASE TurnExecutes(l) BY <2>7 DEF TurnExecutes
  <2>8. CASE TurnContinues(l) BY <1>2, <2>8 DEF TurnContinues
  <2>9. CASE TurnCompletes(l) BY <1>2, <2>9 DEF TurnCompletes
  <2>10. QED
    BY <2>1, <2>2, <2>3, <2>4, <2>5, <2>6, <2>7, <2>8, <2>9
<1>4. QED
  BY <1>2, <1>3, ProceedStep DEF Proceed

\* A recovery goes on as long as it has the lease: its turn may be cancelling.
LEMMA RecoveryStep ==
  ASSUME IInv, NEW l \in Leases, RecoveryContinues(l)
  PROVE  IInv' /\ Lifecycle!OwnerUpdate(l)
<1>1. /\ phase[l] = "recover" /\ phase' = [phase EXCEPT ![l] = "setup"]
      /\ turn' = WithExecuting(WithStatus(turn, l, "SENDING_API_REQUEST"), l, FALSE)
      /\ UNCHANGED <<stopReason, used, running, aborted, cancels, discarded, terminals,
                     approvals>>
  BY DEF RecoveryContinues
<1>2. "recover" \in Phases \ {"none", "gone", "asking"} /\ "setup" \in Phases \ {"none", "gone"}
  BY DEF Phases
<1>3. "SENDING_API_REQUEST" \in ActiveTurnLoopStatus
  BY DEF ActiveTurnLoopStatus
<1>4. QED
  BY <1>1, <1>2, <1>3, ProceedStep

\* An owner that ends has no approval of its own out; a stale one ends without
\* touching the turn that has.
LEMMA EndsStep ==
  ASSUME IInv, NEW l \in Leases, TurnEnds(l)
  PROVE  IInv' /\ Lifecycle!OwnerFinish(l)
<1> USE DEF IInv
<1>1. /\ Lifecycle!OwnerFinish(l)
      /\ phase[l] = "asking" => l \notin approvals
      /\ phase' = [phase EXCEPT ![l] = "cleanup"] /\ UNCHANGED approvals
  BY DEF TurnEnds
<1>2. /\ l \in running
      /\ turn' = Finished(turn, l)
      /\ UNCHANGED <<used, running, aborted>>
  BY <1>1 DEF Lifecycle!OwnerFinish, Lifecycle!Finished, Finished, Lifecycle!FinishTakes,
              FinishTakes, Lifecycle!IsCurrent, IsCurrent, Lifecycle!IdleState, IdleState
<1>3. Held'
  BY <1>2, FreshStates DEF Held, Finished, TurnState
<1>4. OwnersRun'
  BY <1>1, <1>2 DEF OwnersRun, Phases
<1>5. approvals # {} => turn' = turn
  BY <1>1, <1>2 DEF ApprovalsOwned, Finished, FinishTakes, IsCurrent
<1>6. ApprovalsOwned'
  BY <1>1, <1>5 DEF ApprovalsOwned, OwnersRun
<1>7. QED
  BY <1>1, <1>3, <1>4, <1>6

LEMMA ReturnsStep ==
  ASSUME IInv, NEW l \in Leases, TurnReturns(l)
  PROVE  IInv' /\ Lifecycle!OwnerReturn(l)
<1>1. /\ Lifecycle!OwnerReturn(l)
      /\ phase[l] = "cleanup" /\ phase' = [phase EXCEPT ![l] = "gone"] /\ UNCHANGED approvals
  BY DEF TurnReturns
<1>2. /\ UNCHANGED <<turn, used, aborted>> /\ running' = running \ {l}
  BY <1>1 DEF Lifecycle!OwnerReturn
<1>3. QED
  BY <1>1, <1>2 DEF IInv, Held, OwnersRun, Phases, ApprovalsOwned

\* The user answers the running turn.
LEMMA ResponseStep ==
  ASSUME IInv, NEW l \in Leases, ApprovalResponse(l)
  PROVE  IInv' /\ UNCHANGED Lifecycle!vars
<1>1. /\ l \in approvals /\ approvals' = approvals \ {l}
      /\ phase' = [phase EXCEPT ![l] = "classified"] /\ UNCHANGED lifecycle
  BY DEF ApprovalResponse
<1>2. QED
  BY <1>1 DEF IInv, Held, OwnersRun, Phases, ApprovalsOwned, lifecycle, Lifecycle!vars

\* A cancellation fires the signal of the turn and leaves no approval out.
LEMMA CancellationStep ==
  ASSUME IInv, NEW waits \in BOOLEAN, Lifecycle!RequestCancellation(waits),
         approvals' \in {{}, approvals \ {turn.lease}}, UNCHANGED phase
  PROVE  IInv'
<1> USE DEF IInv
<1>1. /\ turn.kind = "active" /\ turn' = CancelRequested(turn, waits)
      /\ aborted' = aborted \cup {turn.lease} /\ UNCHANGED <<used, running>>
  BY DEF Lifecycle!RequestCancellation, Lifecycle!LiveLease, Lifecycle!CancelRequested,
         CancelRequested
<1>2. Held'
  BY <1>1 DEF Held, CancelRequested, TurnState, TurnKinds, LoopStatus
<1>3. approvals' = {}
  BY DEF ApprovalsOwned
<1>4. QED
  BY <1>1, <1>2, <1>3 DEF OwnersRun, ApprovalsOwned

LEMMA AbortStep ==
  ASSUME IInv, AbortMessage
  PROVE  IInv' /\ Lifecycle!RequestCancellation(TRUE)
BY CancellationStep DEF AbortMessage

LEMMA ClosesStep ==
  ASSUME IInv, NEW c \in Conns, Closes(c)
  PROVE  IInv' /\ (UNCHANGED Lifecycle!vars \/ Lifecycle!RequestCancellation(FALSE))
<1>1. UNCHANGED phase
  BY DEF Closes
<1>2. CASE UNCHANGED <<lifecycle, approvals>>
  BY <1>1, <1>2, QuietPreserves DEF Quiet, lifecycle
<1>3. CASE Lifecycle!RequestCancellation(FALSE) /\ approvals' = approvals \ {turn.lease}
  BY <1>1, <1>3, CancellationStep
<1>4. QED
  BY <1>2, <1>3 DEF Closes

\* The backend's answer concerns a turn that is being cancelled.
LEMMA SettlementStep ==
  ASSUME IInv, NEW l \in Leases, Settlement(l)
  PROVE  IInv' /\ Lifecycle!SettleCancellation(l)
<1> USE DEF IInv
<1>1. Lifecycle!SettleCancellation(l) /\ UNCHANGED <<phase, approvals>>
  BY DEF Settlement, owners
<1>2. turn' = Settled(turn, l) /\ UNCHANGED <<used, running, aborted>>
  BY <1>1 DEF Lifecycle!SettleCancellation, Lifecycle!Settled, Settled, Lifecycle!SettleTakes,
              SettleTakes, Lifecycle!IdleState, IdleState
<1>3. Held'
  BY <1>2, FreshStates DEF Held, Settled, TurnState
<1>4. turn.kind = "active" => turn' = turn
  BY <1>2 DEF Settled, SettleTakes
<1>5. OwnersRun' /\ ApprovalsOwned'
  BY <1>1, <1>2, <1>4 DEF OwnersRun, ApprovalsOwned
<1>6. QED
  BY <1>1, <1>3, <1>5

\* Commands run in a conversation without a turn.
LEMMA CommandStep ==
  ASSUME IInv, CommandStarts \/ CommandEnds
  PROVE  IInv' /\ Lifecycle!Command
<1> USE DEF IInv
<1>1. /\ turn' \in {StartedCommand(turn), FinishedCommand(turn)}
      /\ UNCHANGED <<stopReason, used, running, aborted, cancels, discarded, terminals>>
      /\ UNCHANGED <<phase, approvals>>
  BY DEF CommandStarts, CommandEnds, owners
<1>2. Lifecycle!Command
  BY <1>1, SameCommands DEF Lifecycle!Command
<1>3. Held'
  BY <1>1, FreshStates DEF Held, StartedCommand, FinishedCommand
<1>4. turn.kind = "active" => turn' = turn
  BY <1>1 DEF StartedCommand, FinishedCommand
<1>5. OwnersRun' /\ ApprovalsOwned'
  BY <1>1, <1>4 DEF OwnersRun, ApprovalsOwned
<1>6. QED
  BY <1>1, <1>2, <1>3, <1>5

LEMMA StopStep ==
  ASSUME IInv, Stop
  PROVE  IInv' /\ Lifecycle!Reset
<1>1. /\ Lifecycle!Reset /\ approvals' = {} /\ UNCHANGED phase
  BY DEF Stop
<1>2. turn' = IdleState /\ aborted \subseteq aborted' /\ UNCHANGED <<used, running>>
  BY <1>1 DEF Lifecycle!Reset, Lifecycle!IdleState, IdleState
<1>3. QED
  BY <1>1, <1>2, FreshStates DEF IInv, Held, OwnersRun, ApprovalsOwned

\* The chain starts a turn or leaves the turns alone.
LEMMA ChainStep ==
  ASSUME IInv, DispatchRuns \/ PumpStops \/ PumpTakes
  PROVE  IInv' /\ (UNCHANGED Lifecycle!vars \/ \E l \in Leases : Lifecycle!Begin(l))
<1>1. \/ UNCHANGED <<lifecycle, owners>>
      \/ \E l \in Leases : \E c : BeginTurn(l, "SENDING_API_REQUEST", "setup", c)
  <2>1. CASE PumpStops BY <2>1 DEF PumpStops
  <2>2. CASE PumpTakes BY <2>2 DEF PumpTakes
  <2>3. CASE DispatchRuns BY <2>3 DEF DispatchRuns
  <2>4. QED BY <2>1, <2>2, <2>3
<1>2. CASE UNCHANGED <<lifecycle, owners>>
  BY <1>2, QuietPreserves DEF Quiet, lifecycle, owners
<1>3. ASSUME NEW l \in Leases, NEW c, BeginTurn(l, "SENDING_API_REQUEST", "setup", c)
      PROVE  IInv' /\ Lifecycle!Begin(l)
  BY <1>3, BeginStep DEF Phases
<1>4. QED
  BY <1>1, <1>2, <1>3

LEMMA SyncStep ==
  ASSUME IInv, NEW s \in Syncs, RecoveryBegins(s)
  PROVE  IInv' /\ (UNCHANGED Lifecycle!vars \/ \E l \in Leases : Lifecycle!Begin(l))
<1>1. \/ UNCHANGED <<lifecycle, owners>>
      \/ \E l \in Leases : BeginTurn(l, "EXECUTING_CLIENT_SIDE_TOOL", "recover", NoConn)
  BY DEF RecoveryBegins
<1>2. CASE UNCHANGED <<lifecycle, owners>>
  BY <1>2, QuietPreserves DEF Quiet, lifecycle, owners
<1>3. ASSUME NEW l \in Leases, BeginTurn(l, "EXECUTING_CLIENT_SIDE_TOOL", "recover", NoConn)
      PROVE  IInv' /\ Lifecycle!Begin(l)
  BY <1>3, BeginStep DEF Phases
<1>4. QED
  BY <1>1, <1>2, <1>3

\* Inputs that only queue something, connections that open, syncs that read.
LEMMA OtherSteps ==
  ASSUME IInv,
         \/ \E c \in Conns : Connects(c) \/ RuntimeStarted(c) \/ Reconnects(c) \/ Suspends(c)
         \/ \E c \in Conns, m \in Messages : SendMessage(m, c)
         \/ \E s \in Syncs : SyncStarts(s) \/ SyncReads(s)
         \/ \E i \in store : RemoveQueueItem(i)
         \/ Notify \/ ResumeQueue \/ UNCHANGED vars
  PROVE  IInv' /\ UNCHANGED Lifecycle!vars
<1>1. UNCHANGED <<lifecycle, owners>>
  BY DEF Connects, RuntimeStarted, Reconnects, Pumps, Suspends, SendMessage, SyncStarts,
         SyncReads, RemoveQueueItem, Notify, ResumeQueue, vars
<1>2. QED
  BY <1>1, QuietPreserves DEF Quiet, lifecycle, owners

\* Every step keeps the invariant and is a step of TurnOwners, or none.
LEMMA StepImplements == IInv /\ [Next]_vars => IInv' /\ [Lifecycle!Next]_(Lifecycle!vars)
<1> SUFFICES ASSUME IInv, [Next]_vars
             PROVE  IInv' /\ [Lifecycle!Next]_(Lifecycle!vars)
  OBVIOUS
<1> USE DEF Lifecycle!Next, Lifecycle!OwnerStep
<1>1. CASE DispatchRuns \/ PumpStops \/ PumpTakes
  BY <1>1, ChainStep
<1>2. ASSUME NEW l \in Leases, OwnerStep(l) PROVE IInv' /\ Lifecycle!Next
  BY <1>2, LiveSteps, RecoveryStep, EndsStep, ReturnsStep DEF OwnerStep
<1>3. ASSUME NEW l \in Leases, ApprovalResponse(l) PROVE IInv' /\ UNCHANGED Lifecycle!vars
  BY <1>3, ResponseStep
<1>4. ASSUME NEW l \in Leases, Settlement(l) PROVE IInv' /\ Lifecycle!Next
  BY <1>4, SettlementStep
<1>5. ASSUME NEW c \in Conns, Closes(c) PROVE IInv' /\ [Lifecycle!Next]_(Lifecycle!vars)
  BY <1>5, ClosesStep
<1>6. ASSUME NEW s \in Syncs, RecoveryBegins(s)
      PROVE  IInv' /\ [Lifecycle!Next]_(Lifecycle!vars)
  BY <1>6, SyncStep
<1>7. CASE AbortMessage
  BY <1>7, AbortStep
<1>8. CASE CommandStarts \/ CommandEnds
  BY <1>8, CommandStep
<1>9. CASE Stop
  BY <1>9, StopStep
<1>10. QED
  BY <1>1, <1>2, <1>3, <1>4, <1>5, <1>6, <1>7, <1>8, <1>9, OtherSteps DEF Next, ConnStep

-----------------------------------------------------------------------------
\* Whatever the queue, the chain, the clients and the recovery do, the turns of
\* a conversation behave as TurnOwners says.
THEOREM TurnsAreImplemented == Spec => TurnsImplemented
<1>1. Init => IInv /\ Lifecycle!Init
  BY InitEstablishes
<1>2. IInv /\ [Next]_vars => IInv' /\ [Lifecycle!Next]_(Lifecycle!vars)
  BY StepImplements
<1>3. QED
  BY <1>1, <1>2, PTL DEF Spec, TurnsImplemented, Lifecycle!Spec

\* Only the running turn waits for an answer of the user.
THEOREM ApprovalsAreOwned == Spec => []ApprovalsOwned
<1>1. Init => IInv
  BY InitEstablishes
<1>2. IInv /\ [Next]_vars => IInv'
  BY StepImplements
<1>3. IInv => ApprovalsOwned
  BY DEF IInv
<1>4. QED
  BY <1>1, <1>2, <1>3, PTL DEF Spec

-----------------------------------------------------------------------------
(* What TurnOwners_proofs proves about turns holds in a conversation. *)

Owners == INSTANCE TurnOwners_proofs

\* Lifecycle and Owners are two instances of one specification.
LEMMA SameInit == Lifecycle!Init => Owners!Init
BY DEF Lifecycle!Init, Owners!Init, Lifecycle!IdleState, Owners!IdleState

LEMMA SameNext == [Lifecycle!Next]_(Lifecycle!vars) => [Owners!Next]_(Owners!vars)
<1>1. \A l : Lifecycle!Begin(l) => Owners!Begin(l)
  BY DEF Lifecycle!Begin, Owners!Begin, Lifecycle!CanBegin, Owners!CanBegin,
         Lifecycle!ActiveState, Owners!ActiveState, Lifecycle!IdleState,
         Owners!IdleState
<1>2. ASSUME NEW t, NEW l, NEW s, NEW r, NEW e
      PROVE  Lifecycle!WithExecuting(Lifecycle!WithRunId(Lifecycle!WithStatus(t, l, s), l, r), l, e)
               = Owners!WithExecuting(Owners!WithRunId(Owners!WithStatus(t, l, s), l, r), l, e)
  BY DEF Lifecycle!WithStatus, Owners!WithStatus, Lifecycle!WithRunId,
         Owners!WithRunId, Lifecycle!WithExecuting, Owners!WithExecuting,
         Lifecycle!MayUpdate, Owners!MayUpdate, Lifecycle!IsCurrent,
         Owners!IsCurrent
<1>3. \A l : Lifecycle!OwnerUpdate(l) => Owners!OwnerUpdate(l)
  <2> SUFFICES ASSUME NEW l, Lifecycle!OwnerUpdate(l)
               PROVE  Owners!OwnerUpdate(l)
    OBVIOUS
  <2> USE DEF Lifecycle!OwnerUpdate
  <2>1. PICK s \in Lifecycle!ActiveTurnLoopStatus, r \in {l, NoLease}, e \in BOOLEAN :
          turn' = Lifecycle!WithExecuting(
                    Lifecycle!WithRunId(Lifecycle!WithStatus(turn, l, s), l, r), l, e)
    OBVIOUS
  <2>2. turn' = Owners!WithExecuting(Owners!WithRunId(Owners!WithStatus(turn, l, s), l, r), l, e)
    BY <1>2, <2>1
  <2>3. s \in Owners!ActiveTurnLoopStatus
    BY DEF Lifecycle!ActiveTurnLoopStatus, Owners!ActiveTurnLoopStatus
  <2>4. stopReason' \in {stopReason} \cup
          IF Owners!MayUpdate(turn, l) THEN Owners!StopReasons \ {"none"} ELSE {}
    BY DEF Lifecycle!StopReasons, Owners!StopReasons, Lifecycle!MayUpdate,
           Owners!MayUpdate, Lifecycle!IsCurrent, Owners!IsCurrent
  <2>5. QED
    BY <2>2, <2>3, <2>4 DEF Owners!OwnerUpdate
<1>4. \A l : Lifecycle!OwnerFinish(l) => Owners!OwnerFinish(l)
  BY DEF Lifecycle!OwnerFinish, Owners!OwnerFinish, Lifecycle!Finished,
         Owners!Finished, Lifecycle!FinishTakes, Owners!FinishTakes,
         Lifecycle!IsCurrent, Owners!IsCurrent, Lifecycle!IdleState,
         Owners!IdleState
<1>5. \A l : Lifecycle!OwnerReturn(l) => Owners!OwnerReturn(l)
  BY DEF Lifecycle!OwnerReturn, Owners!OwnerReturn, Lifecycle!IsCurrent,
         Owners!IsCurrent
<1>6. \A w : Lifecycle!RequestCancellation(w) => Owners!RequestCancellation(w)
  BY DEF Lifecycle!RequestCancellation, Owners!RequestCancellation,
         Lifecycle!CancelRequested, Owners!CancelRequested, Lifecycle!LiveLease,
         Owners!LiveLease
<1>7. \A l : Lifecycle!SettleCancellation(l) => Owners!SettleCancellation(l)
  BY DEF Lifecycle!SettleCancellation, Owners!SettleCancellation,
         Lifecycle!Settled, Owners!Settled, Lifecycle!SettleTakes,
         Owners!SettleTakes, Lifecycle!IdleState, Owners!IdleState
<1>8. Lifecycle!Command => Owners!Command
  <2>1. Lifecycle!IdleState = Owners!IdleState
    BY DEF Lifecycle!IdleState, Owners!IdleState
  <2>2. Lifecycle!CommandState = Owners!CommandState
    BY <2>1 DEF Lifecycle!CommandState, Owners!CommandState
  <2>3. QED
    BY <2>1, <2>2
    DEF Lifecycle!Command, Owners!Command, Lifecycle!StartedCommand,
        Owners!StartedCommand, Lifecycle!FinishedCommand, Owners!FinishedCommand
<1>9. Lifecycle!Reset => Owners!Reset
  BY DEF Lifecycle!Reset, Owners!Reset, Lifecycle!LiveLease, Owners!LiveLease,
         Lifecycle!IdleState, Owners!IdleState
<1>10. QED
  BY <1>1, <1>3, <1>4, <1>5, <1>6, <1>7, <1>8, <1>9
  DEF Lifecycle!Next, Owners!Next, Lifecycle!OwnerStep, Owners!OwnerStep,
      Lifecycle!vars, Owners!vars

LEMMA SameSpec == Spec => Owners!Spec
BY SameInit, SameNext, TurnsAreImplemented, PTL
DEF TurnsImplemented, Lifecycle!Spec, Owners!Spec

\* Two owners never drive the conversation at once, although recovery starts
\* turns beside the chain.
THEOREM OneOwnerDrivesConversation == Spec => []Lifecycle!OneLiveOwner
<1>1. Owners!Spec => []Owners!OneLiveOwner
  BY Owners!OneOwnerDrives, NoLeaseAssumption
<1>2. Owners!OneLiveOwner => Lifecycle!OneLiveOwner
  BY DEF Owners!OneLiveOwner, Lifecycle!OneLiveOwner, Owners!Drives, Lifecycle!Drives
<1>3. QED
  BY <1>1, <1>2, SameSpec, PTL

\* While the backend still cancels a turn, the conversation starts no other.
THEOREM CancellationHoldsConversation == Spec => []Lifecycle!SettlementHeld
<1>1. Owners!Spec => []Owners!SettlementHeld
  BY Owners!CancellationIsHeld, NoLeaseAssumption
<1>2. Owners!SettlementHeld => Lifecycle!SettlementHeld
  BY DEF Owners!SettlementHeld, Lifecycle!SettlementHeld
<1>3. QED
  BY <1>1, <1>2, SameSpec, PTL

\* A turn of the conversation ends once, and no owner returns without an end.
THEOREM TurnEndsOnceInConversation == Spec => []Lifecycle!OneTerminal
<1>1. Owners!Spec => []Owners!OneTerminal
  BY Owners!TurnEndsOnce, NoLeaseAssumption
<1>2. Owners!OneTerminal => Lifecycle!OneTerminal
  BY DEF Owners!OneTerminal, Lifecycle!OneTerminal
<1>3. QED
  BY <1>1, <1>2, SameSpec, PTL

-----------------------------------------------------------------------------
(* The sequence of accepted messages *)

\* RemoveFirst leaves out one element, if it is there.
LEMMA RemoveFirstIs ==
  ASSUME NEW S, NEW s \in Seq(S), NEW e
  PROVE  \/ \E p \in 1 .. Len(s) : s[p] = e /\ RemoveFirst(s, e) = RemoveAt(s, p)
         \/ e \notin ToSet(s) /\ RemoveFirst(s, e) = s
<1>0. DOMAIN s = 1 .. Len(s) /\ Len(s) \in Nat
  OBVIOUS
<1>1. CASE \E i \in 1 .. Len(s) : s[i] = e
  <2> DEFINE I == {i \in 1 .. Len(s) : s[i] = e}
  <2>1. I # {} /\ I \subseteq Nat
    BY <1>0, <1>1
  <2>2. \E p \in I : \A i \in I : p <= i
    BY <2>1, LeastId
  <2>3. Min(I) \in I
    BY <2>2 DEF Min
  <2>4. RemoveFirst(s, e) = RemoveAt(s, Min(I))
    BY <1>1, <2>1 DEF RemoveFirst, SelectInSeq
  <2>5. QED
    BY <2>3, <2>4
<1>2. CASE ~ \E i \in 1 .. Len(s) : s[i] = e
  BY <1>0, <1>2 DEF RemoveFirst, ToSet
<1>3. QED
  BY <1>1, <1>2

LEMMA RemoveAtIs ==
  ASSUME NEW S, NEW s \in Seq(S), NEW p \in 1 .. Len(s)
  PROVE  /\ RemoveAt(s, p) \in Seq(S)
         /\ Len(RemoveAt(s, p)) = Len(s) - 1
         /\ \A i \in 1 .. Len(s) - 1 : RemoveAt(s, p)[i] = IF i < p THEN s[i] ELSE s[i + 1]
<1> DEFINE a == SubSeq(s, 1, p - 1)
           b == SubSeq(s, p + 1, Len(s))
<1>1. Len(s) \in Nat /\ p \in Nat /\ p >= 1 /\ p <= Len(s)
  OBVIOUS
<1>2. a \in Seq(S) /\ Len(a) = p - 1 /\ \A i \in 1 .. p - 1 : a[i] = s[i]
  BY <1>1, SubSeqProperties
<1>3. b \in Seq(S) /\ Len(b) = Len(s) - p /\ \A i \in 1 .. Len(s) - p : b[i] = s[p + i]
  BY <1>1, SubSeqProperties
<1>4. RemoveAt(s, p) = a \o b
  BY DEF RemoveAt
<1> HIDE DEF a, b
<1>5. /\ a \o b \in Seq(S) /\ Len(a \o b) = Len(a) + Len(b)
      /\ \A i \in 1 .. Len(a) + Len(b) :
           (a \o b)[i] = IF i <= Len(a) THEN a[i] ELSE b[i - Len(a)]
  BY <1>2, <1>3, ConcatProperties
<1>6. RemoveAt(s, p) \in Seq(S) /\ Len(RemoveAt(s, p)) = Len(s) - 1
  BY <1>1, <1>2, <1>3, <1>4, <1>5
<1>7. ASSUME NEW i \in 1 .. Len(s) - 1
      PROVE  RemoveAt(s, p)[i] = IF i < p THEN s[i] ELSE s[i + 1]
  <2>1. RemoveAt(s, p)[i] = IF i <= p - 1 THEN a[i] ELSE b[i - (p - 1)]
    BY <1>1, <1>2, <1>3, <1>4, <1>5
  <2>2. CASE i < p
    BY <1>1, <1>2, <2>1, <2>2
  <2>3. CASE ~(i < p)
    <3>1. i - (p - 1) \in 1 .. Len(s) - p /\ p + (i - (p - 1)) = i + 1 /\ ~(i <= p - 1)
      BY <1>1, <2>3
    <3>2. QED
      BY <1>3, <2>1, <2>3, <3>1
  <2>4. QED
    BY <2>2, <2>3
<1>8. QED
  BY <1>6, <1>7

\* An element that is moved to the end, or put there for the first time.
Moved(s, e, t) ==
  /\ IsInjective(t) /\ ToSet(t) = ToSet(s) \cup {e}
  /\ Len(t) = IF e \in ToSet(s) THEN Len(s) ELSE Len(s) + 1

LEMMA MovedToEnd ==
  ASSUME NEW S, NEW s \in Seq(S), IsInjective(s), NEW e \in S,
         NEW t, t = Append(RemoveFirst(s, e), e)
  PROVE  t \in Seq(S) /\ Moved(s, e, t)
<1> USE DEF Moved
<1>r. PICK r : r = RemoveFirst(s, e) /\ t = Append(r, e)
  OBVIOUS
<1>0. DOMAIN s = 1 .. Len(s) /\ Len(s) \in Nat
  OBVIOUS
<1>1. CASE \E p \in 1 .. Len(s) : s[p] = e /\ r = RemoveAt(s, p)
  <2>1. PICK p \in 1 .. Len(s) : s[p] = e /\ r = RemoveAt(s, p)
    BY <1>1
  <2>2. /\ r \in Seq(S) /\ Len(r) = Len(s) - 1
        /\ \A i \in 1 .. Len(s) - 1 : r[i] = IF i < p THEN s[i] ELSE s[i + 1]
    BY <2>1, RemoveAtIs
  <2>a. /\ t \in Seq(S) /\ Len(t) = Len(r) + 1 /\ t[Len(r) + 1] = e
        /\ \A i \in 1 .. Len(r) : t[i] = r[i]
    BY <1>r, <2>2, AppendProperties
  <2>3. /\ t \in Seq(S) /\ Len(t) = Len(s) /\ t[Len(s)] = e
        /\ \A i \in 1 .. Len(s) - 1 : t[i] = IF i < p THEN s[i] ELSE s[i + 1]
    BY <1>0, <2>2, <2>a
  <2>4. DOMAIN t = 1 .. Len(s)
    BY <2>3
  <2> DEFINE from(i) == IF i = Len(s) THEN p ELSE IF i < p THEN i ELSE i + 1
             to(i) == IF i = p THEN Len(s) ELSE IF i < p THEN i ELSE i - 1
  <2>5. ASSUME NEW i \in 1 .. Len(s)
        PROVE  /\ from(i) \in 1 .. Len(s) /\ t[i] = s[from(i)] /\ to(from(i)) = i
               /\ to(i) \in 1 .. Len(s) /\ from(to(i)) = i
    <3>1. /\ from(i) \in 1 .. Len(s) /\ to(from(i)) = i
          /\ to(i) \in 1 .. Len(s) /\ from(to(i)) = i
      <4>1. i \in Int /\ p \in Int /\ Len(s) \in Int /\ 1 <= i /\ i <= Len(s) /\ 1 <= p /\ p <= Len(s)
        BY <1>0, <2>1
      <4>2. CASE i < p BY <4>1, <4>2
      <4>3. CASE i = p BY <4>1, <4>3
      <4>4. CASE i > p BY <4>1, <4>4
      <4>5. QED BY <4>1, <4>2, <4>3, <4>4
    <3>2. t[i] = s[from(i)]
      <4>1. CASE i = Len(s)
        BY <2>1, <2>3, <4>1
      <4>2. CASE i # Len(s)
        <5>1. i \in 1 .. Len(s) - 1
          <6>1. Len(s) \in Nat
            BY <1>0
          <6>2. QED
            BY <4>2, <6>1
        <5>2. QED
          BY <2>3, <4>2, <5>1
      <4>3. QED
        BY <4>1, <4>2
    <3>3. QED
      BY <3>1, <3>2
  <2> HIDE DEF from, to
  <2>6. ASSUME NEW i \in 1 .. Len(s), NEW j \in 1 .. Len(s), t[i] = t[j] PROVE i = j
    <3>1. s[from(i)] = s[from(j)] /\ from(i) \in DOMAIN s /\ from(j) \in DOMAIN s
      BY <1>0, <2>5, <2>6
    <3>2. from(i) = from(j)
      BY <3>1 DEF IsInjective
    <3>3. QED
      BY <2>5, <3>2
  <2>7. IsInjective(t)
    BY <2>4, <2>6 DEF IsInjective
  <2>b. ToSet(t) = ToSet(s)
    <3>1. \A i \in 1 .. Len(s) : t[i] \in ToSet(s)
      BY <1>0, <2>5 DEF ToSet
    <3>2. ASSUME NEW i \in 1 .. Len(s) PROVE s[i] \in ToSet(t)
      <4>1. to(i) \in DOMAIN t /\ t[to(i)] = s[i]
        BY <2>4, <2>5
      <4>2. QED
        BY <4>1 DEF ToSet
    <3>3. QED
      BY <1>0, <2>4, <3>1, <3>2 DEF ToSet
  <2>8. e \in ToSet(s)
    BY <1>0, <2>1 DEF ToSet
  <2>9. QED
    BY <2>3, <2>7, <2>b, <2>8
<1>2. CASE e \notin ToSet(s) /\ r = s
  <2>1. /\ t \in Seq(S) /\ Len(t) = Len(s) + 1 /\ t[Len(s) + 1] = e
        /\ \A i \in 1 .. Len(s) : t[i] = s[i]
    BY <1>0, <1>r, <1>2, AppendProperties
  <2>2. DOMAIN t = 1 .. Len(s) + 1
    BY <2>1
  <2>3. IsInjective(t)
    BY <1>0, <1>2, <2>1, <2>2 DEF IsInjective, ToSet
  <2>4. ToSet(t) = ToSet(s) \cup {e}
    BY <1>0, <2>1, <2>2 DEF ToSet
  <2>5. QED
    BY <1>2, <2>1, <2>3, <2>4
<1>3. QED
  BY <1>1, <1>2, <1>r, RemoveFirstIs

-----------------------------------------------------------------------------
(* What a step may do to the queue and to the books kept about its messages *)

\* A step that touches nothing else may find the queue empty and evict the
\* runtime: it forgets the accepted ids, and no message waits.
Remembers(known) ==
  \/ accepted' = known /\ rested' = rested
  \/ accepted' \in {<<>>, known} /\ rested' = Len(served') /\ store' = {}

LEMMA EvictingRemembers ==
  ASSUME NEW known, NEW phases, EvictIfIdle(known, phases)
  PROVE  Remembers(known)
BY DEF EvictIfIdle, Evictable, AtRest, Direct, Remembers

Notified ==
  /\ \E kind \in {"task_notification", "mod_continue"} : EnqueueSystem(kind)
  /\ UNCHANGED <<accepted, rested, acked, served, lost>>
Accepts ==
  \E m \in Messages, c \in Conns :
    ~IsAccepted(m) /\ EnqueueUser(m, c) /\ UNCHANGED <<rested, served, lost>>
Takes(outcomes) == \E items \in SteeringBatches, live \in outcomes : Take(items, live)
Rearranged ==
  /\ \E items \in {Paused(store), Resumed(store)} \cup SUBSET store : QueueBecomes(items)
  /\ UNCHANGED <<nextId, acked, served, lost>> /\ Remembers(accepted)
Starts ==
  /\ store = {}
  /\ \E m \in Messages : ~IsAccepted(m) /\ Remember(m) /\ served' = Append(served, m)
  /\ UNCHANGED <<queue, rested, lost>>
Retried ==
  /\ \E m \in Messages : IsAccepted(m) /\ Remembers(Touched(m))
  /\ UNCHANGED <<queue, acked, served, lost>>
Rests == UNCHANGED <<queue, acked, served, lost>> /\ Remembers(accepted)

QueueStep(outcomes) ==
  Notified \/ Accepts \/ Takes(outcomes) \/ Rearranged \/ Starts \/ Retried \/ Rests

\* Items are lost only by batches of a connection that closed, and by a
\* recovery that was cancelled.
NoneGone == RemoteConns = Conns /\ Syncs = {}
NoRecovery == \A l \in Leases : phase[l] # "recover"
Outcomes == IF NoneGone /\ NoRecovery THEN {TRUE} ELSE BOOLEAN

-----------------------------------------------------------------------------
(* The queue and its books stay typed, and within the limit *)

\* What a listener queues: messages of users, and work of the process.
Listed(items, top) ==
  /\ Queued(items, top) /\ Cardinality(items) <= MaxItems
  /\ \A i \in items : /\ i.kind \in {"message", "task_notification", "mod_continue"}
                      /\ i.kind = "message" => i.source = "user"

Input == [msg : Messages, conn : Conns]

\* The queue and its books: the queue within its soft limit, one input per
\* queued message, and nothing but messages in the books.
QueueTyped ==
  /\ nextId \in Nat /\ Listed(store, nextId)
  /\ inputs \in [MessageIds(store) -> Input]
  /\ cancelled \subseteq Messages
  /\ acked \in Seq(Messages) /\ served \in Seq(Messages)
  /\ rested \in 0 .. Len(served) /\ lost \subseteq Sources

AcceptedTyped ==
  accepted \in Seq(Messages) /\ IsInjective(accepted) /\ Len(accepted) <= MaxAccepted

QInv == QueueTyped /\ AcceptedTyped

\* A batch is a part of the queue, and its messages have inputs.
LEMMA BatchIn ==
  ASSUME NEW items \in SteeringBatches
  PROVE  items \subseteq Ready(store) /\ items \subseteq store
BY DEF SteeringBatches, Batches, FrontItems, Ready

LEMMA MessageIdsIn ==
  ASSUME NEW top \in Nat, NEW items, Queued(items, top)
  PROVE  MessageIds(items) \subseteq Nat /\ IsFiniteSet(MessageIds(items))
<1>1. MessageIds(items) \subseteq 1 .. top
  BY DEF MessageIds, Queued
<1>2. IsFiniteSet(1 .. top) /\ 1 .. top \subseteq Nat
  BY FS_Interval
<1>3. QED
  BY <1>1, <1>2, Finite

\* A new item is one of the queue's, whatever it is.
LEMMA NewItemIs ==
  ASSUME nextId \in Nat, NEW kind \in QueueItemKinds, NEW source \in Sources
  PROVE  /\ NewItem(kind, source) \in QueueItem /\ NewItem(kind, source).id = nextId + 1
         /\ NewItem(kind, source).kind = kind /\ NewItem(kind, source).source = source
         /\ NewItem(kind, source).paused = FALSE
<1>1. (CHOOSE s \in Scopes : TRUE) \in Scopes
  BY ScopesAssumption
<1>2. QED
  BY <1>1 DEF NewItem, QueueItem

\* Lists stay lists.
LEMMA EnqueuedListed ==
  ASSUME NEW items, NEW top \in Nat, Listed(items, top),
         NEW item \in QueueItem, item.id = top + 1, NEW next,
         item.kind \in {"message", "task_notification", "mod_continue"},
         item.kind = "message" => item.source = "user",
         next \in {items, Enqueued(items, item)}
  PROVE  Listed(next, top + 1)
<1>1. Queued(items, top) /\ Cardinality(items) <= MaxItems
  BY DEF Listed
<1>2. Coalescable(items) = items
  BY DEF Listed, Coalescable, CoalescableKinds
<1>3. Queued(Enqueued(items, item), top + 1)
  BY <1>1, EnqueuedQueued
<1>4. Cardinality(Coalescable(Enqueued(items, item))) <= MaxItems
  BY <1>1, <1>2, EnqueuedCoalescable
<1>5. Enqueued(items, item) \subseteq items \cup {item}
  BY DEF Enqueued
<1>6. Coalescable(Enqueued(items, item)) = Enqueued(items, item)
  BY <1>5 DEF Listed, Coalescable, CoalescableKinds
<1>7. Listed(Enqueued(items, item), top + 1)
  BY <1>3, <1>4, <1>5, <1>6 DEF Listed
<1>8. Queued(items, top + 1)
  BY <1>1 DEF Queued
<1>9. QED
  BY <1>7, <1>8 DEF Listed

\* pause() and resume() change nothing but a flag.
SameItem(i, j) == i.id = j.id /\ i.kind = j.kind /\ i.source = j.source

LEMMA FlagsOnly ==
  ASSUME NEW items, NEW top \in Nat, Queued(items, top),
         NEW next, next \in {Paused(items), Resumed(items)}
  PROVE  /\ \A j \in next : \E i \in items : SameItem(i, j)
         /\ \A i \in items : \E j \in next : SameItem(i, j)
         /\ MessageIds(next) = MessageIds(items)
         /\ Queued(next, top) /\ Cardinality(next) <= Cardinality(items)
<1>1. ASSUME NEW i \in items, NEW b PROVE SameItem(i, [i EXCEPT !.paused = b])
  BY DEF SameItem, Queued, QueueItem
<1>2. /\ \A j \in next : \E i \in items : SameItem(i, j)
      /\ \A i \in items : \E j \in next : SameItem(i, j)
  <2>1. \E b : next = {[i EXCEPT !.paused = b[i]] : i \in items}
    <3>1. CASE next = Paused(items)
      <4> DEFINE b == [i \in items |-> i.paused \/ Parkable(i)]
      <4>1. \A i \in items : [i EXCEPT !.paused = i.paused \/ Parkable(i)] = [i EXCEPT !.paused = b[i]]
        OBVIOUS
      <4>2. next = {[i EXCEPT !.paused = i.paused \/ Parkable(i)] : i \in items}
        BY <3>1 DEF Paused
      <4> HIDE DEF b
      <4>3. next = {[i EXCEPT !.paused = b[i]] : i \in items}
        BY <4>1, <4>2
      <4>4. QED
        BY <4>3
    <3>2. CASE next = Resumed(items)
      <4> DEFINE b == [i \in items |-> FALSE]
      <4>1. next = {[i EXCEPT !.paused = b[i]] : i \in items}
        BY <3>2 DEF Resumed
      <4>2. QED
        BY <4>1
    <3>3. QED
      BY <3>1, <3>2
  <2>2. PICK b : next = {[i EXCEPT !.paused = b[i]] : i \in items}
    BY <2>1
  <2>3. ASSUME NEW j \in next PROVE \E i \in items : SameItem(i, j)
    <3>1. PICK i \in items : j = [i EXCEPT !.paused = b[i]]
      BY <2>2
    <3>2. QED
      BY <1>1, <3>1
  <2>4. ASSUME NEW i \in items PROVE \E j \in next : SameItem(i, j)
    <3>1. [i EXCEPT !.paused = b[i]] \in next
      BY <2>2
    <3>2. QED
      BY <1>1, <3>1
  <2>5. QED
    BY <2>3, <2>4
<1>3. MessageIds(next) = MessageIds(items)
  BY <1>2 DEF MessageIds, SameItem
<1>4. Queued(next, top) /\ Cardinality(next) <= Cardinality(items)
  BY PausedQueued, ResumedQueued
<1>5. QED
  BY <1>2, <1>3, <1>4

LEMMA RearrangedListed ==
  ASSUME NEW items, NEW top \in Nat, Listed(items, top), NEW next,
         next \in {Paused(items), Resumed(items)} \cup SUBSET items
  PROVE  Listed(next, top) /\ MessageIds(next) \subseteq MessageIds(items)
<1>1. Queued(items, top) /\ Cardinality(items) <= MaxItems /\ Cardinality(items) \in Nat
  BY FS_CardinalityType DEF Listed, Queued
<1>2. /\ Queued(next, top) /\ Cardinality(next) <= Cardinality(items)
      /\ \A j \in next : \E i \in items : SameItem(i, j)
  <2>1. CASE next \subseteq items
    BY <1>1, <2>1, SubsetQueued DEF SameItem
  <2>2. CASE next \in {Paused(items), Resumed(items)}
    BY <1>1, <2>2, FlagsOnly
  <2>3. QED
    BY <2>1, <2>2
<1>3. Cardinality(next) \in Nat
  BY <1>2, FS_CardinalityType DEF Queued
<1>4. Cardinality(next) <= MaxItems
  BY <1>1, <1>2, <1>3, LimitsAssumption
<1>5. QED
  BY <1>2, <1>4 DEF Listed, SameItem, MessageIds

\* A message that is asked for again moves to the end of the disposition map.
LEMMA TouchedIs ==
  ASSUME AcceptedTyped, NEW m \in Messages
  PROVE  /\ Touched(m) \in Seq(Messages) /\ IsInjective(Touched(m))
         /\ ToSet(Touched(m)) = ToSet(accepted) \cup {m}
         /\ Len(Touched(m)) = IF IsAccepted(m) THEN Len(accepted) ELSE Len(accepted) + 1
<1>1. accepted \in Seq(Messages) /\ IsInjective(accepted)
  BY DEF AcceptedTyped
<1>2. PICK t : t = Touched(m)
  OBVIOUS
<1>3. t = Append(RemoveFirst(accepted, m), m)
  BY <1>2 DEF Touched
<1>4. t \in Seq(Messages) /\ Moved(accepted, m, t)
  BY <1>1, <1>3, MovedToEnd
<1>5. QED
  BY <1>2, <1>4 DEF IsAccepted, Moved

\* The queue steps keep QInv.
LEMMA RememberTyped ==
  ASSUME QInv, NEW m \in Messages, Remember(m)
  PROVE  AcceptedTyped' /\ acked' \in Seq(Messages)
<1>0. accepted \in Seq(Messages) /\ IsInjective(accepted) /\ Len(accepted) <= MaxAccepted
      /\ Len(accepted) \in Nat
  BY LenProperties DEF QInv, AcceptedTyped
<1> DEFINE t == Touched(m)
<1>1. /\ t \in Seq(Messages) /\ IsInjective(t)
      /\ Len(t) = IF m \in ToSet(accepted) THEN Len(accepted) ELSE Len(accepted) + 1
  BY TouchedIs DEF QInv, IsAccepted
<1>2. acked' \in Seq(Messages)
  BY AppendProperties DEF Remember, QInv, QueueTyped
<1>3. CASE Len(t) > MaxAccepted
  <2>1. accepted' = Tail(t)
    BY <1>3 DEF Remember
  <2>2. Len(t) = MaxAccepted + 1 /\ t # <<>>
    BY <1>0, <1>1, <1>3, MaxAcceptedAssumption, EmptySeq
  <2>3. /\ Tail(t) \in Seq(Messages) /\ Len(Tail(t)) = MaxAccepted
        /\ \A i \in 1 .. Len(Tail(t)) : Tail(t)[i] = t[i + 1]
    BY <1>1, <2>2, MaxAcceptedAssumption, HeadTailProperties
  <2>4. DOMAIN t = 1 .. MaxAccepted + 1 /\ DOMAIN Tail(t) = 1 .. MaxAccepted
    BY <1>1, <2>2, <2>3
  <2> HIDE DEF t
  <2>5. ASSUME NEW i \in 1 .. MaxAccepted, NEW j \in 1 .. MaxAccepted,
               Tail(t)[i] = Tail(t)[j]
        PROVE  i = j
    <3>1. t[i + 1] = t[j + 1] /\ i + 1 \in DOMAIN t /\ j + 1 \in DOMAIN t
      BY <2>3, <2>4, <2>5, MaxAcceptedAssumption
    <3>2. i + 1 = j + 1
      BY <1>1, <3>1 DEF IsInjective
    <3>3. QED
      BY <3>2, MaxAcceptedAssumption
  <2>6. IsInjective(Tail(t))
    BY <2>4, <2>5 DEF IsInjective
  <2>7. QED
    BY <1>2, <2>1, <2>3, <2>6, MaxAcceptedAssumption DEF AcceptedTyped
<1>4. CASE ~(Len(t) > MaxAccepted)
  <2>1. accepted' = t
    BY <1>4 DEF Remember
  <2>2. QED
    BY <1>0, <1>1, <1>2, <1>4, <2>1, MaxAcceptedAssumption DEF AcceptedTyped
<1>5. QED
  BY <1>3, <1>4

\* ... with or without an eviction.
LEMMA RemembersTyped ==
  ASSUME QInv, NEW known \in Seq(Messages), IsInjective(known), Len(known) <= MaxAccepted,
         Remembers(known), served' \in Seq(Messages), Len(served) <= Len(served')
  PROVE  AcceptedTyped' /\ rested' \in 0 .. Len(served')
<1>1. rested \in 0 .. Len(served) /\ Len(served) \in Nat /\ Len(served') \in Nat
  BY LenProperties DEF QInv, QueueTyped
<1>2. <<>> \in Seq(Messages) /\ IsInjective(<<>>) /\ Len(<<>>) = 0
  BY DEF IsInjective
<1>3. accepted' \in {<<>>, known} /\ rested' \in {rested, Len(served')}
  BY DEF Remembers
<1>4. CASE accepted' = <<>>
  BY <1>1, <1>2, <1>3, <1>4, MaxAcceptedAssumption DEF AcceptedTyped
<1>5. CASE accepted' = known
  BY <1>1, <1>3, <1>5 DEF AcceptedTyped
<1>6. QED
  BY <1>3, <1>4, <1>5

\* What is left of the inputs, and what is announced.
LEMMA QueueWithTyped ==
  ASSUME QInv, NEW items, NEW known, MessageIds(items) \subseteq DOMAIN known,
         \A id \in DOMAIN known : known[id] \in Input, QueueWith(items, known)
  PROVE  /\ store' = items /\ inputs' \in [MessageIds(items) -> Input]
         /\ cancelled' \subseteq Messages
<1>1. inputs' \in [MessageIds(items) -> Input]
  BY DEF QueueWith, InputsOf
<1>2. \A id \in DOMAIN inputs : inputs[id].msg \in Messages
  BY DEF QInv, QueueTyped, Input
<1>3. cancelled' \subseteq Messages
  BY <1>2 DEF QueueWith, QInv, QueueTyped
<1>4. QED
  BY <1>1, <1>3 DEF QueueWith

LEMMA NotifiedTyped ==
  ASSUME QInv, Notified
  PROVE  QInv'
<1>0. nextId \in Nat /\ Listed(store, nextId) /\ inputs \in [MessageIds(store) -> Input]
  BY DEF QInv, QueueTyped
<1>1. PICK kind \in {"task_notification", "mod_continue"} : EnqueueSystem(kind)
  BY DEF Notified
<1> DEFINE item == NewItem(kind, "system")
           items == IF AtCeiling(store) THEN store ELSE Enqueued(store, item)
<1>2. /\ item \in QueueItem /\ item.id = nextId + 1 /\ item.kind = kind
  BY <1>0, NewItemIs DEF QueueItemKinds, CoalescableKinds, BarrierKinds, Sources
<1> HIDE DEF item
<1>3. Listed(items, nextId + 1)
  <2>1. items \in {store, Enqueued(store, item)} /\ item.kind # "message"
    BY <1>2
  <2> HIDE DEF items
  <2>2. QED
    BY <1>0, <1>2, <2>1, EnqueuedListed
<1>4. MessageIds(items) \subseteq MessageIds(store)
  BY <1>2 DEF MessageIds, Enqueued
<1>5. QueueWith(items, inputs) /\ nextId' = nextId + 1
  BY <1>1 DEF EnqueueSystem, QueueBecomes, item
<1> HIDE DEF items
<1>6. /\ store' = items /\ inputs' \in [MessageIds(items) -> Input]
      /\ cancelled' \subseteq Messages
  BY <1>0, <1>4, <1>5, QueueWithTyped
<1>7. UNCHANGED <<accepted, rested, acked, served, lost>>
  BY DEF Notified
<1>8. QED
  BY <1>0, <1>3, <1>5, <1>6, <1>7 DEF QInv, QueueTyped, AcceptedTyped

LEMMA AcceptsTyped ==
  ASSUME QInv, Accepts
  PROVE  QInv'
<1>0. nextId \in Nat /\ Listed(store, nextId) /\ inputs \in [MessageIds(store) -> Input]
  BY DEF QInv, QueueTyped
<1>1. PICK m \in Messages, c \in Conns : EnqueueUser(m, c)
  BY DEF Accepts
<1> DEFINE item == NewItem("message", "user")
           items == IF AtCeiling(store) THEN Resumed(store) ELSE Enqueued(Resumed(store), item)
           known == WithInput(item.id, m, c)
<1>2. /\ item \in QueueItem /\ item.id = nextId + 1
      /\ item.kind = "message" /\ item.source = "user"
  BY <1>0, NewItemIs DEF QueueItemKinds, CoalescableKinds, BarrierKinds, Sources
<1>3. QueueWith(items, known) /\ nextId' = nextId + 1
  BY <1>1 DEF EnqueueUser
<1>a. \/ UNCHANGED <<accepted, acked>>
      \/ Remember(m)
  BY <1>1 DEF EnqueueUser
<1> HIDE DEF item
<1>4. Listed(Resumed(store), nextId) /\ MessageIds(Resumed(store)) \subseteq MessageIds(store)
  BY <1>0, RearrangedListed
<1>5. Listed(items, nextId + 1)
  <2>1. items \in {Resumed(store), Enqueued(Resumed(store), item)}
    OBVIOUS
  <2> HIDE DEF items
  <2>2. QED
    BY <1>0, <1>2, <1>4, <2>1, EnqueuedListed
<1>6. MessageIds(items) \subseteq MessageIds(store) \cup {item.id}
  BY <1>4 DEF MessageIds, Enqueued
<1>7. DOMAIN known = MessageIds(store) \cup {item.id} /\ \A id \in DOMAIN known : known[id] \in Input
  BY <1>0 DEF WithInput, Input
<1> HIDE DEF items, known
<1>8. /\ store' = items /\ inputs' \in [MessageIds(items) -> Input]
      /\ cancelled' \subseteq Messages
  BY <1>3, <1>6, <1>7, QueueWithTyped
<1>9. AcceptedTyped' /\ acked' \in Seq(Messages)
  <2>1. CASE UNCHANGED <<accepted, acked>>
    BY <2>1 DEF QInv, QueueTyped, AcceptedTyped
  <2>2. CASE Remember(m)
    BY <2>2, RememberTyped
  <2>3. QED
    BY <1>a, <2>1, <2>2
<1>10. UNCHANGED <<rested, served, lost>>
  BY DEF Accepts
<1>11. QED
  BY <1>0, <1>3, <1>5, <1>8, <1>9, <1>10 DEF QInv, QueueTyped

LEMMA BatchMessagesTyped ==
  ASSUME QInv, NEW items, items \subseteq store
  PROVE  /\ BatchMessages(items) \in Seq(Messages)
         /\ Len(BatchMessages(items)) = Cardinality(MessageIds(items))
         /\ \A k \in 1 .. Cardinality(MessageIds(items)) :
              /\ BatchMessages(items)[k] = inputs[Nth(MessageIds(items), k)].msg
              /\ Nth(MessageIds(items), k) \in MessageIds(items)
<1>1. MessageIds(items) \subseteq MessageIds(store)
  BY DEF MessageIds
<1>2. nextId \in Nat /\ Queued(store, nextId) /\ inputs \in [MessageIds(store) -> Input]
  BY DEF QInv, QueueTyped, Listed
<1>3. MessageIds(items) \subseteq Nat /\ IsFiniteSet(MessageIds(items))
  BY <1>1, <1>2, MessageIdsIn, Finite
<1>4. Cardinality(MessageIds(items)) \in Nat
  BY <1>3, FS_CardinalityType
<1>5. \A k \in 1 .. Cardinality(MessageIds(items)) : Nth(MessageIds(items), k) \in MessageIds(items)
  BY <1>3, NthIs
<1>6. \A k \in 1 .. Cardinality(MessageIds(items)) :
        inputs[Nth(MessageIds(items), k)].msg \in Messages
  BY <1>1, <1>2, <1>5 DEF Input
<1>7. QED
  BY <1>4, <1>5, <1>6 DEF BatchMessages

LEMMA TakesTyped ==
  ASSUME QInv, Takes(Outcomes)
  PROVE  QInv'
<1>1. PICK items \in SteeringBatches, live \in BOOLEAN : Take(items, live)
  BY DEF Takes, Outcomes
<1>2. nextId \in Nat /\ Listed(store, nextId) /\ inputs \in [MessageIds(store) -> Input]
  BY DEF QInv, QueueTyped
<1>3. items \subseteq store
  BY BatchIn
<1>4. store \ items \subseteq store
  OBVIOUS
<1>5. Listed(store \ items, nextId) /\ MessageIds(store \ items) \subseteq MessageIds(store)
  BY <1>2, <1>4, RearrangedListed
<1>6. store' = store \ items /\ inputs' = InputsOf(store \ items, inputs)
      /\ UNCHANGED <<nextId, cancelled, accepted, rested, acked>>
  BY <1>1 DEF Take
<1>7. inputs' \in [MessageIds(store') -> Input]
  BY <1>2, <1>5, <1>6 DEF InputsOf
<1>8. served' \in Seq(Messages) /\ lost' \subseteq Sources /\ rested' \in 0 .. Len(served')
  <2>1. served \in Seq(Messages) /\ lost \subseteq Sources
        /\ rested' \in 0 .. Len(served) /\ Len(served) \in Nat
    BY <1>6, LenProperties DEF QInv, QueueTyped
  <2>2. CASE live
    <3>1. served' = served \o BatchMessages(items) /\ lost' = lost
      BY <1>1, <2>2 DEF Take
    <3>2. BatchMessages(items) \in Seq(Messages) /\ Len(BatchMessages(items)) \in Nat
      BY <1>3, BatchMessagesTyped, LenProperties
    <3>3. served' \in Seq(Messages) /\ Len(served') = Len(served) + Len(BatchMessages(items))
      BY <2>1, <3>1, <3>2, ConcatProperties
    <3>4. QED
      BY <2>1, <3>1, <3>2, <3>3
  <2>3. CASE ~live
    <3>1. lost' = lost \cup {i.source : i \in items} /\ served' = served
      BY <1>1, <2>3 DEF Take
    <3>2. \A i \in items : i.source \in Sources
      BY <1>2, <1>3 DEF Listed, Queued, QueueItem
    <3>3. QED
      BY <2>1, <3>1, <3>2
  <2>4. QED
    BY <2>2, <2>3
<1>9. QED
  BY <1>2, <1>5, <1>6, <1>7, <1>8 DEF QInv, QueueTyped, AcceptedTyped

LEMMA RearrangedTyped ==
  ASSUME QInv, Rearranged
  PROVE  QInv'
<1>1. PICK items \in {Paused(store), Resumed(store)} \cup SUBSET store : QueueWith(items, inputs)
  BY DEF Rearranged, QueueBecomes
<1>2. nextId \in Nat /\ Listed(store, nextId) /\ inputs \in [MessageIds(store) -> Input]
  BY DEF QInv, QueueTyped
<1>3. Listed(items, nextId) /\ MessageIds(items) \subseteq MessageIds(store)
  BY <1>2, RearrangedListed
<1>4. /\ store' = items /\ inputs' \in [MessageIds(items) -> Input]
      /\ cancelled' \subseteq Messages
  BY <1>1, <1>2, <1>3, QueueWithTyped
<1>5. AcceptedTyped' /\ rested' \in 0 .. Len(served')
  <2>1. served' = served /\ served \in Seq(Messages) /\ Len(served) \in Nat /\ Remembers(accepted)
    BY LenProperties DEF QInv, QueueTyped, Rearranged
  <2>2. QED
    BY <2>1, RemembersTyped DEF QInv, AcceptedTyped
<1>6. QED
  BY <1>2, <1>3, <1>4, <1>5 DEF QInv, QueueTyped, Rearranged

\* Its soft limit keeps the queue below a ceiling that is higher.
LEMMA BelowCeiling ==
  ASSUME QInv, MaxItems < HardMaxItems
  PROVE  ~AtCeiling(store)
<1>1. IsFiniteSet(store) /\ Cardinality(store) <= MaxItems
  BY DEF QInv, QueueTyped, Listed, Queued
<1>2. Cardinality(store) \in Nat
  BY <1>1, FS_CardinalityType
<1>3. QED
  BY <1>1, <1>2, LimitsAssumption DEF AtCeiling

LEMMA QueueStepTyped == QInv /\ QueueStep(Outcomes) => QInv'
<1> SUFFICES ASSUME QInv, QueueStep(Outcomes) PROVE QInv'
  OBVIOUS
<1>1. CASE Starts
  <2>1. PICK m \in Messages : Remember(m) /\ served' = Append(served, m)
    BY <1>1 DEF Starts
  <2>2. AcceptedTyped' /\ acked' \in Seq(Messages)
    BY <2>1, RememberTyped
  <2>3. served' \in Seq(Messages) /\ rested' \in 0 .. Len(served')
    <3>1. served \in Seq(Messages) /\ Len(served) \in Nat /\ rested' \in 0 .. Len(served)
      BY <1>1, LenProperties DEF QInv, QueueTyped, Starts
    <3>2. served' \in Seq(Messages) /\ Len(served') = Len(served) + 1
      BY <2>1, <3>1, AppendProperties
    <3>3. QED
      BY <3>1, <3>2
  <2>4. QED
    BY <1>1, <2>2, <2>3 DEF Starts, QInv, QueueTyped, queue
<1>2. CASE Retried
  <2>1. PICK m \in Messages : IsAccepted(m) /\ Remembers(Touched(m))
    BY <1>2 DEF Retried
  <2>2. AcceptedTyped /\ Len(accepted) <= MaxAccepted
    BY DEF QInv, AcceptedTyped
  <2>3. /\ Touched(m) \in Seq(Messages) /\ IsInjective(Touched(m))
        /\ Len(Touched(m)) = Len(accepted)
    BY <2>1, <2>2, TouchedIs
  <2>4. served' = served /\ served \in Seq(Messages) /\ Len(served) \in Nat
    BY <1>2, LenProperties DEF Retried, QInv, QueueTyped
  <2>5. AcceptedTyped' /\ rested' \in 0 .. Len(served')
    BY <2>1, <2>2, <2>3, <2>4, RemembersTyped
  <2>6. QED
    BY <1>2, <2>5 DEF Retried, QInv, QueueTyped, queue
<1>3. CASE Rests
  <2>1. served' = served /\ served \in Seq(Messages) /\ Len(served) \in Nat
    BY <1>3, LenProperties DEF Rests, QInv, QueueTyped
  <2>2. AcceptedTyped' /\ rested' \in 0 .. Len(served')
    BY <1>3, <2>1, RemembersTyped DEF Rests, QInv, AcceptedTyped
  <2>3. QED
    BY <1>3, <2>2 DEF Rests, QInv, QueueTyped, queue
<1>4. QED
  BY <1>1, <1>2, <1>3, NotifiedTyped, AcceptsTyped, TakesTyped, RearrangedTyped DEF QueueStep

-----------------------------------------------------------------------------
(* Every step of the conversation is one of those *)

LEMMA HeadOfChain ==
  ASSUME chain \in Seq(Task), HeadIs("dispatch")
  PROVE  Head(chain).msg \in Messages /\ Head(chain).conn \in Conns
<1>1. Head(chain) \in Task
  BY HeadTailProperties DEF HeadIs
<1>2. QED
  BY <1>1 DEF Task, HeadIs

LEMMA DispatchOnQueue ==
  ASSUME chain \in Seq(Task), DispatchRuns
  PROVE  QueueStep(Outcomes)
<1> DEFINE m == Head(chain).msg
           c == Head(chain).conn
<1>1. m \in Messages /\ c \in Conns
  BY HeadOfChain DEF DispatchRuns
<1> HIDE DEF m, c
<1>2. \/ Rests
      \/ IsAccepted(m) /\ Remembers(Touched(m)) /\ UNCHANGED <<queue, acked, served, lost>>
      \/ ~IsAccepted(m) /\ EnqueueUser(m, c) /\ UNCHANGED <<rested, served, lost>>
      \/ /\ Direct /\ ~IsAccepted(m) /\ Remember(m) /\ served' = Append(served, m)
         /\ UNCHANGED <<queue, rested, lost>>
  <2>1. CASE Refused
    BY <2>1 DEF DispatchRuns, ingress, books, Rests, Remembers
  <2>2. CASE ~Refused /\ IsAccepted(m)
    BY <2>2, EvictingRemembers DEF DispatchRuns, books, m
  <2>3. CASE ~Refused /\ ~IsAccepted(m)
    BY <2>3 DEF DispatchRuns, m, c
  <2>4. QED
    BY <2>1, <2>2, <2>3
<1>3. QED
  BY <1>1, <1>2 DEF QueueStep, Retried, Accepts, Starts, Direct

LEMMA OwnerOnQueue ==
  ASSUME NEW l \in Leases, OwnerStep(l)
  PROVE  QueueStep(Outcomes)
<1> USE DEF QueueStep
<1>1. CASE StaleApprovals(l) \/ TurnContinues(l) \/ RecoveryContinues(l)
  <2>1. PICK items \in SteeringBatches : Take(items, l \notin aborted)
    BY <1>1 DEF StaleApprovals, TurnContinues, RecoveryContinues
  <2>2. (l \notin aborted) \in Outcomes
    <3>1. CASE l \notin aborted
      <4>1. (l \notin aborted) = TRUE
        BY <3>1
      <4>2. TRUE \in Outcomes
        BY DEF Outcomes
      <4>3. QED
        BY <4>1, <4>2
    <3>2. CASE l \in aborted
      <4>1. phase[l] = "recover"
        BY <1>1, <3>2 DEF StaleApprovals, TurnContinues, RecoveryContinues, Live
      <4>2. Outcomes = BOOLEAN
        BY <4>1 DEF Outcomes, NoRecovery
      <4>3. QED
        BY <4>2
    <3>3. QED
      BY <3>1, <3>2
  <2>3. PICK live \in Outcomes : Take(items, live)
    BY <2>1, <2>2, Zenon
  <2>4. QED
    BY <2>3 DEF Takes
<1>2. CASE TurnCompletes(l)
  BY <1>2 DEF TurnCompletes, Notified, ingress, books
<1>3. CASE \/ TurnSetup(l) \/ TurnSent(l) \/ TurnRetries(l) \/ TurnToolCalls(l) \/ TurnAsks(l)
           \/ TurnExecutes(l) \/ TurnEnds(l)
  BY <1>3 DEF TurnSetup, TurnSent, TurnRetries, TurnToolCalls, TurnAsks, TurnExecutes,
       TurnEnds, Rests, Remembers, queue, ingress, books
<1>4. CASE TurnReturns(l)
  <2>1. UNCHANGED <<queue, acked, served, lost>>
    BY <1>4 DEF TurnReturns, books
  <2>2. UNCHANGED <<accepted, rested>> \/ EvictIfIdle(accepted, syncPhase)
    BY <1>4 DEF TurnReturns
  <2>3. QED
    BY <2>1, <2>2, EvictingRemembers DEF Rests, Remembers
<1>5. QED
  BY <1>1, <1>2, <1>3, <1>4 DEF OwnerStep

LEMMA ConnOnQueue ==
  ASSUME NEW c \in Conns, ConnStep(c)
  PROVE  QueueStep(Outcomes)
<1> USE DEF QueueStep
<1>1. ASSUME NEW m \in Messages, SendMessage(m, c) PROVE QueueStep(Outcomes)
  <2>1. \/ Rests
        \/ IsAccepted(m) /\ Remembers(Touched(m)) /\ UNCHANGED <<queue, acked, served, lost>>
        \/ ~IsAccepted(m) /\ EnqueueUser(m, c) /\ UNCHANGED <<rested, served, lost>>
    BY <1>1 DEF SendMessage, Rests, Remembers
  <2>2. QED
    BY <2>1 DEF Retried, Accepts
<1>2. CASE Closes(c)
  <2>1. /\ QueueBecomes({i \in store : i.kind = "message" => inputs[i.id].conn # c})
        /\ UNCHANGED <<nextId, acked, served, lost>> /\ Remembers(accepted)
    BY <1>2, EvictingRemembers DEF Closes, books
  <2>2. QED
    BY <2>1 DEF Rearranged
<1>3. CASE Connects(c) \/ RuntimeStarted(c) \/ Reconnects(c) \/ Suspends(c)
  BY <1>3 DEF Connects, RuntimeStarted, Reconnects, Pumps, Suspends, Rests, Remembers, queue,
       ingress, books
<1>4. QED
  BY <1>1, <1>2, <1>3 DEF ConnStep

LEMMA StepOnQueue ==
  ASSUME QInv, chain \in Seq(Task), [Next]_vars
  PROVE  QueueStep(Outcomes)
<1> USE DEF QueueStep
<1>1. CASE PumpTakes
  <2>1. PICK items \in Batches : Take(items, BatchConn(items) \in Open \cup {NoConn})
    BY <1>1 DEF PumpTakes
  <2>2. items \in SteeringBatches
    BY DEF SteeringBatches
  <2>3. (BatchConn(items) \in Open \cup {NoConn}) \in Outcomes
    <3>1. CASE NoneGone
      <4>1. PICK c \in Conns : c \in Open
        BY <1>1 DEF PumpTakes, Open
      <4>2. \A d \in Conns : d = c
        BY <3>1, RemoteAssumption DEF NoneGone
      <4>3. ItemConns(items) \subseteq Conns
        BY BatchIn DEF ItemConns, MessageIds, QInv, QueueTyped, Input, SteeringBatches
      <4>4. BatchConn(items) \in Open \cup {NoConn}
        BY <4>1, <4>2, <4>3 DEF BatchConn
      <4>5. (BatchConn(items) \in Open \cup {NoConn}) = TRUE
        BY <4>4
      <4>6. TRUE \in Outcomes
        BY DEF Outcomes
      <4>7. QED
        BY <4>5, <4>6
    <3>2. CASE ~NoneGone
      <4>1. Outcomes = BOOLEAN
        BY <3>2 DEF Outcomes
      <4>2. (BatchConn(items) \in Open \cup {NoConn}) \in BOOLEAN
        OBVIOUS
      <4>3. QED
        BY <4>1, <4>2
    <3>3. QED
      BY <3>1, <3>2
  <2>4. PICK live \in Outcomes : Take(items, live)
    BY <2>1, <2>3, Zenon
  <2>5. QED
    BY <2>2, <2>4 DEF Takes
<1>2. CASE PumpStops
  BY <1>2, EvictingRemembers DEF PumpStops, Rests, books
<1>3. ASSUME NEW l \in Leases, ApprovalResponse(l) \/ Settlement(l) PROVE QueueStep(Outcomes)
  BY <1>3 DEF ApprovalResponse, Settlement, Rests, Remembers, ingress, books
<1>4. ASSUME NEW s \in Syncs, SyncStarts(s) \/ SyncReads(s) \/ RecoveryBegins(s) PROVE QueueStep(Outcomes)
  <2>1. UNCHANGED <<queue, acked, served, lost>>
    BY <1>4 DEF SyncStarts, SyncReads, RecoveryBegins, ingress, books
  <2>2. UNCHANGED <<accepted, rested>> \/ \E phases : EvictIfIdle(accepted, phases)
    BY <1>4 DEF SyncStarts, SyncReads, RecoveryBegins, ingress
  <2>3. QED
    BY <2>1, <2>2, EvictingRemembers DEF Rests, Remembers
<1>5. ASSUME NEW i \in store, RemoveQueueItem(i) PROVE QueueStep(Outcomes)
  <2>1. /\ QueueBecomes(store \ {i})
        /\ UNCHANGED <<nextId, acked, served, lost>> /\ Remembers(accepted)
    BY <1>5, EvictingRemembers DEF RemoveQueueItem, books
  <2>2. QED
    BY <2>1 DEF Rearranged
<1>6. CASE AbortMessage \/ ResumeQueue \/ Stop
  <2>1. /\ QueueBecomes(Paused(store)) \/ QueueBecomes(Resumed(store)) \/ QueueBecomes({})
        /\ UNCHANGED <<nextId, acked, served, lost>> /\ Remembers(accepted)
    BY <1>6 DEF AbortMessage, ResumeQueue, Stop, Remembers, ingress, books
  <2>2. QED
    BY <2>1 DEF Rearranged
<1>7. CASE Notify
  BY <1>7 DEF Notify, Notified, ingress, books
<1>8. CASE CommandStarts \/ CommandEnds \/ UNCHANGED vars
  BY <1>8 DEF CommandStarts, CommandEnds, vars, Rests, Remembers, ingress, books
<1>9. QED
  BY <1>1, <1>2, <1>3, <1>4, <1>5, <1>6, <1>7, <1>8, DispatchOnQueue, OwnerOnQueue, ConnOnQueue
  DEF Next

-----------------------------------------------------------------------------
(* The promise chain and the pump *)

\* What TurnOwners_proofs says of the turns, that is needed below.
Turns ==
  /\ Lifecycle!TypeOK
  /\ turn.kind \in {"active", "cancelling"} => turn.lease \in Leases
  /\ \A l \in Leases : IsCurrent(turn, l) => l \in running

LEMMA TurnsHold == Spec => []Turns
<1>1. Owners!Spec => []Owners!IInv
  BY Owners!InitEstablishes, Owners!StepPreserves, NoLeaseAssumption, PTL DEF Owners!Spec
<1>2. Owners!IInv => Lifecycle!TypeOK
  BY DEF Owners!IInv, Owners!TypeOK, Lifecycle!TypeOK, Owners!TurnState, Lifecycle!TurnState,
         Owners!TurnKinds, Lifecycle!TurnKinds, Owners!LoopStatus, Lifecycle!LoopStatus,
         Owners!ActiveTurnLoopStatus, Lifecycle!ActiveTurnLoopStatus,
         Owners!StopReasons, Lifecycle!StopReasons
<1>3. Owners!IInv => /\ turn.kind \in {"active", "cancelling"} => turn.lease \in Leases
                     /\ \A l \in Leases : IsCurrent(turn, l) => l \in running
  BY DEF Owners!IInv, Owners!Ownership, Owners!IsCurrent, IsCurrent, Owners!TypeOK
<1>4. QED
  BY <1>1, <1>2, <1>3, SameSpec, PTL DEF Turns

\* A pump's task at some place of the chain, after the head one.
PumpIn(tasks) == \E k \in 1 .. Len(tasks) : tasks[k] = PumpTask
PumpBehind(tasks) == \E k \in 2 .. Len(tasks) : tasks[k] = PumpTask

\* The head task of an active pump is the pump, and one that is scheduled has
\* a task of its own.
PumpInv ==
  /\ chain \in Seq(Task)
  /\ pumpScheduled \in BOOLEAN /\ pumpActive \in BOOLEAN
  /\ chainTurn \in running \cup {NoLease}
  /\ chainTurn # NoLease => chain # <<>>
  /\ pumpActive => chain # <<>> /\ Head(chain) = PumpTask
  /\ pumpScheduled => PumpIn(chain)
  /\ pumpScheduled /\ pumpActive => PumpBehind(chain)

LEMMA Appended ==
  ASSUME NEW tasks \in Seq(Task), NEW t \in Task
  PROVE  /\ Append(tasks, t) \in Seq(Task) /\ Append(tasks, t) # <<>>
         /\ tasks # <<>> => Head(Append(tasks, t)) = Head(tasks)
         /\ PumpIn(tasks) => PumpIn(Append(tasks, t))
         /\ PumpBehind(tasks) => PumpBehind(Append(tasks, t))
         /\ t = PumpTask => PumpIn(Append(tasks, t))
         /\ t = PumpTask /\ tasks # <<>> => PumpBehind(Append(tasks, t))
<1> DEFINE a == Append(tasks, t)
<1>0. Len(tasks) \in Nat /\ (tasks # <<>> => Len(tasks) >= 1)
  BY LenProperties, EmptySeq
<1>1. /\ a \in Seq(Task) /\ Len(a) = Len(tasks) + 1
      /\ \A i \in 1 .. Len(tasks) : a[i] = tasks[i]
      /\ a[Len(tasks) + 1] = t
  BY AppendProperties
<1> HIDE DEF a
<1>2. a # <<>> /\ Head(a) = a[1]
  BY <1>0, <1>1
<1>3. tasks # <<>> => Head(a) = Head(tasks)
  BY <1>0, <1>1, <1>2
<1>4. /\ PumpIn(tasks) => PumpIn(a)
      /\ PumpBehind(tasks) => PumpBehind(a)
  BY <1>0, <1>1 DEF PumpIn, PumpBehind
<1>5. /\ t = PumpTask => PumpIn(a)
      /\ t = PumpTask /\ tasks # <<>> => PumpBehind(a)
  BY <1>0, <1>1 DEF PumpIn, PumpBehind
<1>6. QED
  BY <1>1, <1>2, <1>3, <1>4, <1>5 DEF a

LEMMA Tailed ==
  ASSUME NEW tasks \in Seq(Task), tasks # <<>>
  PROVE  /\ Tail(tasks) \in Seq(Task) /\ Head(tasks) \in Task
         /\ PumpBehind(tasks) => PumpIn(Tail(tasks))
         /\ PumpIn(tasks) /\ Head(tasks) # PumpTask => PumpBehind(tasks)
         /\ Head(tasks) = PumpTask => PumpIn(tasks)
<1>0. Len(tasks) \in Nat /\ Len(tasks) >= 1 /\ Head(tasks) = tasks[1]
  BY LenProperties, EmptySeq
<1>1. /\ Tail(tasks) \in Seq(Task) /\ Len(Tail(tasks)) = Len(tasks) - 1
      /\ \A i \in 1 .. Len(Tail(tasks)) : Tail(tasks)[i] = tasks[i + 1]
      /\ Head(tasks) \in Task
  BY HeadTailProperties
<1>2. ASSUME PumpBehind(tasks) PROVE PumpIn(Tail(tasks))
  <2>1. PICK k \in 2 .. Len(tasks) : tasks[k] = PumpTask
    BY <1>2 DEF PumpBehind
  <2>2. k - 1 \in 1 .. Len(Tail(tasks)) /\ (k - 1) + 1 = k
    BY <1>0, <1>1
  <2>3. Tail(tasks)[k - 1] = PumpTask
    BY <1>1, <2>1, <2>2
  <2>4. QED
    BY <2>2, <2>3 DEF PumpIn
<1>3. PumpIn(tasks) /\ Head(tasks) # PumpTask => PumpBehind(tasks)
  BY <1>0 DEF PumpIn, PumpBehind
<1>4. Head(tasks) = PumpTask => PumpIn(tasks)
  BY <1>0 DEF PumpIn
<1>5. QED
  BY <1>1, <1>2, <1>3, <1>4

LEMMA PumpIsTask == PumpTask \in Task
BY DEF PumpTask, Task

\* scheduleQueuePump leaves a pump's task in the chain.
LEMMA Scheduled ==
  ASSUME PumpInv, Schedule(chain), pumpActive' = pumpActive
  PROVE  /\ chain' \in Seq(Task) /\ pumpScheduled' = TRUE
         /\ chain # <<>> => chain' # <<>> /\ Head(chain') = Head(chain)
         /\ PumpIn(chain') /\ (pumpActive' => PumpBehind(chain'))
<1>1. CASE pumpScheduled
  BY <1>1 DEF Schedule, PumpInv
<1>2. CASE ~pumpScheduled
  <2>1. chain' = Append(chain, PumpTask)
    BY <1>2 DEF Schedule
  <2>2. QED
    BY <2>1, Appended, PumpIsTask DEF Schedule, PumpInv
<1>3. QED
  BY <1>1, <1>2

LEMMA ScheduledBehind ==
  ASSUME PumpInv, chain # <<>>, Head(chain) # PumpTask, Schedule(Tail(chain))
  PROVE  chain' \in Seq(Task) /\ pumpScheduled' = TRUE /\ PumpIn(chain')
<1>1. Tail(chain) \in Seq(Task) /\ (pumpScheduled => PumpIn(Tail(chain)))
  BY Tailed DEF PumpInv
<1>2. QED
  BY <1>1, Appended, PumpIsTask DEF Schedule

\* The pump goes on, or waits behind the head task.
LEMMA ScheduleIfKeeps ==
  ASSUME PumpInv, NEW condition, ScheduleIf(condition), running' = running
  PROVE  /\ PumpInv'
         /\ PumpIn(chain) => PumpIn(chain')
         /\ condition => PumpIn(chain')
<1>1. CASE condition
  <2>1. Schedule(chain) /\ UNCHANGED <<chainTurn, pumpActive>>
    BY <1>1 DEF ScheduleIf
  <2>2. QED
    BY <2>1, Scheduled DEF PumpInv
<1>2. CASE ~condition
  BY <1>2 DEF ScheduleIf, PumpInv, PumpIn, PumpBehind
<1>3. QED
  BY <1>1, <1>2

\* Nothing happens to the chain, and no turn it awaits returns.
LEMMA PumpRests ==
  ASSUME PumpInv, UNCHANGED pump, running \subseteq running'
  PROVE  PumpInv'
BY DEF PumpInv, pump, PumpIn, PumpBehind

LEMMA DispatchKeepsPump ==
  ASSUME PumpInv, DispatchRuns
  PROVE  PumpInv'
<1>1. chain # <<>> /\ chainTurn = NoLease /\ Head(chain) # PumpTask /\ ~pumpActive
      /\ pumpActive' = pumpActive
  BY DEF DispatchRuns, HeadIs, PumpTask, PumpInv
<1>2. CASE chain' = Tail(chain) /\ UNCHANGED <<chainTurn, pumpScheduled, lifecycle>>
  <2>1. chain' \in Seq(Task) /\ (pumpScheduled => PumpIn(chain'))
    BY <1>1, <1>2, Tailed DEF PumpInv
  <2>2. QED
    BY <1>1, <1>2, <2>1 DEF PumpInv, lifecycle
<1>3. CASE Schedule(Tail(chain)) /\ UNCHANGED <<chainTurn, lifecycle>>
  BY <1>1, <1>3, ScheduledBehind DEF PumpInv, lifecycle
<1>4. ASSUME NEW l \in Leases, BeginTurn(l, "SENDING_API_REQUEST", "setup", Head(chain).conn),
             chainTurn' = l, UNCHANGED <<chain, pumpScheduled>>
      PROVE  PumpInv'
  BY <1>1, <1>4 DEF PumpInv, BeginTurn, Lifecycle!Begin, PumpIn, PumpBehind
<1>5. \/ chain' = Tail(chain) /\ UNCHANGED <<chainTurn, pumpScheduled, lifecycle>>
      \/ Schedule(Tail(chain)) /\ UNCHANGED <<chainTurn, lifecycle>>
      \/ \E l \in Leases : /\ BeginTurn(l, "SENDING_API_REQUEST", "setup", Head(chain).conn)
                           /\ chainTurn' = l /\ UNCHANGED <<chain, pumpScheduled>>
  BY DEF DispatchRuns
<1>6. QED
  BY <1>2, <1>3, <1>4, <1>5

LEMMA StopsKeepsPump ==
  ASSUME PumpInv, PumpStops
  PROVE  PumpInv'
<1>1. chain # <<>> /\ chainTurn = NoLease /\ chainTurn' = chainTurn /\ running' = running
      /\ chain' = Tail(chain) /\ pumpScheduled' = (pumpScheduled /\ pumpActive)
      /\ pumpActive' = FALSE
  BY DEF PumpStops, HeadIs, lifecycle
<1>2. chain' \in Seq(Task) /\ (PumpBehind(chain) => PumpIn(chain'))
  BY <1>1, Tailed DEF PumpInv
<1>3. QED
  BY <1>1, <1>2 DEF PumpInv

LEMMA TakesKeepsPump ==
  ASSUME PumpInv, PumpTakes
  PROVE  PumpInv'
<1>1. chain # <<>> /\ Head(chain).type = "pump" /\ chainTurn = NoLease
      /\ chain' = chain /\ pumpActive' = TRUE /\ pumpScheduled' = (pumpScheduled /\ pumpActive)
  BY DEF PumpTakes, HeadIs
<1>2. Head(chain) = PumpTask
  <2>1. Head(chain) \in Task
    BY <1>1, Tailed DEF PumpInv
  <2>2. QED
    BY <1>1, <2>1 DEF Task, PumpTask
<1>3. chainTurn' \in running' \cup {NoLease}
  <2>1. \/ chainTurn' = chainTurn
        \/ \E l \in Leases : chainTurn' = l /\ running' = running \cup {l}
    BY DEF PumpTakes, BeginTurn, Lifecycle!Begin
  <2>2. QED
    BY <1>1, <2>1
<1>4. QED
  BY <1>1, <1>2, <1>3 DEF PumpInv, PumpIn, PumpBehind

LEMMA ReturnsKeepsPump ==
  ASSUME PumpInv, NEW l \in Leases, TurnReturns(l)
  PROVE  PumpInv' /\ (PumpIn(chain) => PumpIn(chain'))
<1>1. running' = running \ {l}
  BY DEF TurnReturns, Lifecycle!OwnerReturn
<1>2. CASE chainTurn # l
  BY <1>1, <1>2 DEF TurnReturns, PumpInv, pump, PumpIn, PumpBehind
<1>3. CASE chainTurn = l /\ Head(chain) = PumpTask
  BY <1>1, <1>3 DEF TurnReturns, PumpInv, PumpIn, PumpBehind
<1>4. CASE chainTurn = l /\ Head(chain) # PumpTask
  <2>1. chainTurn' = NoLease /\ pumpActive' = pumpActive /\ ~pumpActive /\ chain # <<>>
    BY <1>4, NoLeaseAssumption DEF TurnReturns, PumpInv
  <2>2. CASE Schedule(Tail(chain))
    BY <1>4, <2>1, <2>2, ScheduledBehind DEF PumpInv
  <2>3. CASE chain' = Tail(chain) /\ pumpScheduled' = pumpScheduled
    BY <1>4, <2>1, <2>3, Tailed DEF PumpInv
  <2>4. QED
    BY <1>4, <2>2, <2>3 DEF TurnReturns
<1>5. QED
  BY <1>2, <1>3, <1>4

LEMMA SendKeepsPump ==
  ASSUME PumpInv, NEW m \in Messages, NEW c \in Conns, SendMessage(m, c)
  PROVE  PumpInv' /\ (PumpIn(chain) => PumpIn(chain'))
<1> DEFINE task == [type |-> "dispatch", msg |-> m, conn |-> c]
<1>1. UNCHANGED <<chainTurn, pumpActive, running>>
  BY DEF SendMessage, lifecycle
<1>2. CASE UNCHANGED <<chain, pumpScheduled>>
  BY <1>1, <1>2 DEF PumpInv, PumpIn, PumpBehind
<1>3. CASE chain' = Append(chain, task) /\ pumpScheduled' = pumpScheduled
  <2>1. task \in Task
    BY DEF Task
  <2> HIDE DEF task
  <2>2. QED
    BY <1>1, <1>3, <2>1, Appended DEF PumpInv
<1>4. CASE Schedule(chain)
  BY <1>1, <1>4, Scheduled DEF PumpInv
<1>5. QED
  BY <1>2, <1>3, <1>4 DEF SendMessage

LEMMA StopKeepsPump ==
  ASSUME PumpInv, Stop
  PROVE  PumpInv'
BY DEF Stop, Lifecycle!Reset, PumpInv, PumpIn, PumpBehind

\* What an owner does besides returning leaves the chain alone.
LEMMA OwnerOnChain ==
  ASSUME NEW l \in Leases, OwnerStep(l), ~TurnReturns(l)
  PROVE  UNCHANGED <<pump, running, closed, connState>>
BY DEF OwnerStep, TurnSetup, TurnSent, StaleApprovals, TurnRetries, TurnToolCalls, TurnAsks,
       TurnExecutes, TurnContinues, TurnCompletes, TurnEnds, RecoveryContinues, Proceed,
       Lifecycle!OwnerFinish

\* Steps that schedule the pump, or may.
LEMMA SchedulersKeepPump ==
  ASSUME PumpInv,
         \/ \E l \in Leases : ApprovalResponse(l) \/ Settlement(l)
         \/ Notify \/ AbortMessage \/ CommandEnds \/ ResumeQueue
         \/ \E c \in Conns : RuntimeStarted(c) \/ Reconnects(c)
  PROVE  PumpInv' /\ (PumpIn(chain) => PumpIn(chain'))
<1>1. running' = running
  BY DEF ApprovalResponse, Settlement, Notify, AbortMessage, CommandEnds, ResumeQueue,
         RuntimeStarted, Reconnects, Pumps, lifecycle, Lifecycle!SettleCancellation,
         Lifecycle!RequestCancellation
<1>2. \E condition : ScheduleIf(condition)
  BY Zenon DEF ApprovalResponse, Settlement, Notify, AbortMessage, CommandEnds, ResumeQueue,
         RuntimeStarted, Reconnects, Pumps
<1>3. QED
  BY <1>1, <1>2, ScheduleIfKeeps

\* The other steps leave the chain alone.
LEMMA OthersOnChain ==
  ASSUME \/ \E c \in Conns : Connects(c) \/ Suspends(c) \/ Closes(c)
         \/ \E s \in Syncs : SyncStarts(s) \/ SyncReads(s) \/ RecoveryBegins(s)
         \/ \E i \in store : RemoveQueueItem(i)
         \/ CommandStarts \/ UNCHANGED vars
  PROVE  UNCHANGED pump /\ running \subseteq running'
<1>1. CASE \E c \in Conns : Connects(c) \/ Suspends(c) \/ Closes(c)
  BY <1>1 DEF Connects, Suspends, Closes, lifecycle, Lifecycle!RequestCancellation
<1>2. CASE \E s \in Syncs : SyncStarts(s) \/ SyncReads(s) \/ RecoveryBegins(s)
  BY <1>2 DEF SyncStarts, SyncReads, RecoveryBegins, lifecycle, BeginTurn, Lifecycle!Begin
<1>3. CASE (\E i \in store : RemoveQueueItem(i)) \/ CommandStarts \/ UNCHANGED vars
  BY <1>3 DEF RemoveQueueItem, CommandStarts, lifecycle, vars
<1>4. QED
  BY <1>1, <1>2, <1>3

LEMMA StepKeepsPump == PumpInv /\ [Next]_vars => PumpInv'
<1> SUFFICES ASSUME PumpInv, [Next]_vars PROVE PumpInv'
  OBVIOUS
<1>1. ASSUME NEW l \in Leases, OwnerStep(l) PROVE PumpInv'
  <2>1. CASE TurnReturns(l)
    BY <2>1, ReturnsKeepsPump
  <2>2. CASE ~TurnReturns(l)
    BY <1>1, <2>2, OwnerOnChain, PumpRests
  <2>3. QED
    BY <2>1, <2>2
<1>2. ASSUME NEW c \in Conns, ConnStep(c) PROVE PumpInv'
  BY <1>2, SendKeepsPump, SchedulersKeepPump, OthersOnChain, PumpRests DEF ConnStep
<1>3. QED
  BY <1>1, <1>2, DispatchKeepsPump, StopsKeepsPump, TakesKeepsPump, StopKeepsPump,
     SchedulersKeepPump, OthersOnChain, PumpRests DEF Next

-----------------------------------------------------------------------------
(* No wakeup is lost *)

\* Without recoveries every turn that runs is awaited by the chain.
Alone == \A l \in running : chainTurn = l

\* What will look at the queue again: a pump's task, the turn the head task
\* awaits, the end of a command, or the settlement of a cancellation.
Expected == PumpIn(chain) \/ chainTurn # NoLease \/ turn.kind \in {"command", "cancelling"}

ConnStates == {"new", "starting", "open", "suspended", "closed"}

Attended == \E c \in Conns : connState[c] = "open"

Wake == ~closed /\ Ready(store) # {} /\ Attended => Expected

LEMMA StepKeepsAlone ==
  ASSUME Syncs = {}, Turns, PumpInv, Alone, [Next]_vars
  PROVE  Alone'
<1>0. running \subseteq Leases
  BY DEF Turns, Lifecycle!TypeOK
<1>1. ASSUME UNCHANGED chainTurn, running' = running PROVE Alone'
  BY <1>1 DEF Alone
<1>2. ASSUME NEW l \in Leases, NEW status, NEW first, NEW conn,
             BeginTurn(l, status, first, conn), chainTurn = NoLease, chainTurn' = l
      PROVE  Alone'
  <2>1. running = {}
    BY <1>0, <1>2, NoLeaseAssumption DEF Alone
  <2>2. QED
    BY <1>2, <2>1 DEF Alone, BeginTurn, Lifecycle!Begin
<1>3. CASE DispatchRuns \/ PumpTakes \/ PumpStops
  <2>1. \/ UNCHANGED <<chainTurn, lifecycle>>
        \/ /\ chainTurn = NoLease
           /\ \E l \in Leases : \E conn :
                BeginTurn(l, "SENDING_API_REQUEST", "setup", conn) /\ chainTurn' = l
    BY <1>3 DEF DispatchRuns, PumpTakes, PumpStops, HeadIs
  <2>2. QED
    BY <1>1, <1>2, <2>1 DEF lifecycle
<1>4. ASSUME NEW l \in Leases, TurnReturns(l) PROVE Alone'
  <2>1. running' = running \ {l}
    BY <1>4 DEF TurnReturns, Lifecycle!OwnerReturn
  <2>2. CASE chainTurn = l
    BY <2>1, <2>2 DEF Alone
  <2>3. CASE chainTurn # l
    BY <1>4, <2>1, <2>3 DEF Alone, TurnReturns, pump
  <2>4. QED
    BY <2>2, <2>3
<1>5. ASSUME NEW l \in Leases, OwnerStep(l) PROVE Alone'
  BY <1>1, <1>4, <1>5, OwnerOnChain DEF pump
<1>6. ASSUME NEW c \in Conns, ConnStep(c) PROVE Alone'
  BY <1>1, <1>6 DEF ConnStep, Connects, RuntimeStarted, Reconnects, Pumps, ScheduleIf, Suspends,
       Closes, SendMessage, lifecycle, pump, Lifecycle!RequestCancellation
<1>7. ASSUME NEW l \in Leases, ApprovalResponse(l) \/ Settlement(l) PROVE Alone'
  BY <1>1, <1>7 DEF ApprovalResponse, Settlement, ScheduleIf, lifecycle,
       Lifecycle!SettleCancellation
<1>8. CASE \/ \E i \in store : RemoveQueueItem(i)
           \/ Notify \/ AbortMessage \/ CommandStarts \/ CommandEnds \/ ResumeQueue \/ Stop
           \/ UNCHANGED vars
  BY <1>1, <1>8 DEF RemoveQueueItem, Notify, AbortMessage, CommandStarts, CommandEnds,
       ResumeQueue, Stop, ScheduleIf, lifecycle, pump, vars, Lifecycle!RequestCancellation,
       Lifecycle!Reset
<1>9. QED
  BY <1>3, <1>5, <1>6, <1>7, <1>8 DEF Next

LEMMA DispatchWakes ==
  ASSUME QInv, PumpInv, Wake, MaxItems < HardMaxItems, DispatchRuns
  PROVE  Wake'
<1>1. /\ chain # <<>> /\ chainTurn = NoLease /\ Head(chain) # PumpTask
      /\ UNCHANGED <<closed, connState>>
  BY DEF DispatchRuns, HeadIs, PumpTask
<1>2. CASE closed
  BY <1>1, <1>2 DEF Wake
<1>3. CASE chain' = Tail(chain) /\ UNCHANGED <<lifecycle, queue>>
  BY <1>1, <1>3, Tailed DEF PumpInv, Wake, Expected, Attended, lifecycle, queue
<1>4. CASE Schedule(Tail(chain))
  BY <1>1, <1>4, ScheduledBehind DEF Wake, Expected
<1>5. CASE chainTurn' \in Leases
  BY <1>5, NoLeaseAssumption DEF Wake, Expected
<1>6. QED
  BY <1>2, <1>3, <1>4, <1>5, BelowCeiling DEF DispatchRuns, Refused

LEMMA PumpWakes ==
  ASSUME ApprovalsOwned, approvals \subseteq Leases, Turns, PumpInv, Alone, Wake,
         PumpStops \/ PumpTakes
  PROVE  Wake'
<1>1. chain # <<>> /\ chainTurn = NoLease /\ UNCHANGED <<closed, connState>>
  BY DEF PumpStops, PumpTakes, HeadIs
<1>2. CASE PumpTakes
  <2>1. Head(chain) = PumpTask /\ chain' = chain
    BY <1>1, <1>2, Tailed DEF PumpTakes, HeadIs, PumpInv, Task, PumpTask
  <2>2. QED
    BY <1>1, <2>1, Tailed DEF PumpInv, Wake, Expected
<1>3. CASE PumpStops
  <2>1. ASSUME turn.kind = "active" PROVE FALSE
    <3>1. turn.lease \in Leases /\ IsCurrent(turn, turn.lease)
      BY <2>1 DEF Turns, IsCurrent
    <3>2. QED
      BY <1>1, <3>1, NoLeaseAssumption DEF Turns, Alone
  <2>2. turn.kind \in {"idle", "command", "cancelling"} /\ approvals = {}
    BY <2>1 DEF Turns, Lifecycle!TypeOK, Lifecycle!TurnState, Lifecycle!TurnKinds, ApprovalsOwned
  <2>3. UNCHANGED <<turn, store>>
    BY <1>3 DEF PumpStops, lifecycle, queue
  <2>4. CASE turn.kind = "idle"
    <3>1. closed \/ ~Attended \/ Ready(store) = {}
      BY <1>3, <2>2, <2>4 DEF PumpStops, Attended, Open
    <3>2. QED
      BY <1>1, <2>3, <3>1 DEF Wake, Attended
  <2>5. CASE turn.kind # "idle"
    BY <2>2, <2>3, <2>5 DEF Wake, Expected
  <2>6. QED
    BY <2>4, <2>5
<1>4. QED
  BY <1>2, <1>3

LEMMA OwnerWakes ==
  ASSUME IInv, Turns, PumpInv, Alone, Wake, NEW l \in Leases, OwnerStep(l)
  PROVE  Wake'
<1>1. CASE TurnReturns(l)
  <2>1. UNCHANGED <<turn, store, connState, closed>>
    BY <1>1 DEF TurnReturns, Lifecycle!OwnerReturn, queue
  <2>2. CASE chainTurn # l
    BY <1>1, <2>1, <2>2 DEF TurnReturns, pump, Wake, Expected, PumpIn, Attended
  <2>3. CASE chainTurn = l /\ Head(chain) = PumpTask
    BY <1>1, <2>1, <2>3, NoLeaseAssumption, Tailed DEF TurnReturns, PumpInv, Wake, Expected
  <2>4. CASE chainTurn = l /\ Head(chain) # PumpTask /\ store # {}
    BY <1>1, <2>4, NoLeaseAssumption, ScheduledBehind DEF TurnReturns, PumpInv, Wake, Expected
  <2>5. CASE store = {}
    BY <2>1, <2>5 DEF Wake, Ready
  <2>6. QED
    BY <2>2, <2>3, <2>4, <2>5
<1>2. CASE ~TurnReturns(l)
  <2>1. UNCHANGED chainTurn
    BY <1>2, OwnerOnChain DEF pump
  <2>2. phase[l] \notin {"none", "gone"}
    BY <1>2 DEF OwnerStep, TurnSetup, TurnSent, StaleApprovals, TurnRetries, TurnToolCalls,
         TurnAsks, TurnExecutes, TurnContinues, TurnCompletes, TurnEnds, RecoveryContinues, Proceed
  <2>3. chainTurn = l
    BY <2>2 DEF IInv, OwnersRun, Alone
  <2>4. QED
    BY <2>1, <2>3, NoLeaseAssumption DEF Wake, Expected
<1>3. QED
  BY <1>1, <1>2

LEMMA InputsWake ==
  ASSUME QInv, PumpInv, Wake, MaxItems < HardMaxItems,
         \/ \E m \in Messages, c \in Conns : SendMessage(m, c)
         \/ Notify \/ AbortMessage \/ CommandEnds \/ ResumeQueue
         \/ \E l \in Leases : ApprovalResponse(l)
         \/ \E c \in Conns : RuntimeStarted(c) \/ Reconnects(c)
  PROVE  Wake'
<1>1. CASE \E m \in Messages, c \in Conns : SendMessage(m, c)
  <2>1. PICK m \in Messages, c \in Conns : SendMessage(m, c)
    BY <1>1
  <2>2. UNCHANGED <<chainTurn, turn, connState, closed, pumpActive>> /\ (PumpIn(chain) => PumpIn(chain'))
    BY <2>1, SendKeepsPump DEF SendMessage, lifecycle
  <2>3. CASE UNCHANGED queue
    BY <2>2, <2>3 DEF Wake, Expected, Attended, queue
  <2>4. CASE Schedule(chain)
    BY <2>2, <2>4, Scheduled DEF Wake, Expected
  <2>5. QED
    BY <2>1, <2>3, <2>4, BelowCeiling DEF SendMessage
<1>2. ASSUME ScheduleIf(TRUE), running' = running PROVE Wake'
  BY <1>2, ScheduleIfKeeps DEF Wake, Expected
<1>3. CASE Notify \/ AbortMessage \/ CommandEnds \/ ResumeQueue \/ \E l \in Leases : ApprovalResponse(l)
  BY <1>2, <1>3 DEF Notify, AbortMessage, CommandEnds, ResumeQueue, ApprovalResponse, lifecycle,
       Lifecycle!RequestCancellation
<1>4. CASE \E c \in Conns : RuntimeStarted(c) \/ Reconnects(c)
  <2>1. ScheduleIf(store # {}) /\ UNCHANGED <<running, store>>
    BY <1>4 DEF RuntimeStarted, Reconnects, Pumps, lifecycle, queue
  <2>2. store # {} => PumpIn(chain')
    BY <2>1, ScheduleIfKeeps
  <2>3. QED
    BY <2>1, <2>2 DEF Wake, Expected, Ready
<1>5. QED
  BY <1>1, <1>3, <1>4

LEMMA SettlementWakes ==
  ASSUME PumpInv, Wake, Turns, NEW l \in Leases, Settlement(l)
  PROVE  Wake'
<1>1. /\ ScheduleIf(SettleReleases(turn, l)) /\ turn' = Lifecycle!Settled(turn, l)
      /\ UNCHANGED <<running, store, connState, closed, chainTurn>>
  BY DEF Settlement, Lifecycle!SettleCancellation, queue, ScheduleIf
<1>2. CASE SettleReleases(turn, l)
  BY <1>1, <1>2, ScheduleIfKeeps DEF Wake, Expected
<1>3. CASE ~SettleReleases(turn, l)
  <2>1. turn'.kind = turn.kind
    BY <1>1, <1>3 DEF SettleReleases, SettleTakes, Lifecycle!Settled, Lifecycle!SettleTakes, Turns,
         Lifecycle!TypeOK, Lifecycle!TurnState
  <2>2. PumpIn(chain) => PumpIn(chain')
    BY <1>1, ScheduleIfKeeps
  <2>3. QED
    BY <1>1, <2>1, <2>2 DEF Wake, Expected, Attended
<1>4. QED
  BY <1>2, <1>3

\* The other steps add nothing that may run, and open no connection.
LEMMA OthersWake ==
  ASSUME Wake, Turns, connState \in [Conns -> ConnStates],
         \/ \E c \in Conns : Connects(c) \/ Suspends(c) \/ Closes(c)
         \/ \E i \in store : RemoveQueueItem(i)
         \/ CommandStarts \/ Stop \/ UNCHANGED vars
  PROVE  Wake'
<1>1. ASSUME UNCHANGED pump, store' \subseteq store, Attended' => Attended, closed' = closed,
             turn'.kind = turn.kind \/ turn'.kind \in {"command", "cancelling"}
      PROVE  Wake'
  BY <1>1 DEF Wake, Expected, pump, PumpIn, Ready
<1>2. CASE \E c \in Conns : Connects(c) \/ Suspends(c)
  <2>1. Attended' => Attended
    BY <1>2 DEF Connects, Suspends, Attended
  <2>2. QED
    BY <1>1, <1>2, <2>1 DEF Connects, Suspends, lifecycle, queue
<1>3. ASSUME NEW c \in Conns, Closes(c) PROVE Wake'
  <2>1. Attended' => Attended
    BY <1>3 DEF Closes, Attended
  <2>2. turn'.kind = turn.kind \/ turn'.kind = "cancelling"
    BY <1>3 DEF Closes, lifecycle, Lifecycle!RequestCancellation, Lifecycle!CancelRequested,
         Turns, Lifecycle!TypeOK, Lifecycle!TurnState
  <2>3. store' \subseteq store
    BY <1>3 DEF Closes, QueueBecomes, QueueWith
  <2>4. QED
    BY <1>1, <1>3, <2>1, <2>2, <2>3 DEF Closes
<1>4. CASE \E i \in store : RemoveQueueItem(i)
  BY <1>1, <1>4 DEF RemoveQueueItem, QueueBecomes, QueueWith, lifecycle, Attended
<1>5. CASE CommandStarts
  BY <1>1, <1>5 DEF CommandStarts, StartedCommand, CommandState, IdleState, queue, Attended
<1>6. CASE Stop
  BY <1>6 DEF Stop, Wake
<1>7. CASE UNCHANGED vars
  BY <1>1, <1>7 DEF vars, lifecycle, queue, Attended
<1>8. QED
  BY <1>2, <1>3, <1>4, <1>5, <1>6, <1>7

LEMMA StepWakes ==
  ASSUME Syncs = {}, MaxItems < HardMaxItems, IInv, Turns, QInv, PumpInv, Alone, Wake,
         connState \in [Conns -> ConnStates], [Next]_vars
  PROVE  Wake'
<1>1. approvals \subseteq Leases /\ ApprovalsOwned
  BY DEF IInv
<1>2. ASSUME NEW c \in Conns, ConnStep(c) PROVE Wake'
  BY <1>2, InputsWake, OthersWake DEF ConnStep
<1>3. CASE DispatchRuns \/ PumpStops \/ PumpTakes
  BY <1>1, <1>3, DispatchWakes, PumpWakes
<1>4. ASSUME NEW l \in Leases, OwnerStep(l) \/ ApprovalResponse(l) \/ Settlement(l) PROVE Wake'
  BY <1>4, OwnerWakes, InputsWake, SettlementWakes
<1>5. QED
  BY <1>2, <1>3, <1>4, InputsWake, OthersWake DEF Next

-----------------------------------------------------------------------------
(* Types *)

ClientsTyped ==
  /\ turnConn \in [Leases -> Conns \cup {NoConn}]
  /\ activeConn \in Conns \cup {NoConn}
  /\ connState \in [Conns -> ConnStates]

RecoveryTyped ==
  /\ interrupted \in BOOLEAN /\ batchIds \in BOOLEAN
  /\ recovered \in Syncs \cup {NoSync}
  /\ syncPhase \in [Syncs -> {"none", "reading", "done"} \cup Syncs]

SwitchesTyped == arrived \in 0 .. MaxMessages /\ commandRunning \in BOOLEAN /\ closed \in BOOLEAN

LEMMA BatchConnIn ==
  ASSUME QInv, NEW items, items \subseteq store
  PROVE  BatchConn(items) \in Conns \cup {NoConn}
<1>1. ItemConns(items) \subseteq Conns
  BY DEF ItemConns, MessageIds, QInv, QueueTyped, Input
<1>2. QED
  BY <1>1 DEF BatchConn

LEMMA StepKeepsClients ==
  ASSUME QInv, chain \in Seq(Task), ClientsTyped, [Next]_vars
  PROVE  ClientsTyped'
<1> USE DEF ClientsTyped
<1>1. ASSUME NEW l \in Leases, NEW status, NEW first, NEW c \in Conns \cup {NoConn},
             BeginTurn(l, status, first, c)
      PROVE  /\ turnConn' \in [Leases -> Conns \cup {NoConn}]
             /\ activeConn' \in Conns \cup {NoConn}
  BY <1>1 DEF BeginTurn
<1>2. CASE DispatchRuns
  <2>1. Head(chain).conn \in Conns
    BY <1>2, HeadOfChain DEF DispatchRuns
  <2>2. \/ UNCHANGED owners
        \/ \E l \in Leases : BeginTurn(l, "SENDING_API_REQUEST", "setup", Head(chain).conn)
    BY <1>2 DEF DispatchRuns
  <2>3. UNCHANGED connState
    BY <1>2 DEF DispatchRuns
  <2>4. QED
    BY <1>1, <2>1, <2>2, <2>3 DEF owners
<1>3. CASE PumpTakes
  <2>1. \/ UNCHANGED owners
        \/ \E items \in Batches, l \in Leases :
             BeginTurn(l, "SENDING_API_REQUEST", "setup", BatchConn(items))
    BY <1>3 DEF PumpTakes
  <2>2. \A items \in Batches : BatchConn(items) \in Conns \cup {NoConn}
    BY BatchIn, BatchConnIn DEF SteeringBatches
  <2>3. UNCHANGED connState
    BY <1>3 DEF PumpTakes
  <2>4. QED
    BY <1>1, <2>1, <2>2, <2>3 DEF owners
<1>4. ASSUME NEW l \in Leases, OwnerStep(l) PROVE ClientsTyped'
  <2>1. CASE TurnEnds(l)
    BY <2>1 DEF TurnEnds
  <2>2. CASE TurnReturns(l)
    BY <2>2 DEF TurnReturns
  <2>3. CASE RecoveryContinues(l)
    BY <2>3 DEF RecoveryContinues
  <2>4. CASE \/ TurnSetup(l) \/ TurnSent(l) \/ StaleApprovals(l) \/ TurnRetries(l)
             \/ TurnToolCalls(l) \/ TurnAsks(l) \/ TurnExecutes(l) \/ TurnContinues(l)
             \/ TurnCompletes(l)
    BY <2>4 DEF TurnSetup, TurnSent, StaleApprovals, TurnRetries, TurnToolCalls, TurnAsks,
         TurnExecutes, TurnContinues, TurnCompletes, Proceed
  <2>5. QED
    BY <1>4, <2>1, <2>2, <2>3, <2>4 DEF OwnerStep
<1>5. ASSUME NEW l \in Leases, ApprovalResponse(l) \/ Settlement(l) PROVE ClientsTyped'
  BY <1>5 DEF ApprovalResponse, Settlement, owners
<1>6. ASSUME NEW c \in Conns, ConnStep(c) PROVE ClientsTyped'
  BY <1>6 DEF ConnStep, Connects, RuntimeStarted, Reconnects, Pumps, Suspends, Closes, SendMessage,
       owners, ConnStates
<1>7. ASSUME NEW s \in Syncs, SyncStarts(s) \/ SyncReads(s) \/ RecoveryBegins(s) PROVE ClientsTyped'
  <2>1. \/ UNCHANGED <<owners, connState>>
        \/ /\ UNCHANGED connState
           /\ \E l \in Leases : BeginTurn(l, "EXECUTING_CLIENT_SIDE_TOOL", "recover", NoConn)
    BY <1>7 DEF SyncStarts, SyncReads, RecoveryBegins
  <2>2. QED
    BY <1>1, <2>1 DEF owners
<1>8. CASE PumpStops \/ (\E i \in store : RemoveQueueItem(i)) \/ Notify \/ AbortMessage
           \/ CommandStarts \/ CommandEnds \/ ResumeQueue \/ UNCHANGED vars
  BY <1>8 DEF PumpStops, RemoveQueueItem, Notify, AbortMessage, CommandStarts, CommandEnds,
       ResumeQueue, vars, owners
<1>9. CASE Stop
  BY <1>9 DEF Stop, ConnStates
<1>10. QED
  BY <1>2, <1>3, <1>4, <1>5, <1>6, <1>7, <1>8, <1>9 DEF Next

LEMMA StepKeepsRecovery ==
  ASSUME RecoveryTyped, [Next]_vars
  PROVE  RecoveryTyped'
<1> USE DEF RecoveryTyped, recovery
<1>0. ASSUME NEW known, NEW phases \in [Syncs -> {"none", "reading", "done"} \cup Syncs],
             EvictIfIdle(known, phases)
      PROVE  syncPhase' \in [Syncs -> {"none", "reading", "done"} \cup Syncs]
  BY <1>0 DEF EvictIfIdle
<1>1. CASE DispatchRuns \/ PumpTakes \/ PumpStops
  <2>1. UNCHANGED <<interrupted, batchIds>> /\ recovered' \in {recovered, NoSync}
    BY <1>1 DEF DispatchRuns, PumpTakes, PumpStops
  <2>2. syncPhase' = syncPhase \/ \E known : EvictIfIdle(known, syncPhase)
    BY <1>1 DEF DispatchRuns, PumpTakes, PumpStops
  <2>3. QED
    BY <1>0, <2>1, <2>2
<1>2. ASSUME NEW l \in Leases, OwnerStep(l) PROVE RecoveryTyped'
  <2>1. CASE TurnSetup(l)
    BY <2>1 DEF TurnSetup
  <2>2. CASE TurnEnds(l)
    <3>1. UNCHANGED <<batchIds, recovered, syncPhase>>
      BY <2>2 DEF TurnEnds
    <3>2. (l \in aborted /\ IsCurrent(turn, l)) \in BOOLEAN
      BY DEF IsCurrent
    <3>3. interrupted' \in {interrupted, interrupted \/ (l \in aborted /\ IsCurrent(turn, l))}
      BY <2>2 DEF TurnEnds
    <3>4. interrupted' \in BOOLEAN
      BY <3>2, <3>3
    <3>5. QED
      BY <3>1, <3>4
  <2>3. CASE \/ TurnSent(l) \/ StaleApprovals(l) \/ TurnRetries(l) \/ TurnToolCalls(l)
             \/ TurnAsks(l) \/ TurnExecutes(l) \/ TurnContinues(l) \/ TurnCompletes(l)
             \/ RecoveryContinues(l)
    BY <2>3 DEF TurnSent, StaleApprovals, TurnRetries, TurnToolCalls, TurnAsks, TurnExecutes,
         TurnContinues, TurnCompletes, RecoveryContinues
  <2>4. CASE TurnReturns(l)
    <3>1. UNCHANGED <<interrupted, batchIds, recovered>>
          /\ (syncPhase' = syncPhase \/ EvictIfIdle(accepted, syncPhase))
      BY <2>4 DEF TurnReturns
    <3>2. QED
      BY <1>0, <3>1
  <2>5. QED
    BY <1>2, <2>1, <2>2, <2>3, <2>4 DEF OwnerStep
<1>3. ASSUME NEW l \in Leases, ApprovalResponse(l) \/ Settlement(l) PROVE RecoveryTyped'
  BY <1>3 DEF ApprovalResponse, Settlement
<1>4. ASSUME NEW c \in Conns, ConnStep(c) PROVE RecoveryTyped'
  <2>1. UNCHANGED <<interrupted, batchIds, recovered>>
        /\ (syncPhase' = syncPhase \/ EvictIfIdle(accepted, syncPhase))
    BY <1>4 DEF ConnStep, Connects, RuntimeStarted, Reconnects, Pumps, Suspends, Closes, SendMessage
  <2>2. QED
    BY <1>0, <2>1
<1>5. ASSUME NEW s \in Syncs, SyncStarts(s) \/ SyncReads(s) \/ RecoveryBegins(s) PROVE RecoveryTyped'
  <2>1. /\ recovered' \in Syncs \cup {NoSync} /\ interrupted' \in BOOLEAN
        /\ UNCHANGED batchIds
    BY <1>5 DEF SyncStarts, SyncReads, RecoveryBegins
  <2>2. \E p \in {"done", "reading"} \cup Syncs :
          LET phases == [syncPhase EXCEPT ![s] = p]
          IN syncPhase' = phases \/ EvictIfIdle(accepted, phases)
    <3>1. CASE SyncStarts(s)
      BY <3>1 DEF SyncStarts
    <3>2. CASE SyncReads(s)
      <4> DEFINE p == IF recovered' = NoSync \/ turn.kind # "idle" THEN "done" ELSE recovered'
      <4>1. p \in {"done", "reading"} \cup Syncs
        BY <2>1
      <4>2. \/ syncPhase' = [syncPhase EXCEPT ![s] = p]
            \/ EvictIfIdle(accepted, [syncPhase EXCEPT ![s] = p])
        BY <3>2 DEF SyncReads
      <4> HIDE DEF p
      <4>3. QED
        BY <4>1, <4>2
    <3>3. CASE RecoveryBegins(s)
      BY <3>3 DEF RecoveryBegins
    <3>4. QED
      BY <1>5, <3>1, <3>2, <3>3
  <2>3. PICK p \in {"done", "reading"} \cup Syncs :
          LET phases == [syncPhase EXCEPT ![s] = p]
          IN syncPhase' = phases \/ EvictIfIdle(accepted, phases)
    BY <2>2
  <2>4. [syncPhase EXCEPT ![s] = p] \in [Syncs -> {"none", "reading", "done"} \cup Syncs]
    OBVIOUS
  <2>5. QED
    BY <1>0, <2>1, <2>3, <2>4
<1>6. CASE \E i \in store : RemoveQueueItem(i)
  <2>1. UNCHANGED <<interrupted, batchIds, recovered>> /\ EvictIfIdle(accepted, syncPhase)
    BY <1>6 DEF RemoveQueueItem
  <2>2. QED
    BY <1>0, <2>1
<1>7. CASE Notify \/ AbortMessage \/ CommandStarts \/ CommandEnds \/ ResumeQueue \/ Stop
           \/ UNCHANGED vars
  BY <1>7 DEF Notify, AbortMessage, CommandStarts, CommandEnds, ResumeQueue, Stop, vars
<1>8. QED
  BY <1>1, <1>2, <1>3, <1>4, <1>5, <1>6, <1>7 DEF Next

LEMMA StepKeepsSwitches ==
  ASSUME SwitchesTyped, [Next]_vars
  PROVE  SwitchesTyped'
<1> USE DEF SwitchesTyped, ingress, books
<1>1. CASE DispatchRuns \/ PumpTakes \/ PumpStops
  BY <1>1 DEF DispatchRuns, PumpTakes, PumpStops, Take
<1>2. ASSUME NEW l \in Leases, OwnerStep(l) PROVE SwitchesTyped'
  BY <1>2 DEF OwnerStep, TurnSetup, TurnSent, StaleApprovals, TurnRetries, TurnToolCalls, TurnAsks,
       TurnExecutes, TurnContinues, TurnCompletes, TurnEnds, TurnReturns, RecoveryContinues,
       Proceed, Take
<1>3. ASSUME NEW l \in Leases, ApprovalResponse(l) \/ Settlement(l) PROVE SwitchesTyped'
  BY <1>3 DEF ApprovalResponse, Settlement
<1>4. ASSUME NEW c \in Conns, NEW m \in Messages, SendMessage(m, c) PROVE SwitchesTyped'
  BY <1>4, MaxMessagesAssumption DEF SendMessage, Messages
<1>5. ASSUME NEW c \in Conns, ConnStep(c) PROVE SwitchesTyped'
  BY <1>4, <1>5 DEF ConnStep, Connects, RuntimeStarted, Reconnects, Pumps, Suspends, Closes
<1>6. ASSUME NEW s \in Syncs, SyncStarts(s) \/ SyncReads(s) \/ RecoveryBegins(s) PROVE SwitchesTyped'
  BY <1>6 DEF SyncStarts, SyncReads, RecoveryBegins
<1>7. CASE (\E i \in store : RemoveQueueItem(i)) \/ Notify \/ AbortMessage
           \/ CommandStarts \/ CommandEnds \/ ResumeQueue \/ Stop \/ UNCHANGED vars
  BY <1>7 DEF RemoveQueueItem, Notify, AbortMessage, CommandStarts, CommandEnds, ResumeQueue,
       Stop, vars
<1>8. QED
  BY <1>1, <1>2, <1>3, <1>5, <1>6, <1>7 DEF Next

\* Types, and what they rest on.
TInv == IInv /\ QInv /\ PumpInv /\ ClientsTyped /\ RecoveryTyped /\ SwitchesTyped

LEMMA InitQueue == Init => QInv
<1> SUFFICES ASSUME Init PROVE QInv
  OBVIOUS
<1>1. /\ store = {} /\ nextId = 0 /\ inputs = <<>> /\ cancelled = {} /\ lost = {}
      /\ accepted = <<>> /\ acked = <<>> /\ served = <<>> /\ rested = 0
  BY DEF Init
<1>2. Listed({}, 0)
  <2>1. IsFiniteSet({}) /\ Cardinality({}) = 0
    BY FS_EmptySet
  <2>2. QED
    BY <2>1, LimitsAssumption DEF Listed, Queued
<1>3. inputs \in [MessageIds({}) -> Input]
  BY <1>1 DEF MessageIds
<1>4. AcceptedTyped
  BY <1>1, MaxAcceptedAssumption DEF AcceptedTyped, IsInjective
<1>5. QED
  BY <1>1, <1>2, <1>3, <1>4 DEF QInv, QueueTyped

LEMMA InitTypes == Init => TInv
<1> SUFFICES ASSUME Init PROVE TInv
  OBVIOUS
<1>1. IInv /\ QInv
  BY InitEstablishes, InitQueue
<1>2. PumpInv
  <2>1. /\ chain = <<>> /\ chainTurn = NoLease /\ pumpScheduled = FALSE /\ pumpActive = FALSE
    BY DEF Init
  <2>2. <<>> \in Seq(Task)
    OBVIOUS
  <2>3. QED
    BY <2>1, <2>2 DEF PumpInv
<1>3. ClientsTyped /\ RecoveryTyped /\ SwitchesTyped
  <2>1. ClientsTyped
    BY DEF Init, ClientsTyped, ConnStates
  <2>2. RecoveryTyped
    BY DEF Init, RecoveryTyped
  <2>3. SwitchesTyped
    <3>1. arrived = 0 /\ commandRunning = FALSE /\ closed = FALSE
      BY DEF Init
    <3>2. 0 \in 0 .. MaxMessages
      BY MaxMessagesAssumption
    <3>3. QED
      BY <3>1, <3>2 DEF SwitchesTyped
  <2>4. QED
    BY <2>1, <2>2, <2>3
<1>4. QED
  BY <1>1, <1>2, <1>3 DEF TInv

LEMMA StepTypes == TInv /\ [Next]_vars => TInv'
<1> SUFFICES ASSUME TInv, [Next]_vars PROVE TInv'
  OBVIOUS
<1> USE DEF TInv
<1>1. chain \in Seq(Task)
  BY DEF PumpInv
<1>2. QInv'
  BY <1>1, StepOnQueue, QueueStepTyped
<1>3. IInv' /\ PumpInv'
  BY StepImplements, StepKeepsPump
<1>4. ClientsTyped' /\ RecoveryTyped' /\ SwitchesTyped'
  BY <1>1, StepKeepsClients, StepKeepsRecovery, StepKeepsSwitches
<1>5. QED
  BY <1>2, <1>3, <1>4

LEMMA TypesHold == Spec => []TInv
BY InitTypes, StepTypes, PTL DEF Spec

\* The queue and its books, the chain, the clients and the recovery keep their
\* types.
THEOREM ConversationTyped == Spec => []TypeOK
<1>1. TInv /\ Turns => TypeOK
  BY DEF TypeOK, TInv, IInv, OwnersRun, Turns, QInv, QueueTyped, AcceptedTyped, Listed, Queued, Input,
       PumpInv, ClientsTyped, ConnStates, RecoveryTyped, SwitchesTyped
<1>2. QED
  BY <1>1, TypesHold, TurnsHold, PTL

\* A listener's queue stays within its soft limit, so no input is refused.
\* (QueueRuntime.enqueue)
THEOREM CeilingIsUnreached == Spec => []CeilingUnreached
<1>1. TInv => CeilingUnreached
  BY DEF TInv, QInv, QueueTyped, Listed, CeilingUnreached
<1>2. QED
  BY <1>1, TypesHold, PTL

\* Where no recovery runs beside the chain, and the ceiling is above the soft
\* limit, an idle conversation with work that may run has a pump coming.
\* (scheduleQueuePump and all its callers)
THEOREM NoWakeupIsLost ==
  Syncs = {} /\ MaxItems < HardMaxItems => (Spec => []NoLostWakeup)
<1> SUFFICES ASSUME Syncs = {}, MaxItems < HardMaxItems
             PROVE  Spec => []NoLostWakeup
  OBVIOUS
<1>1. Init => Alone /\ Wake
  BY DEF Init, Lifecycle!Init, Alone, Wake, Ready
<1>2. TInv /\ Turns /\ Alone /\ Wake /\ [Next]_vars => Alone' /\ Wake'
  BY StepKeepsAlone, StepWakes DEF TInv, ClientsTyped
<1>3. TInv /\ Wake => NoLostWakeup
  <2> SUFFICES ASSUME TInv, Wake, ~closed, Open # {}, turn.kind = "idle", Ready(store) # {},
                      \A c \in Conns : connState[c] # "starting"
               PROVE  chain # <<>>
    BY DEF NoLostWakeup
  <2>1. Attended
    BY DEF Attended, Open
  <2>2. PumpIn(chain) \/ chainTurn # NoLease
    BY <2>1 DEF Wake, Expected
  <2>3. QED
    BY <2>2, EmptySeq DEF TInv, PumpInv, PumpIn
<1>4. QED
  BY <1>1, <1>2, <1>3, TypesHold, TurnsHold, PTL DEF Spec

\* A stopped listener begins no turn, if no recovery is under way.
\* (runQueueItem, drainQueuedMessages)
THEOREM NoTurnAfterAStop == Syncs = {} => (Spec => NoTurnAfterStop)
<1> SUFFICES ASSUME Syncs = {} PROVE Spec => NoTurnAfterStop
  OBVIOUS
<1> USE DEF lifecycle
<1>1. ASSUME closed, [Next]_vars PROVE UNCHANGED used
  <2>1. CASE DispatchRuns \/ PumpStops \/ PumpTakes
    BY <1>1, <2>1 DEF DispatchRuns, PumpStops, PumpTakes, Refused
  <2>2. ASSUME NEW l \in Leases, OwnerStep(l) PROVE UNCHANGED used
    BY <2>2 DEF OwnerStep, TurnSetup, TurnSent, StaleApprovals, TurnRetries, TurnToolCalls, TurnAsks,
         TurnExecutes, TurnContinues, TurnCompletes, TurnEnds, TurnReturns, RecoveryContinues,
         Proceed, Lifecycle!OwnerFinish, Lifecycle!OwnerReturn
  <2>3. ASSUME NEW l \in Leases, ApprovalResponse(l) \/ Settlement(l) PROVE UNCHANGED used
    BY <2>3 DEF ApprovalResponse, Settlement, Lifecycle!SettleCancellation
  <2>4. ASSUME NEW c \in Conns, ConnStep(c) PROVE UNCHANGED used
    BY <2>4 DEF ConnStep, Connects, RuntimeStarted, Reconnects, Pumps, Suspends, Closes, SendMessage,
         Lifecycle!RequestCancellation
  <2>5. CASE (\E i \in store : RemoveQueueItem(i)) \/ Notify \/ AbortMessage \/ CommandStarts
             \/ CommandEnds \/ ResumeQueue \/ Stop \/ UNCHANGED vars
    BY <2>5 DEF RemoveQueueItem, Notify, AbortMessage, CommandStarts, CommandEnds, ResumeQueue, Stop,
         vars, Lifecycle!RequestCancellation, Lifecycle!Reset
  <2>6. QED
    BY <1>1, <2>1, <2>2, <2>3, <2>4, <2>5 DEF Next
<1>2. [Next]_vars => [closed => UNCHANGED used]_vars
  BY <1>1
<1>3. QED
  BY <1>2, PTL DEF Spec, NoTurnAfterStop

-----------------------------------------------------------------------------
(* What becomes of the messages *)

\* Some items leave, and their messages are announced as cancelled ...
Announces == \A n \in DOMAIN inputs \ DOMAIN inputs' : inputs[n].msg \in cancelled'
Shrinks == DOMAIN inputs' \subseteq DOMAIN inputs /\ \A n \in DOMAIN inputs' : inputs'[n] = inputs[n]
RemembersOrRests ==
  \/ ToSet(accepted') = ToSet(accepted) /\ rested' = rested
  \/ DOMAIN inputs' = {} /\ rested' = Len(served')
Removes ==
  /\ Shrinks /\ Announces /\ cancelled \subseteq cancelled'
  /\ RemembersOrRests /\ UNCHANGED <<acked, served, lost>>

\* ... or a new message is accepted, with an id after those of the others.
AddsAs(m, id) ==
  /\ DOMAIN inputs' \subseteq DOMAIN inputs \cup {id} /\ id \in DOMAIN inputs'
  /\ inputs'[id].msg = m /\ \A n \in DOMAIN inputs : n < id
  /\ \A n \in DOMAIN inputs' \ {id} : inputs'[n] = inputs[n]
Adds ==
  /\ \E m \in Messages, id \in Nat : ~IsAccepted(m) /\ Remember(m) /\ AddsAs(m, id)
  /\ Announces /\ cancelled \subseteq cancelled' /\ UNCHANGED <<rested, served, lost>>

LEMMA WithKept ==
  ASSUME QInv, NEW items, NEW known, MessageIds(items) \subseteq DOMAIN known,
         QueueWith(items, known)
  PROVE  /\ DOMAIN inputs' = MessageIds(items) /\ \A n \in DOMAIN inputs' : inputs'[n] = known[n]
         /\ Announces /\ cancelled \subseteq cancelled'
BY DEF QueueWith, InputsOf, Announces

LEMMA RemembersIs ==
  ASSUME QInv, NEW known, ToSet(known) = ToSet(accepted), Remembers(known),
         DOMAIN inputs' \subseteq MessageIds(store')
  PROVE  RemembersOrRests
BY DEF Remembers, RemembersOrRests, MessageIds

LEMMA NotifiedRemoves ==
  ASSUME QInv, Notified
  PROVE  Removes
<1>1. PICK kind \in {"task_notification", "mod_continue"} : EnqueueSystem(kind)
  BY DEF Notified
<1> DEFINE item == NewItem(kind, "system")
           items == IF AtCeiling(store) THEN store ELSE Enqueued(store, item)
<1>2. nextId \in Nat /\ DOMAIN inputs = MessageIds(store)
  BY DEF QInv, QueueTyped
<1>3. item.kind = kind
  BY <1>2, NewItemIs DEF QueueItemKinds, CoalescableKinds, BarrierKinds, Sources
<1>4. QueueWith(items, inputs)
  BY <1>1 DEF EnqueueSystem, QueueBecomes
<1> HIDE DEF item
<1>5. MessageIds(items) \subseteq MessageIds(store)
  BY <1>3 DEF MessageIds, Enqueued
<1> HIDE DEF items
<1>6. QED
  BY <1>2, <1>4, <1>5, WithKept DEF Removes, RemembersOrRests, Shrinks, Notified

LEMMA AcceptsAdds ==
  ASSUME QInv, Accepts
  PROVE  Removes \/ Adds
<1>1. PICK m \in Messages, c \in Conns : ~IsAccepted(m) /\ EnqueueUser(m, c)
  BY DEF Accepts
<1> DEFINE item == NewItem("message", "user")
           items == IF AtCeiling(store) THEN Resumed(store) ELSE Enqueued(Resumed(store), item)
           known == WithInput(item.id, m, c)
<1>2. nextId \in Nat /\ Listed(store, nextId) /\ DOMAIN inputs = MessageIds(store)
  BY DEF QInv, QueueTyped
<1>3. item.id = nextId + 1 /\ item.kind = "message"
  BY <1>2, NewItemIs DEF QueueItemKinds, CoalescableKinds, BarrierKinds, Sources
<1>4. QueueWith(items, known)
  BY <1>1 DEF EnqueueUser
<1>5. UNCHANGED <<rested, served, lost>>
  BY DEF Accepts
<1>6. MessageIds(Resumed(store)) \subseteq MessageIds(store)
  BY <1>2, RearrangedListed
<1>7. \A n \in DOMAIN inputs : n \in Nat /\ n < nextId + 1
  BY <1>2 DEF MessageIds, Listed, Queued
<1>8. AtCeiling(store) => UNCHANGED <<accepted, acked>> /\ items = Resumed(store)
  BY <1>1 DEF EnqueueUser
<1>9. ~AtCeiling(store) => Remember(m) /\ items = Enqueued(Resumed(store), item)
  BY <1>1 DEF EnqueueUser
<1> HIDE DEF item
<1>10. /\ DOMAIN known = DOMAIN inputs \cup {nextId + 1} /\ known[nextId + 1].msg = m
       /\ \A n \in DOMAIN inputs : known[n] = inputs[n]
  BY <1>3, <1>7 DEF WithInput
<1>11. MessageIds(Enqueued(Resumed(store), item)) \subseteq DOMAIN known
  BY <1>2, <1>3, <1>6, <1>10 DEF MessageIds, Enqueued
<1>12. nextId + 1 \in MessageIds(Enqueued(Resumed(store), item))
  BY <1>3 DEF MessageIds, Enqueued
<1> HIDE DEF items, known
<1>13. CASE AtCeiling(store)
  <2>1. MessageIds(items) \subseteq DOMAIN inputs
    BY <1>2, <1>6, <1>8, <1>13
  <2>2. QED
    BY <1>4, <1>5, <1>8, <1>10, <1>13, <2>1, WithKept DEF Removes, RemembersOrRests, Shrinks
<1>14. CASE ~AtCeiling(store)
  <2>1. /\ DOMAIN inputs' = MessageIds(items) /\ \A n \in DOMAIN inputs' : inputs'[n] = known[n]
        /\ Announces /\ cancelled \subseteq cancelled'
    BY <1>4, <1>9, <1>11, <1>14, WithKept
  <2>2. AddsAs(m, nextId + 1)
    BY <1>7, <1>9, <1>10, <1>11, <1>12, <1>14, <2>1 DEF AddsAs
  <2>3. nextId + 1 \in Nat
    BY <1>2
  <2>4. QED
    BY <1>1, <1>5, <1>9, <1>14, <2>1, <2>2, <2>3 DEF Adds
<1>15. QED
  BY <1>13, <1>14

LEMMA BooksStep ==
  ASSUME QInv, QueueStep(Outcomes)
  PROVE  Removes \/ Adds \/ Takes(Outcomes) \/ Starts
<1>0. nextId \in Nat /\ Listed(store, nextId) /\ DOMAIN inputs = MessageIds(store)
  BY DEF QInv, QueueTyped
<1>1. CASE Rearranged
  <2>1. PICK items \in {Paused(store), Resumed(store)} \cup SUBSET store : QueueWith(items, inputs)
    BY <1>1 DEF Rearranged, QueueBecomes
  <2>2. MessageIds(items) \subseteq MessageIds(store)
    BY <1>0, RearrangedListed
  <2>3. DOMAIN inputs' = MessageIds(store') /\ Remembers(accepted)
    BY <1>0, <1>1, <2>1, <2>2, WithKept DEF Rearranged, QueueWith
  <2>4. RemembersOrRests
    BY <2>3, RemembersIs
  <2>5. QED
    BY <1>0, <1>1, <2>1, <2>2, <2>4, WithKept DEF Removes, Shrinks, Rearranged
<1>2. CASE Retried
  <2>1. PICK m \in Messages : IsAccepted(m) /\ Remembers(Touched(m))
    BY <1>2 DEF Retried
  <2>2. AcceptedTyped
    BY DEF QInv
  <2>3. ToSet(Touched(m)) = ToSet(accepted) \cup {m}
    BY <2>2, TouchedIs
  <2>4. ToSet(Touched(m)) = ToSet(accepted)
    BY <2>1, <2>3 DEF IsAccepted
  <2>5. DOMAIN inputs' = MessageIds(store')
    BY <1>0, <1>2 DEF Retried, queue
  <2>6. RemembersOrRests
    BY <2>1, <2>4, <2>5, RemembersIs
  <2>7. QED
    BY <1>2, <2>6 DEF Retried, Removes, Shrinks, Announces, queue
<1>3. CASE Rests
  <2>1. DOMAIN inputs' = MessageIds(store') /\ Remembers(accepted)
    BY <1>0, <1>3 DEF Rests, queue
  <2>2. RemembersOrRests
    BY <2>1, RemembersIs
  <2>3. QED
    BY <1>3, <2>2 DEF Rests, Removes, Shrinks, Announces, queue
<1>4. QED
  BY <1>1, <1>2, <1>3, NotifiedRemoves, AcceptsAdds DEF QueueStep

-----------------------------------------------------------------------------
(* The order of the messages *)

\* The listener accepted x before y.
Known(s, x) == \E a \in 1 .. Len(s) : s[a] = x
Before(s, x, y) == \E a, b \in 1 .. Len(s) : a < b /\ s[a] = x /\ s[b] = y

ServedInOrder ==
  /\ \A j \in 1 .. Len(served) : Known(acked, served[j])
  /\ \A j, k \in 1 .. Len(served) : j < k => Before(acked, served[j], served[k])

QueuedInOrder ==
  /\ \A n \in DOMAIN inputs : Known(acked, inputs[n].msg)
  /\ \A n, p \in DOMAIN inputs : n < p => Before(acked, inputs[n].msg, inputs[p].msg)
  /\ \A j \in 1 .. Len(served), n \in DOMAIN inputs : Before(acked, served[j], inputs[n].msg)

\* An interrupt parks every message, and the next one releases them all, so
\* that no message overtakes a parked one.
ParkedTogether ==
  \A i, j \in store : i.kind = "message" /\ j.kind = "message" => i.paused = j.paused

OrderInv == ServedInOrder /\ QueuedInOrder /\ ParkedTogether

LEMMA AckedGrows ==
  ASSUME acked \in Seq(Messages), NEW m \in Messages, acked' = Append(acked, m)
  PROVE  /\ \A x : Known(acked, x) => Known(acked', x) /\ Before(acked', x, m)
         /\ \A x, y : Before(acked, x, y) => Before(acked', x, y)
         /\ Known(acked', m)
<1>1. /\ Len(acked') = Len(acked) + 1 /\ Len(acked) \in Nat
      /\ \A a \in 1 .. Len(acked) : acked'[a] = acked[a]
      /\ acked'[Len(acked) + 1] = m
  BY AppendProperties, LenProperties
<1>2. ASSUME NEW x, Known(acked, x) PROVE Known(acked', x) /\ Before(acked', x, m)
  <2>1. PICK a \in 1 .. Len(acked) : acked[a] = x
    BY <1>2 DEF Known
  <2>2. a \in 1 .. Len(acked') /\ Len(acked) + 1 \in 1 .. Len(acked') /\ a < Len(acked) + 1
    BY <1>1
  <2>3. acked'[a] = x
    BY <1>1, <2>1
  <2>4. QED
    BY <1>1, <2>2, <2>3 DEF Known, Before
<1>3. ASSUME NEW x, NEW y, Before(acked, x, y) PROVE Before(acked', x, y)
  <2>1. PICK a \in 1 .. Len(acked), b \in 1 .. Len(acked) : a < b /\ acked[a] = x /\ acked[b] = y
    BY <1>3 DEF Before
  <2>2. a \in 1 .. Len(acked') /\ b \in 1 .. Len(acked') /\ acked'[a] = x /\ acked'[b] = y
    BY <1>1, <2>1
  <2>3. QED
    BY <2>1, <2>2 DEF Before
<1>4. Known(acked', m)
  BY <1>1 DEF Known
<1>5. QED
  BY <1>2, <1>3, <1>4

LEMMA RemovesKeepOrder ==
  ASSUME ServedInOrder, QueuedInOrder, Shrinks, acked' = acked, served' = served
  PROVE  ServedInOrder' /\ QueuedInOrder'
<1>1. ServedInOrder'
  BY DEF ServedInOrder
<1>2. DOMAIN inputs' \subseteq DOMAIN inputs /\ \A n \in DOMAIN inputs' : inputs'[n] = inputs[n]
  BY DEF Shrinks
<1>3. QED
  BY <1>1, <1>2 DEF QueuedInOrder

LEMMA AddsKeepOrder ==
  ASSUME QInv, ServedInOrder, QueuedInOrder, Adds
  PROVE  ServedInOrder' /\ QueuedInOrder'
<1>1. PICK m \in Messages, id \in Nat : Remember(m) /\ AddsAs(m, id)
  BY DEF Adds
<1>2. acked \in Seq(Messages) /\ acked' = Append(acked, m) /\ served' = served
  BY <1>1 DEF QInv, QueueTyped, Remember, Adds
<1>3. /\ \A x : Known(acked, x) => Known(acked', x) /\ Before(acked', x, m)
      /\ \A x, y : Before(acked, x, y) => Before(acked', x, y)
      /\ Known(acked', m)
  BY <1>2, AckedGrows
<1>4. /\ \A n \in DOMAIN inputs' \ {id} : n \in DOMAIN inputs /\ inputs'[n] = inputs[n] /\ n < id
      /\ id \in DOMAIN inputs' /\ inputs'[id].msg = m
  BY <1>1 DEF AddsAs
<1>5. ServedInOrder'
  BY <1>2, <1>3 DEF ServedInOrder
<1>6. \A n \in DOMAIN inputs' : Known(acked', inputs'[n].msg)
  <2>1. ASSUME NEW n \in DOMAIN inputs' PROVE Known(acked', inputs'[n].msg)
    <3>1. CASE n = id
      BY <1>3, <1>4, <3>1
    <3>2. CASE n # id
      <4>1. Known(acked, inputs[n].msg)
        BY <1>4, <3>2 DEF QueuedInOrder
      <4>2. QED
        BY <1>3, <1>4, <3>2, <4>1
    <3>3. QED
      BY <3>1, <3>2
  <2>2. QED
    BY <2>1
<1>7. ASSUME NEW n \in DOMAIN inputs', NEW p \in DOMAIN inputs', n < p
      PROVE  Before(acked', inputs'[n].msg, inputs'[p].msg)
  <2>1. n # id
    <3>1. ASSUME n = id PROVE FALSE
      <4>1. p = id \/ (p < id /\ p \in Nat)
        BY <1>4 DEF QInv, QueueTyped, Listed, Queued, MessageIds
      <4>2. QED
        BY <1>7, <3>1, <4>1
    <3>2. QED
      BY <3>1
  <2>2. n \in DOMAIN inputs /\ inputs'[n] = inputs[n]
    BY <1>4, <2>1
  <2>3. CASE p = id
    <3>1. Known(acked, inputs[n].msg)
      BY <2>2 DEF QueuedInOrder
    <3>2. QED
      BY <1>3, <1>4, <2>2, <2>3, <3>1
  <2>4. CASE p # id
    <3>1. Before(acked, inputs[n].msg, inputs[p].msg) /\ inputs'[p] = inputs[p]
      BY <1>4, <1>7, <2>2, <2>4 DEF QueuedInOrder
    <3>2. QED
      BY <1>3, <2>2, <3>1
  <2>5. QED
    BY <2>3, <2>4
<1>8. ASSUME NEW j \in 1 .. Len(served'), NEW n \in DOMAIN inputs'
      PROVE  Before(acked', served'[j], inputs'[n].msg)
  <2>1. j \in 1 .. Len(served) /\ served'[j] = served[j] /\ Known(acked, served[j])
    BY <1>2 DEF ServedInOrder
  <2>2. CASE n = id
    BY <1>3, <1>4, <2>1, <2>2
  <2>3. CASE n # id
    <3>1. Before(acked, served[j], inputs[n].msg) /\ inputs'[n] = inputs[n]
      BY <1>4, <2>1, <2>3 DEF QueuedInOrder
    <3>2. QED
      BY <1>3, <2>1, <3>1
  <2>4. QED
    BY <2>2, <2>3
<1>9. QED
  BY <1>5, <1>6, <1>7, <1>8 DEF QueuedInOrder

LEMMA StartsKeepOrder ==
  ASSUME QInv, ServedInOrder, Starts
  PROVE  ServedInOrder' /\ QueuedInOrder'
<1>1. PICK m \in Messages : Remember(m) /\ served' = Append(served, m)
  BY DEF Starts
<1>2. acked \in Seq(Messages) /\ acked' = Append(acked, m) /\ served \in Seq(Messages)
  BY <1>1 DEF QInv, QueueTyped, Remember
<1>3. /\ \A x : Known(acked, x) => Known(acked', x) /\ Before(acked', x, m)
      /\ \A x, y : Before(acked, x, y) => Before(acked', x, y)
      /\ Known(acked', m)
  BY <1>2, AckedGrows
<1>4. /\ Len(served') = Len(served) + 1 /\ Len(served) \in Nat
      /\ \A j \in 1 .. Len(served) : served'[j] = served[j]
      /\ served'[Len(served) + 1] = m
  BY <1>1, <1>2, AppendProperties, LenProperties
<1>5. ASSUME NEW j \in 1 .. Len(served') PROVE Known(acked', served'[j])
  <2>1. CASE j = Len(served) + 1
    BY <1>3, <1>4, <2>1
  <2>2. CASE j # Len(served) + 1
    <3>1. j \in 1 .. Len(served)
      BY <1>4, <2>2
    <3>2. QED
      BY <1>3, <1>4, <3>1 DEF ServedInOrder
  <2>3. QED
    BY <2>1, <2>2
<1>6. ASSUME NEW j \in 1 .. Len(served'), NEW k \in 1 .. Len(served'), j < k
      PROVE  Before(acked', served'[j], served'[k])
  <2>1. j \in 1 .. Len(served) /\ served'[j] = served[j]
    BY <1>4, <1>6
  <2>2. CASE k = Len(served) + 1
    BY <1>3, <1>4, <2>1, <2>2 DEF ServedInOrder
  <2>3. CASE k # Len(served) + 1
    <3>1. k \in 1 .. Len(served)
      BY <1>4, <2>3
    <3>2. Before(acked, served[j], served[k]) /\ served'[k] = served[k]
      BY <1>4, <1>6, <2>1, <3>1 DEF ServedInOrder
    <3>3. QED
      BY <1>3, <2>1, <3>2
  <2>4. QED
    BY <2>2, <2>3
<1>7. DOMAIN inputs' = {}
  BY DEF Starts, queue, QInv, QueueTyped, MessageIds
<1>8. QED
  BY <1>5, <1>6, <1>7 DEF ServedInOrder, QueuedInOrder

\* A batch is the front of what is ready, and with its messages nothing waits
\* behind a parked one: the messages left in the queue are younger.
LEMMA BatchIsOlder ==
  ASSUME QInv, ParkedTogether, NEW items \in SteeringBatches,
         NEW n \in MessageIds(items), NEW p \in MessageIds(store \ items)
  PROVE  n < p
<1>1. nextId \in Nat /\ Queued(store, nextId)
  BY DEF QInv, QueueTyped, Listed
<1>2. PICK i \in items : i.kind = "message" /\ n = i.id
  BY DEF MessageIds
<1>3. PICK j \in store \ items : j.kind = "message" /\ p = j.id
  BY DEF MessageIds
<1>4. i \in Ready(store) /\ i \in store
  BY BatchIn
<1>5. j \in Ready(store)
  BY <1>2, <1>3, <1>4 DEF ParkedTogether, Ready
<1>6. PICK k \in 1 .. Cardinality(Ready(store)) : items = FrontItems(Ready(store), k)
  BY <1>2 DEF SteeringBatches, Batches
<1> DEFINE below(x) == {y \in Ready(store) : y.id < x.id}
<1>7. k \in Nat /\ IsFiniteSet(Ready(store)) /\ Ready(store) \subseteq store
  BY <1>1, Finite DEF Queued, Ready
<1>8. Cardinality(below(i)) < k /\ ~(Cardinality(below(j)) < k)
  BY <1>2, <1>3, <1>5, <1>6 DEF FrontItems
<1>9. IsFiniteSet(below(i)) /\ Cardinality(below(i)) \in Nat /\ Cardinality(below(j)) \in Nat
  BY <1>7, Finite
<1>10. i.id \in Nat /\ j.id \in Nat /\ \A y \in Ready(store) : y.id \in Nat
  BY <1>1, <1>3, <1>4, <1>7 DEF Queued
<1>11. ASSUME p <= n PROVE FALSE
  <2>1. below(j) \subseteq below(i)
    BY <1>2, <1>3, <1>10, <1>11
  <2>2. Cardinality(below(j)) <= Cardinality(below(i))
    BY <1>9, <2>1, Finite
  <2> HIDE DEF below
  <2>3. QED
    BY <1>7, <1>8, <1>9, <2>2
<1>12. QED
  BY <1>2, <1>3, <1>10, <1>11

LEMMA TakeShrinks ==
  ASSUME QInv, NEW items \in SteeringBatches, NEW live \in BOOLEAN, Take(items, live)
  PROVE  /\ Shrinks /\ acked' = acked /\ DOMAIN inputs' = MessageIds(store \ items)
         /\ store' = store \ items
BY DEF Take, Shrinks, InputsOf, QInv, QueueTyped, MessageIds, ingress

\* A live batch follows what was served: every message of it is one of the
\* queue's, in the order of the ids.
LEMMA LiveBatch ==
  ASSUME QInv, NEW items \in SteeringBatches, Take(items, TRUE)
  PROVE  /\ served \in Seq(Messages) /\ Len(served) \in Nat /\ Len(served') \in Nat
         /\ Len(served) <= Len(served') /\ MessageIds(items) \subseteq DOMAIN inputs
         /\ \A j, k \in 1 .. Cardinality(MessageIds(items)) :
              j < k => Nth(MessageIds(items), j) < Nth(MessageIds(items), k)
         /\ \A j \in 1 .. Len(served') :
              \/ j \in 1 .. Len(served) /\ served'[j] = served[j]
              \/ /\ j - Len(served) \in 1 .. Cardinality(MessageIds(items))
                 /\ served'[j] = inputs[Nth(MessageIds(items), j - Len(served))].msg
                 /\ Nth(MessageIds(items), j - Len(served)) \in MessageIds(items)
<1> DEFINE ids == MessageIds(items)
           batch == BatchMessages(items)
<1>1. nextId \in Nat /\ Queued(store, nextId) /\ DOMAIN inputs = MessageIds(store)
      /\ served \in Seq(Messages) /\ Len(served) \in Nat
  BY LenProperties DEF QInv, QueueTyped, Listed
<1>2. items \subseteq store
  BY BatchIn
<1>3. ids \subseteq DOMAIN inputs /\ ids \subseteq Nat /\ IsFiniteSet(ids)
  <2>1. ids \subseteq MessageIds(store)
    BY <1>2 DEF MessageIds
  <2>2. QED
    BY <1>1, <2>1, MessageIdsIn, Finite
<1>4. /\ batch \in Seq(Messages) /\ Len(batch) = Cardinality(ids)
      /\ \A k \in 1 .. Cardinality(ids) :
           batch[k] = inputs[Nth(ids, k)].msg /\ Nth(ids, k) \in ids
  BY <1>2, BatchMessagesTyped
<1>5. \A j, k \in 1 .. Cardinality(ids) : j < k => Nth(ids, j) < Nth(ids, k)
  BY <1>3, NthIncreases
<1>6. served' = served \o batch
  BY DEF Take
<1>7. Cardinality(ids) \in Nat
  BY <1>3, FS_CardinalityType
<1> HIDE DEF ids, batch
<1>8. /\ Len(served') = Len(served) + Cardinality(ids)
      /\ \A j \in 1 .. Len(served) + Cardinality(ids) :
           served'[j] = IF j <= Len(served) THEN served[j] ELSE batch[j - Len(served)]
  <2>1. /\ Len(served \o batch) = Len(served) + Len(batch)
        /\ \A j \in 1 .. Len(served) + Len(batch) :
             (served \o batch)[j] = IF j <= Len(served) THEN served[j] ELSE batch[j - Len(served)]
    BY <1>1, <1>4, ConcatProperties
  <2>2. QED
    BY <1>4, <1>6, <2>1
<1>9. ASSUME NEW j \in 1 .. Len(served')
       PROVE  \/ j \in 1 .. Len(served) /\ served'[j] = served[j]
              \/ /\ j - Len(served) \in 1 .. Cardinality(ids)
                 /\ served'[j] = inputs[Nth(ids, j - Len(served))].msg
                 /\ Nth(ids, j - Len(served)) \in ids
  <2>1. CASE j <= Len(served)
    BY <1>1, <1>7, <1>8, <2>1
  <2>2. CASE ~(j <= Len(served))
    <3>1. j - Len(served) \in 1 .. Cardinality(ids) /\ served'[j] = batch[j - Len(served)]
      BY <1>1, <1>7, <1>8, <2>2
    <3>2. QED
      BY <1>4, <3>1
  <2>3. QED
    BY <2>1, <2>2
<1>10. QED
  BY <1>1, <1>3, <1>5, <1>7, <1>8, <1>9 DEF ids

LEMMA TakesKeepOrder ==
  ASSUME QInv, ServedInOrder, QueuedInOrder, ParkedTogether, Takes(Outcomes)
  PROVE  ServedInOrder' /\ QueuedInOrder'
<1>1. PICK items \in SteeringBatches, live \in BOOLEAN : Take(items, live)
  BY DEF Takes, Outcomes
<1>2. Shrinks /\ acked' = acked /\ DOMAIN inputs' = MessageIds(store \ items)
  BY <1>1, TakeShrinks
<1>3. CASE ~live
  BY <1>1, <1>2, <1>3, RemovesKeepOrder DEF Take
<1>4. CASE live
  <2> DEFINE ids == MessageIds(items)
  <2>1. Take(items, TRUE)
    BY <1>1, <1>4
  <2>2. served \in Seq(Messages) /\ Len(served) \in Nat /\ ids \subseteq DOMAIN inputs
    BY <2>1, LiveBatch
  <2>3. \A j, k \in 1 .. Cardinality(ids) : j < k => Nth(ids, j) < Nth(ids, k)
    BY <2>1, LiveBatch
  <2>4. \A n \in ids, p \in DOMAIN inputs' : n < p
    BY <1>2, BatchIsOlder
  <2>5. ASSUME NEW j \in 1 .. Len(served')
         PROVE  \/ j \in 1 .. Len(served) /\ served'[j] = served[j]
                \/ /\ j - Len(served) \in 1 .. Cardinality(ids)
                   /\ served'[j] = inputs[Nth(ids, j - Len(served))].msg
                   /\ Nth(ids, j - Len(served)) \in ids
    BY <2>1, LiveBatch
  <2> HIDE DEF ids
  <2>6. ASSUME NEW j \in 1 .. Len(served') PROVE Known(acked, served'[j])
    BY <2>2, <2>5 DEF ServedInOrder, QueuedInOrder
  <2>7. ASSUME NEW j \in 1 .. Len(served'), NEW k \in 1 .. Len(served'), j < k
         PROVE  Before(acked, served'[j], served'[k])
    <3>1. CASE j \in 1 .. Len(served) /\ served'[j] = served[j]
      BY <2>2, <2>5, <2>7, <3>1 DEF ServedInOrder, QueuedInOrder
    <3>2. CASE /\ j - Len(served) \in 1 .. Cardinality(ids)
               /\ served'[j] = inputs[Nth(ids, j - Len(served))].msg
               /\ Nth(ids, j - Len(served)) \in ids
      <4>1. ~(k \in 1 .. Len(served))
        BY <2>2, <2>7, <3>2
      <4>2. /\ k - Len(served) \in 1 .. Cardinality(ids)
            /\ served'[k] = inputs[Nth(ids, k - Len(served))].msg
            /\ Nth(ids, k - Len(served)) \in ids
        BY <2>5, <4>1
      <4>3. j - Len(served) < k - Len(served)
        BY <2>2, <2>7, <3>2
      <4>4. Nth(ids, j - Len(served)) < Nth(ids, k - Len(served))
        BY <2>3, <3>2, <4>2, <4>3
      <4>5. QED
        BY <2>2, <3>2, <4>2, <4>4 DEF QueuedInOrder
    <3>3. QED
      BY <2>5, <3>1, <3>2
  <2>8. DOMAIN inputs' \subseteq DOMAIN inputs /\ \A n \in DOMAIN inputs' : inputs'[n] = inputs[n]
    BY <1>2 DEF Shrinks
  <2>9. ASSUME NEW j \in 1 .. Len(served'), NEW n \in DOMAIN inputs'
         PROVE  Before(acked, served'[j], inputs[n].msg)
    <3>1. CASE j \in 1 .. Len(served) /\ served'[j] = served[j]
      BY <2>8, <3>1 DEF QueuedInOrder
    <3>2. CASE /\ served'[j] = inputs[Nth(ids, j - Len(served))].msg
               /\ Nth(ids, j - Len(served)) \in ids
      <4>1. Nth(ids, j - Len(served)) < n
        BY <2>4, <3>2
      <4>2. QED
        BY <2>2, <2>8, <3>2, <4>1 DEF QueuedInOrder
    <3>3. QED
      BY <2>5, <3>1, <3>2
  <2>10. ServedInOrder'
    BY <1>2, <2>6, <2>7 DEF ServedInOrder
  <2>11. QED
    BY <1>2, <2>8, <2>9, <2>10 DEF QueuedInOrder
<1>5. QED
  BY <1>3, <1>4

LEMMA StepKeepsParked ==
  ASSUME QInv, ParkedTogether, QueueStep(Outcomes)
  PROVE  ParkedTogether'
<1>0. nextId \in Nat /\ Listed(store, nextId) /\ DOMAIN inputs = MessageIds(store)
      /\ \A i \in store : i \in QueueItem
  BY DEF QInv, QueueTyped, Listed, Queued
<1>1. ASSUME store' \subseteq store PROVE ParkedTogether'
  BY <1>1 DEF ParkedTogether
<1>2. \A j \in Resumed(store) : j.paused = FALSE
  BY <1>0 DEF Resumed, QueueItem
<1>3. CASE Notified
  <2>1. PICK kind \in {"task_notification", "mod_continue"} : EnqueueSystem(kind)
    BY <1>3 DEF Notified
  <2>2. NewItem(kind, "system").kind = kind
    BY <1>0, NewItemIs DEF QueueItemKinds, CoalescableKinds, BarrierKinds, Sources
  <2>3. store' \subseteq store \cup {NewItem(kind, "system")}
    BY <2>1 DEF EnqueueSystem, QueueBecomes, QueueWith, Enqueued
  <2>4. QED
    BY <2>2, <2>3 DEF ParkedTogether
<1>4. CASE Accepts
  <2>1. PICK m \in Messages, c \in Conns : EnqueueUser(m, c)
    BY <1>4 DEF Accepts
  <2>2. NewItem("message", "user").paused = FALSE
    BY <1>0, NewItemIs DEF QueueItemKinds, CoalescableKinds, BarrierKinds, Sources
  <2>3. store' \subseteq Resumed(store) \cup {NewItem("message", "user")}
    BY <2>1 DEF EnqueueUser, QueueWith, Enqueued
  <2>4. QED
    BY <1>2, <2>2, <2>3 DEF ParkedTogether
<1>5. CASE Takes(Outcomes)
  BY <1>1, <1>5 DEF Takes, Take
<1>6. CASE Rearranged
  <2>1. PICK items \in {Paused(store), Resumed(store)} \cup SUBSET store : store' = items
    BY <1>6 DEF Rearranged, QueueBecomes, QueueWith
  <2>2. CASE items \subseteq store
    BY <1>1, <2>1, <2>2
  <2>3. CASE items = Resumed(store)
    BY <1>2, <2>1, <2>3 DEF ParkedTogether
  <2>4. CASE items = Paused(store)
    <3>1. ASSUME NEW j \in Paused(store), j.kind = "message" PROVE j.paused = TRUE
      <4>1. PICK i \in store : j = [i EXCEPT !.paused = i.paused \/ Parkable(i)]
        BY DEF Paused
      <4>2. i \in QueueItem /\ i.kind = j.kind /\ (i.kind = "message" => i.source = "user")
        BY <1>0, <4>1 DEF QueueItem, Listed
      <4>3. j.paused = (i.paused \/ Parkable(i))
        BY <4>1, <4>2 DEF QueueItem
      <4>4. Parkable(i)
        BY <3>1, <4>2 DEF Parkable
      <4>5. (i.paused \/ Parkable(i)) = TRUE
        BY <4>4
      <4>6. QED
        BY <4>3, <4>5
    <3>2. QED
      BY <2>1, <2>4, <3>1 DEF ParkedTogether
  <2>5. QED
    BY <2>1, <2>2, <2>3, <2>4
<1>7. CASE Starts \/ Retried \/ Rests
  BY <1>1, <1>7 DEF Starts, Retried, Rests, queue
<1>8. QED
  BY <1>3, <1>4, <1>5, <1>6, <1>7 DEF QueueStep

LEMMA StepKeepsOrder ==
  ASSUME QInv, OrderInv, QueueStep(Outcomes)
  PROVE  OrderInv'
<1>1. ParkedTogether'
  BY StepKeepsParked DEF OrderInv
<1>2. ServedInOrder' /\ QueuedInOrder'
  <2>1. CASE Removes
    BY <2>1, RemovesKeepOrder DEF OrderInv, Removes
  <2>2. CASE Adds
    BY <2>2, AddsKeepOrder DEF OrderInv
  <2>3. CASE Takes(Outcomes)
    BY <2>3, TakesKeepOrder DEF OrderInv
  <2>4. CASE Starts
    BY <2>4, StartsKeepOrder DEF OrderInv
  <2>5. QED
    BY <2>1, <2>2, <2>3, <2>4, BooksStep
<1>3. QED
  BY <1>1, <1>2 DEF OrderInv

\* Messages reach turns in the order the listener accepted them in, through
\* the queue, interrupts, releases and steering.  (consumeQueuedTurn,
\* enqueueInboundUserMessage)
THEOREM AcceptedInOrder == Spec => []AcceptedOrder
<1>1. Init => OrderInv
  <2> SUFFICES ASSUME Init PROVE OrderInv
    OBVIOUS
  <2>1. store = {} /\ inputs = <<>> /\ served = <<>>
    BY DEF Init
  <2>2. QED
    BY <2>1 DEF OrderInv, ServedInOrder, QueuedInOrder, ParkedTogether
<1>2. TInv /\ OrderInv /\ [Next]_vars => OrderInv'
  BY StepOnQueue, StepKeepsOrder DEF TInv, PumpInv
<1>3. TInv /\ OrderInv => AcceptedOrder
  <2> SUFFICES ASSUME TInv, OrderInv, NEW j \in DOMAIN served, NEW k \in DOMAIN served, j < k
               PROVE  \E a, b \in DOMAIN acked : a < b /\ acked[a] = served[j] /\ acked[b] = served[k]
    BY DEF AcceptedOrder
  <2>1. DOMAIN served = 1 .. Len(served) /\ DOMAIN acked = 1 .. Len(acked)
    BY DEF TInv, QInv, QueueTyped
  <2>2. Before(acked, served[j], served[k])
    BY <2>1 DEF OrderInv, ServedInOrder
  <2>3. QED
    BY <2>1, <2>2 DEF Before
<1>4. QED
  BY <1>1, <1>2, <1>3, TypesHold, PTL DEF Spec

-----------------------------------------------------------------------------
(* Once *)

\* As long as the conversation has work, what it has served since it came to it
\* and what waits is remembered, and no message is there twice.
Recent == rested + 1 .. Len(served)
Remembered ==
  /\ \A j \in Recent : served[j] \in ToSet(accepted)
  /\ \A n \in DOMAIN inputs : inputs[n].msg \in ToSet(accepted)
QueuedOnce ==
  /\ \A j \in Recent, n \in DOMAIN inputs : served[j] # inputs[n].msg
  /\ \A n, p \in DOMAIN inputs : inputs[n].msg = inputs[p].msg => n = p
OnceInv == AtMostOnce /\ Remembered /\ QueuedOnce

\* A sequence without repetitions is no longer than the set it is drawn from.
LEMMA InjectiveIsShort ==
  ASSUME NEW s \in Seq(Messages), IsInjective(s)
  PROVE  Len(s) <= MaxMessages
<1>1. /\ Len(s) \in Nat /\ IsFiniteSet(1 .. Len(s)) /\ Cardinality(1 .. Len(s)) = Len(s)
      /\ IsFiniteSet(Messages) /\ Cardinality(Messages) = MaxMessages
  <2>1. Len(s) \in Nat
    BY LenProperties
  <2>2. IsFiniteSet(1 .. Len(s)) /\ Cardinality(1 .. Len(s)) = Len(s)
    BY <2>1, FS_Interval
  <2>3. IsFiniteSet(Messages) /\ Cardinality(Messages) = MaxMessages
    BY FS_Interval, MaxMessagesAssumption DEF Messages
  <2>4. QED
    BY <2>1, <2>2, <2>3
<1>2. s \in Injection(1 .. Len(s), Messages)
  BY DEF Injection, IsInjective
<1>3. Cardinality(1 .. Len(s)) <= Cardinality(Messages)
  BY <1>1, <1>2, FS_Injection
<1>4. QED
  BY <1>1, <1>3

LEMMA RemembersAll ==
  ASSUME MaxMessages <= MaxAccepted, QInv, NEW m \in Messages, Remember(m)
  PROVE  ToSet(accepted') = ToSet(accepted) \cup {m}
<1>1. /\ Touched(m) \in Seq(Messages) /\ IsInjective(Touched(m))
      /\ ToSet(Touched(m)) = ToSet(accepted) \cup {m}
  BY TouchedIs DEF QInv
<1>2. Len(Touched(m)) <= MaxMessages /\ Len(Touched(m)) \in Nat
  BY <1>1, InjectiveIsShort, LenProperties
<1>3. ~(Len(Touched(m)) > MaxAccepted)
  BY <1>2, MaxMessagesAssumption, MaxAcceptedAssumption
<1>4. QED
  BY <1>1, <1>3 DEF Remember

LEMMA RemovesKeepOnce ==
  ASSUME QInv, OnceInv, Removes
  PROVE  OnceInv'
<1>1. served' = served /\ rested \in Nat /\ Len(served) \in Nat
  BY LenProperties DEF Removes, QInv, QueueTyped
<1>2. DOMAIN inputs' \subseteq DOMAIN inputs /\ \A n \in DOMAIN inputs' : inputs'[n] = inputs[n]
  BY DEF Removes, Shrinks
<1>3. CASE ToSet(accepted') = ToSet(accepted) /\ rested' = rested
  BY <1>1, <1>2, <1>3 DEF OnceInv, AtMostOnce, Remembered, QueuedOnce, Recent
<1>4. CASE DOMAIN inputs' = {} /\ rested' = Len(served')
  <2>1. Recent' = {}
    BY <1>1, <1>4 DEF Recent
  <2>2. QED
    BY <1>4, <2>1 DEF OnceInv, AtMostOnce, Remembered, QueuedOnce, Recent
<1>5. QED
  BY <1>3, <1>4 DEF Removes, RemembersOrRests

LEMMA AddsKeepOnce ==
  ASSUME MaxMessages <= MaxAccepted, QInv, OnceInv, Adds
  PROVE  OnceInv'
<1>1. PICK m \in Messages, id \in Nat : ~IsAccepted(m) /\ Remember(m) /\ AddsAs(m, id)
  BY DEF Adds
<1>2. served' = served /\ rested' = rested
  BY DEF Adds
<1>3. ToSet(accepted') = ToSet(accepted) \cup {m} /\ m \notin ToSet(accepted)
  BY <1>1, RemembersAll DEF IsAccepted
<1>4. /\ \A n \in DOMAIN inputs' : n = id \/ (n \in DOMAIN inputs /\ inputs'[n] = inputs[n])
      /\ inputs'[id].msg = m
  BY <1>1 DEF AddsAs
<1>5. Recent' = Recent /\ AtMostOnce'
  BY <1>2 DEF Recent, OnceInv, AtMostOnce
<1>6. Remembered'
  BY <1>2, <1>3, <1>4, <1>5 DEF OnceInv, Remembered
<1>7. QueuedOnce'
  <2>1. ASSUME NEW j \in Recent, NEW n \in DOMAIN inputs' PROVE served[j] # inputs'[n].msg
    BY <1>3, <1>4 DEF OnceInv, Remembered, QueuedOnce
  <2>2. ASSUME NEW n \in DOMAIN inputs', NEW p \in DOMAIN inputs', inputs'[n].msg = inputs'[p].msg
        PROVE  n = p
    BY <1>3, <1>4, <2>2 DEF OnceInv, Remembered, QueuedOnce
  <2>3. QED
    BY <1>2, <1>5, <2>1, <2>2 DEF QueuedOnce
<1>8. QED
  BY <1>5, <1>6, <1>7 DEF OnceInv

LEMMA StartsKeepOnce ==
  ASSUME MaxMessages <= MaxAccepted, QInv, OnceInv, Starts
  PROVE  OnceInv'
<1>1. PICK m \in Messages : ~IsAccepted(m) /\ Remember(m) /\ served' = Append(served, m)
  BY DEF Starts
<1>2. ToSet(accepted') = ToSet(accepted) \cup {m} /\ m \notin ToSet(accepted)
  BY <1>1, RemembersAll DEF IsAccepted
<1>3. DOMAIN inputs' = {} /\ rested' = rested
  BY DEF Starts, queue, QInv, QueueTyped, MessageIds
<1>4. served \in Seq(Messages) /\ rested \in Nat
  BY DEF QInv, QueueTyped
<1>5. /\ Len(served') = Len(served) + 1 /\ Len(served) \in Nat
      /\ \A j \in 1 .. Len(served) : served'[j] = served[j]
      /\ served'[Len(served) + 1] = m
  BY <1>1, <1>4, AppendProperties, LenProperties
<1>6. ASSUME NEW j \in Recent'
      PROVE  \/ j \in Recent /\ served'[j] = served[j]
             \/ j = Len(served) + 1 /\ served'[j] = m
  BY <1>3, <1>4, <1>5 DEF Recent
<1>7. \A j \in Recent : served[j] \in ToSet(accepted) /\ served[j] # m
  BY <1>2 DEF OnceInv, Remembered
<1>8. ASSUME NEW j \in Recent', NEW k \in Recent', served'[j] = served'[k] PROVE j = k
  BY <1>6, <1>7, <1>8 DEF OnceInv, AtMostOnce, Recent
<1>9. AtMostOnce'
  BY <1>8 DEF AtMostOnce, Recent
<1>10. Remembered' /\ QueuedOnce'
  BY <1>2, <1>3, <1>6, <1>7 DEF Remembered, QueuedOnce
<1>11. QED
  BY <1>9, <1>10 DEF OnceInv

LEMMA TakesKeepOnce ==
  ASSUME QInv, OnceInv, Takes(Outcomes)
  PROVE  OnceInv'
<1>1. PICK items \in SteeringBatches, live \in BOOLEAN : Take(items, live)
  BY DEF Takes, Outcomes
<1>2. accepted' = accepted /\ rested' = rested /\ rested \in Nat
  BY <1>1 DEF Take, QInv, QueueTyped
<1>3. /\ DOMAIN inputs' = MessageIds(store \ items) /\ DOMAIN inputs' \subseteq DOMAIN inputs
      /\ \A n \in DOMAIN inputs' : inputs'[n] = inputs[n]
  BY <1>1, TakeShrinks DEF Shrinks
<1>4. CASE ~live
  <2>1. served' = served /\ Recent' = Recent
    BY <1>1, <1>2, <1>4 DEF Take, Recent
  <2>2. AtMostOnce' /\ Remembered'
    BY <1>2, <1>3, <2>1 DEF OnceInv, AtMostOnce, Remembered, Recent
  <2>3. QueuedOnce'
    BY <1>3, <2>1 DEF OnceInv, QueuedOnce
  <2>4. QED
    BY <2>2, <2>3 DEF OnceInv
<1>5. CASE live
  <2> DEFINE ids == MessageIds(items)
             at(j) == Nth(ids, j - Len(served))
  <2>1. Take(items, TRUE)
    BY <1>1, <1>5
  <2>2. Len(served) \in Nat /\ Len(served') \in Nat /\ ids \subseteq DOMAIN inputs
    BY <2>1, LiveBatch
  <2>3. \A j, k \in 1 .. Cardinality(ids) : j < k => Nth(ids, j) < Nth(ids, k)
    BY <2>1, LiveBatch
  <2>4. \A j \in 1 .. Len(served') :
          \/ j \in 1 .. Len(served) /\ served'[j] = served[j]
          \/ j - Len(served) \in 1 .. Cardinality(ids) /\ served'[j] = inputs[at(j)].msg /\ at(j) \in ids
    BY <2>1, LiveBatch
  <2>5. ids \cap DOMAIN inputs' = {}
    <3>1. nextId \in Nat /\ Queued(store, nextId) /\ items \subseteq store
      BY BatchIn DEF QInv, QueueTyped, Listed
    <3>2. \A i, j \in store : i.id = j.id => i = j
      BY <3>1 DEF Queued
    <3>3. QED
      BY <1>3, <3>1, <3>2 DEF MessageIds
  <2>6. ids \subseteq Nat
    <3>1. \A i \in store : i.id \in Nat
      BY DEF QInv, QueueTyped, Listed, Queued
    <3>2. QED
      BY <3>1, BatchIn DEF MessageIds
  <2> HIDE DEF ids
  <2>7. ASSUME NEW j \in Recent'
        PROVE  \/ j \in Recent /\ served'[j] = served[j]
               \/ /\ j \in Nat /\ j - Len(served) \in 1 .. Cardinality(ids)
                  /\ served'[j] = inputs[at(j)].msg /\ at(j) \in ids
    <3>1. j \in 1 .. Len(served') /\ j >= rested + 1
      BY <1>2, <2>2 DEF Recent
    <3>2. CASE j \in 1 .. Len(served) /\ served'[j] = served[j]
      <4>1. j \in Recent
        BY <1>2, <2>2, <3>1, <3>2 DEF Recent
      <4>2. QED
        BY <3>2, <4>1
    <3>3. QED
      BY <2>4, <3>1, <3>2
  <2>8. ASSUME NEW j \in Recent', NEW k \in Recent', served'[j] = served'[k] PROVE j = k
    <3>1. CASE j \in Recent /\ k \in Recent /\ served'[j] = served[j] /\ served'[k] = served[k]
      BY <2>8, <3>1 DEF OnceInv, AtMostOnce, Recent
    <3>2. ASSUME NEW x \in Recent, NEW y \in Nat, at(y) \in ids, served[x] = inputs[at(y)].msg
          PROVE  FALSE
      BY <2>2, <3>2 DEF OnceInv, QueuedOnce
    <3>3. CASE /\ j \in Nat /\ j - Len(served) \in 1 .. Cardinality(ids) /\ at(j) \in ids
               /\ k \in Nat /\ k - Len(served) \in 1 .. Cardinality(ids) /\ at(k) \in ids
               /\ inputs[at(j)].msg = inputs[at(k)].msg
      <4>1. at(j) = at(k)
        BY <2>2, <3>3 DEF OnceInv, QueuedOnce
      <4>2. at(j) \in Nat
        BY <2>6, <3>3
      <4>3. ~(j - Len(served) < k - Len(served)) /\ ~(k - Len(served) < j - Len(served))
        BY <2>3, <3>3, <4>1, <4>2
      <4>4. QED
        BY <2>2, <3>3, <4>3
    <3>4. QED
      BY <2>7, <2>8, <3>1, <3>2, <3>3
  <2>9. AtMostOnce'
    BY <2>8 DEF AtMostOnce, Recent
  <2>10. Remembered'
    BY <1>2, <1>3, <2>2, <2>7 DEF OnceInv, Remembered
  <2>11. ASSUME NEW j \in Recent', NEW n \in DOMAIN inputs' PROVE served'[j] # inputs'[n].msg
    <3>1. n \in DOMAIN inputs /\ inputs'[n] = inputs[n] /\ n \notin ids
      BY <1>3, <2>5
    <3>2. CASE j \in Recent /\ served'[j] = served[j]
      BY <3>1, <3>2 DEF OnceInv, QueuedOnce
    <3>3. CASE served'[j] = inputs[at(j)].msg /\ at(j) \in ids
      BY <2>2, <3>1, <3>3 DEF OnceInv, QueuedOnce
    <3>4. QED
      BY <2>7, <3>2, <3>3
  <2>12. QueuedOnce'
    BY <1>3, <2>11 DEF OnceInv, QueuedOnce
  <2>13. QED
    BY <2>9, <2>10, <2>12 DEF OnceInv
<1>6. QED
  BY <1>4, <1>5

\* While a conversation has work, and the clients have sent no more messages
\* than the listener remembers, none is given to two turns, however often it is
\* retried.  Once the conversation is at rest its object is evicted, and with it
\* the ids that would recognise a retry.  (getAcceptedInputDisposition,
\* MAX_ACCEPTED_INPUT_DISPOSITIONS, evictConversationRuntimeIfIdle)
THEOREM ServedAtMostOnce ==
  MaxMessages <= MaxAccepted => (Spec => []AtMostOnce)
<1> SUFFICES ASSUME MaxMessages <= MaxAccepted PROVE Spec => []AtMostOnce
  OBVIOUS
<1>1. Init => OnceInv
  <2> SUFFICES ASSUME Init PROVE OnceInv
    OBVIOUS
  <2>1. inputs = <<>> /\ served = <<>> /\ rested = 0
    BY DEF Init
  <2>2. QED
    BY <2>1 DEF OnceInv, AtMostOnce, Remembered, QueuedOnce, Recent
<1>2. TInv /\ OnceInv /\ [Next]_vars => OnceInv'
  <2> SUFFICES ASSUME TInv, OnceInv, [Next]_vars PROVE OnceInv'
    OBVIOUS
  <2>1. QInv /\ QueueStep(Outcomes)
    BY StepOnQueue DEF TInv, PumpInv
  <2>2. QED
    BY <2>1, BooksStep, RemovesKeepOnce, AddsKeepOnce, TakesKeepOnce, StartsKeepOnce
<1>3. OnceInv => AtMostOnce
  BY DEF OnceInv
<1>4. QED
  BY <1>1, <1>2, <1>3, TypesHold, PTL DEF Spec

-----------------------------------------------------------------------------
(* Nothing is lost *)

\* What was accepted is somewhere.
Kept ==
  \A a \in 1 .. Len(acked) :
    \/ \E j \in 1 .. Len(served) : served[j] = acked[a]
    \/ acked[a] \in cancelled
    \/ \E n \in DOMAIN inputs : inputs[n].msg = acked[a]

LEMMA StepKeepsNoRecovery ==
  ASSUME Syncs = {}, TInv, NoRecovery, [Next]_vars
  PROVE  NoRecovery'
<1>1. ASSUME phase' = phase PROVE NoRecovery'
  BY <1>1 DEF NoRecovery
<1>2. ASSUME NEW l \in Leases, NEW to, to # "recover", phase' = [phase EXCEPT ![l] = to]
      PROVE  NoRecovery'
  BY <1>2 DEF NoRecovery, TInv, IInv, OwnersRun
<1>3. CASE DispatchRuns \/ PumpTakes \/ PumpStops
  <2>1. \/ phase' = phase
        \/ \E l \in Leases : \E c : BeginTurn(l, "SENDING_API_REQUEST", "setup", c)
    BY <1>3 DEF DispatchRuns, PumpTakes, PumpStops, owners
  <2>2. \/ phase' = phase
        \/ \E l \in Leases : phase' = [phase EXCEPT ![l] = "setup"]
    BY <2>1 DEF BeginTurn
  <2>3. QED
    BY <1>1, <1>2, <2>2
<1>4. ASSUME NEW l \in Leases, OwnerStep(l) PROVE NoRecovery'
  <2>1. \E to \in Phases \ {"recover"} : phase' = [phase EXCEPT ![l] = to]
    BY <1>4 DEF OwnerStep, TurnSetup, TurnSent, StaleApprovals, TurnRetries, TurnToolCalls, TurnAsks,
         TurnExecutes, TurnContinues, TurnCompletes, TurnEnds, TurnReturns, RecoveryContinues,
         Proceed, Phases
  <2>2. QED
    BY <1>2, <2>1
<1>5. ASSUME NEW l \in Leases, ApprovalResponse(l) \/ Settlement(l) PROVE NoRecovery'
  BY <1>1, <1>2, <1>5 DEF ApprovalResponse, Settlement, owners
<1>6. ASSUME NEW c \in Conns, ConnStep(c) PROVE NoRecovery'
  BY <1>1, <1>6 DEF ConnStep, Connects, RuntimeStarted, Reconnects, Pumps, Suspends, Closes,
       SendMessage, owners
<1>7. CASE \/ \E i \in store : RemoveQueueItem(i)
           \/ Notify \/ AbortMessage \/ CommandStarts \/ CommandEnds \/ ResumeQueue \/ Stop
           \/ UNCHANGED vars
  BY <1>1, <1>7 DEF RemoveQueueItem, Notify, AbortMessage, CommandStarts, CommandEnds,
       ResumeQueue, Stop, owners, vars
<1>8. QED
  BY <1>3, <1>4, <1>5, <1>6, <1>7 DEF Next

\* The messages of a batch are all given to its turn.
LEMMA LiveTakeKeeps ==
  ASSUME QInv, Kept, NEW items \in SteeringBatches, Take(items, TRUE)
  PROVE  Kept'
<1> DEFINE ids == MessageIds(items)
           batch == BatchMessages(items)
<1>2. Shrinks /\ acked' = acked /\ DOMAIN inputs' = MessageIds(store \ items)
  BY TakeShrinks
<1>3. served' = served \o batch /\ cancelled' = cancelled
  BY DEF Take
<1>4. nextId \in Nat /\ Queued(store, nextId) /\ DOMAIN inputs = MessageIds(store)
      /\ served \in Seq(Messages) /\ Len(served) \in Nat
  BY LenProperties DEF QInv, QueueTyped, Listed
<1>5. items \subseteq store
  BY BatchIn
<1>6. ids \subseteq Nat /\ IsFiniteSet(ids) /\ Cardinality(ids) \in Nat
  <2>1. ids \subseteq MessageIds(store)
    BY <1>5 DEF MessageIds
  <2>2. QED
    BY <1>4, <2>1, MessageIdsIn, Finite
<1>7. DOMAIN inputs \subseteq ids \cup DOMAIN inputs'
  BY <1>2, <1>4 DEF MessageIds
<1>8. /\ batch \in Seq(Messages) /\ Len(batch) = Cardinality(ids)
      /\ \A k \in 1 .. Cardinality(ids) : batch[k] = inputs[Nth(ids, k)].msg
  BY <1>5, BatchMessagesTyped
<1>9. \A n \in ids : \E k \in 1 .. Cardinality(ids) : Nth(ids, k) = n
  BY <1>6, NthOnto
<1> HIDE DEF ids, batch
<1>10. /\ Len(served \o batch) = Len(served) + Len(batch)
       /\ \A j \in 1 .. Len(served) + Len(batch) :
            (served \o batch)[j] = IF j <= Len(served) THEN served[j] ELSE batch[j - Len(served)]
  BY <1>4, <1>8, ConcatProperties
<1>11. ASSUME NEW j \in 1 .. Len(served) PROVE j \in 1 .. Len(served') /\ served'[j] = served[j]
  BY <1>3, <1>4, <1>6, <1>8, <1>10
<1>12. ASSUME NEW n \in ids PROVE \E j \in 1 .. Len(served') : served'[j] = inputs[n].msg
  <2>1. PICK k \in 1 .. Cardinality(ids) : Nth(ids, k) = n
    BY <1>9
  <2>2. batch[k] = inputs[n].msg
    BY <1>8, <2>1
  <2>3. /\ Len(served) + k \in 1 .. Len(served) + Len(batch)
        /\ ~(Len(served) + k <= Len(served)) /\ (Len(served) + k) - Len(served) = k
    BY <1>4, <1>6, <1>8
  <2>4. served'[Len(served) + k] = batch[k] /\ Len(served) + k \in 1 .. Len(served')
    BY <1>3, <1>10, <2>3
  <2>5. QED
    BY <2>2, <2>4
<1>13. \A n \in DOMAIN inputs' : inputs'[n] = inputs[n]
  BY <1>2 DEF Shrinks
<1>14. Kept'
  <2> SUFFICES ASSUME NEW a \in 1 .. Len(acked)
               PROVE  \/ \E j \in 1 .. Len(served') : served'[j] = acked[a]
                      \/ acked[a] \in cancelled
                      \/ \E n \in DOMAIN inputs' : inputs'[n].msg = acked[a]
    BY <1>2, <1>3 DEF Kept
  <2>1. CASE \E j \in 1 .. Len(served) : served[j] = acked[a]
    BY <1>11, <2>1
  <2>2. CASE \E n \in DOMAIN inputs : inputs[n].msg = acked[a]
    BY <1>7, <1>12, <1>13, <2>2
  <2>3. QED
    BY <2>1, <2>2 DEF Kept
<1>15. QED
  BY <1>14

\* A batch of a turn that is over loses its items, if it has any.
LEMMA DeadTakeKeeps ==
  ASSUME QInv, Kept, NEW items \in SteeringBatches, Take(items, FALSE), lost' = {}
  PROVE  Kept'
<1>1. served' = served /\ lost' = lost \cup {i.source : i \in items} /\ cancelled' = cancelled
  BY DEF Take
<1>2. items = {}
  BY <1>1
<1>3. MessageIds(store \ items) = DOMAIN inputs
  BY <1>2 DEF QInv, QueueTyped, MessageIds
<1>4. acked' = acked /\ DOMAIN inputs' = DOMAIN inputs /\ \A n \in DOMAIN inputs' : inputs'[n] = inputs[n]
  BY <1>3, TakeShrinks DEF Shrinks
<1>5. QED
  BY <1>1, <1>4 DEF Kept

LEMMA TakesKeep ==
  ASSUME QInv, Kept, Takes(Outcomes), lost' = {}
  PROVE  Kept'
<1>1. PICK items \in SteeringBatches, live \in BOOLEAN : Take(items, live)
  BY DEF Takes, Outcomes
<1>2. CASE live
  <2>1. live = TRUE
    BY <1>2
  <2>2. QED
    BY <1>1, <2>1, LiveTakeKeeps
<1>3. CASE ~live
  <2>1. live = FALSE
    BY <1>3
  <2>2. QED
    BY <1>1, <2>1, DeadTakeKeeps
<1>4. QED
  BY <1>2, <1>3

\* What is lost stays lost.
LEMMA LostGrows ==
  ASSUME QInv, QueueStep(Outcomes)
  PROVE  lost \subseteq lost'
<1>1. CASE Takes(Outcomes)
  BY <1>1 DEF Takes, Take
<1>2. QED
  BY <1>1, BooksStep DEF Removes, Adds, Starts

LEMMA StepKeeps ==
  ASSUME QInv, Kept, QueueStep(Outcomes), lost' = {}
  PROVE  Kept'
<1>1. CASE Removes
  <2>1. acked' = acked /\ served' = served /\ lost' = lost /\ cancelled \subseteq cancelled'
    BY <1>1 DEF Removes
  <2>2. \A n \in DOMAIN inputs : inputs[n].msg \in cancelled'
                                 \/ (n \in DOMAIN inputs' /\ inputs'[n] = inputs[n])
    BY <1>1 DEF Removes, Shrinks, Announces
  <2>3. QED
    BY <2>1, <2>2 DEF Kept
<1>2. CASE Adds
  <2>1. PICK m \in Messages, id \in Nat : Remember(m) /\ AddsAs(m, id)
    BY <1>2 DEF Adds
  <2>2. served' = served /\ lost' = lost /\ cancelled \subseteq cancelled' /\ Announces
    BY <1>2 DEF Adds
  <2>3. \A n \in DOMAIN inputs : inputs[n].msg \in cancelled'
                                 \/ (n \in DOMAIN inputs' /\ inputs'[n] = inputs[n])
    <3>1. \A n \in DOMAIN inputs : n # id /\ n \in Nat
      BY <2>1, MessageIdsIn DEF AddsAs, QInv, QueueTyped, Listed
    <3>2. QED
      BY <2>1, <2>2, <3>1 DEF Announces, AddsAs
  <2>4. id \in DOMAIN inputs' /\ inputs'[id].msg = m
    BY <2>1 DEF AddsAs
  <2>5. acked \in Seq(Messages) /\ acked' = Append(acked, m)
    BY <2>1 DEF QInv, QueueTyped, Remember
  <2>6. \A a \in 1 .. Len(acked') : acked'[a] = m \/ (a \in 1 .. Len(acked) /\ acked'[a] = acked[a])
    BY <2>5, AppendProperties, LenProperties
  <2>7. QED
    BY <2>2, <2>3, <2>4, <2>6 DEF Kept
<1>3. CASE Takes(Outcomes)
  BY <1>3, TakesKeep
<1>4. CASE Starts
  <2>1. PICK m \in Messages : Remember(m) /\ served' = Append(served, m)
    BY <1>4 DEF Starts
  <2>2. acked \in Seq(Messages) /\ acked' = Append(acked, m) /\ served \in Seq(Messages)
    BY <2>1 DEF QInv, QueueTyped, Remember
  <2>3. \A a \in 1 .. Len(acked') : acked'[a] = m \/ (a \in 1 .. Len(acked) /\ acked'[a] = acked[a])
    BY <2>2, AppendProperties, LenProperties
  <2>4. /\ \A j \in 1 .. Len(served) : j \in 1 .. Len(served') /\ served'[j] = served[j]
        /\ \E j \in 1 .. Len(served') : served'[j] = m
    BY <2>1, <2>2, AppendProperties, LenProperties
  <2>5. UNCHANGED <<inputs, cancelled, lost>>
    BY <1>4 DEF Starts, queue
  <2>6. QED
    BY <2>3, <2>4, <2>5 DEF Kept
<1>5. QED
  BY <1>1, <1>2, <1>3, <1>4, BooksStep

\* A message the listener acknowledged has reached a turn, waits in the queue,
\* or was announced as cancelled, as long as no batch was taken for a turn that
\* is over: nothing else in the conversation loses one.
\* (enqueueInboundUserMessage, onDropped, onRemoved, onCleared)
THEOREM OnlyDeadTurnsLose == Spec => [](NothingLost => AcceptedIsKept)
<1>1. Init => Kept
  BY DEF Init, Kept
<1>2. TInv /\ (NothingLost => Kept) /\ [Next]_vars => (NothingLost => Kept)'
  BY StepOnQueue, StepKeeps, LostGrows DEF TInv, PumpInv, NothingLost
<1>3. TInv /\ Kept => AcceptedIsKept
  <2> SUFFICES ASSUME TInv, Kept, NEW m \in ToSet(acked)
               PROVE  m \in ToSet(served) \cup cancelled \cup {inputs[id].msg : id \in DOMAIN inputs}
    BY DEF AcceptedIsKept
  <2>1. DOMAIN served = 1 .. Len(served) /\ DOMAIN acked = 1 .. Len(acked)
    BY DEF TInv, QInv, QueueTyped
  <2>2. PICK a \in 1 .. Len(acked) : acked[a] = m
    BY <2>1 DEF ToSet
  <2>3. QED
    BY <2>1, <2>2 DEF Kept, ToSet
<1>4. QED
  BY <1>1, <1>2, <1>3, TypesHold, PTL DEF Spec

\* A remote listener without recoveries takes nothing from its queue for no
\* turn: its one connection may be suspended, but is never gone.
\* (runQueueItem, consumeQueuedTurn)
THEOREM NothingGetsLost == RemoteConns = Conns /\ Syncs = {} => (Spec => []NothingLost)
<1> SUFFICES ASSUME NoneGone PROVE Spec => []NothingLost
  BY DEF NoneGone
<1>1. Init => NoRecovery /\ NothingLost
  BY DEF Init, NoRecovery, NothingLost
<1>2. ASSUME NoRecovery, QInv, QueueStep(Outcomes) PROVE lost' = lost
  <2>1. CASE Takes(Outcomes)
    BY <1>2, <2>1 DEF Outcomes, Takes, Take
  <2>2. QED
    BY <1>2, <2>1, BooksStep DEF Removes, Adds, Starts
<1>3. TInv /\ NoRecovery /\ NothingLost /\ [Next]_vars => NoRecovery' /\ NothingLost'
  BY <1>2, StepKeepsNoRecovery, StepOnQueue DEF TInv, PumpInv, NothingLost, NoneGone
<1>4. QED
  BY <1>1, <1>3, TypesHold, PTL DEF Spec

\* So it keeps every message it acknowledged.
THEOREM AcceptedStaysKept == RemoteConns = Conns /\ Syncs = {} => (Spec => []AcceptedIsKept)
BY OnlyDeadTurnsLose, NothingGetsLost, PTL
============================================================================
