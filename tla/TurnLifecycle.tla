--------------------------- MODULE TurnLifecycle ---------------------------
(***************************************************************************)
(* The methods of the class TurnLifecycle as operators from one turn state *)
(* to the next.  A conversation is idle, runs a command, runs a turn, or   *)
(* is cancelling one.  A turn is owned through a lease: a unique id and an *)
(* abort signal.  The callers, and the order in which their calls          *)
(* interleave, are the subject of TurnOwners and ListenerConversation.     *)
(***************************************************************************)

CONSTANTS
  Leases,   \* the ids createId() may hand out, one per turn
  NoLease   \* "no turn": the lease and the run id of a state that has none

ASSUME NoLeaseAssumption == NoLease \notin Leases

TurnKinds == {"idle", "command", "active", "cancelling"}

ActiveTurnLoopStatus ==
  {"SENDING_API_REQUEST", "WAITING_FOR_API_RESPONSE", "RETRYING_API_REQUEST",
   "PROCESSING_API_RESPONSE", "WAITING_ON_APPROVAL", "EXECUTING_CLIENT_SIDE_TOOL"}

LoopStatus == ActiveTurnLoopStatus \cup {"WAITING_ON_INPUT", "EXECUTING_COMMAND"}

StopReasons == {"none", "end_turn", "cancelled", "error", "requires_approval"}

\* A turn streams one run at a time; its run id is named after its lease.
\* executing says whether executingToolCallIds is non-empty.
TurnState ==
  [kind : TurnKinds,
   lease : Leases \cup {NoLease},
   loopStatus : LoopStatus,
   runId : Leases \cup {NoLease},
   executing : BOOLEAN,
   ownerFinished : BOOLEAN,
   externalSettlementPending : BOOLEAN]

IdleState ==
  [kind |-> "idle", lease |-> NoLease, loopStatus |-> "WAITING_ON_INPUT",
   runId |-> NoLease, executing |-> FALSE,
   ownerFinished |-> FALSE, externalSettlementPending |-> FALSE]

CommandState ==
  [IdleState EXCEPT !.kind = "command", !.loopStatus = "EXECUTING_COMMAND"]

ActiveState(lease, status) ==
  [IdleState EXCEPT !.kind = "active", !.lease = lease, !.loopStatus = status]

-----------------------------------------------------------------------------
\* begin() throws unless CanBegin; isCurrent() is what every owner asks.
CanBegin(turn) == turn.kind \notin {"active", "cancelling"}

FaultyIsCurrent(turn, lease) ==  \* forgets that the owner has finished
  turn.kind \in {"active", "cancelling"} /\ turn.lease = lease

IsCurrent(turn, lease) ==
  /\ turn.kind \in {"active", "cancelling"}
  /\ ~(turn.kind = "cancelling" /\ turn.ownerFinished)
  /\ turn.lease = lease

\* setStatus, setRunId, setExecutingToolCallIds and recordStopReason all
\* ignore an owner that is stale or whose turn is being cancelled.
MayUpdate(turn, lease) == turn.kind = "active" /\ IsCurrent(turn, lease)

WithStatus(turn, lease, status) ==
  IF MayUpdate(turn, lease) THEN [turn EXCEPT !.loopStatus = status] ELSE turn

WithRunId(turn, lease, runId) ==
  IF MayUpdate(turn, lease) THEN [turn EXCEPT !.runId = runId] ELSE turn

WithExecuting(turn, lease, executing) ==
  IF MayUpdate(turn, lease) THEN [turn EXCEPT !.executing = executing] ELSE turn

StartedCommand(turn) == IF turn.kind = "idle" THEN CommandState ELSE turn

FinishedCommand(turn) == IF turn.kind = "command" THEN IdleState ELSE turn

FaultyCancelRequested(turn, waitForExternalSettlement) ==  \* does not wait
  IF turn.kind = "active"
  THEN [turn EXCEPT !.kind = "cancelling", !.loopStatus = "WAITING_ON_INPUT"]
  ELSE turn

FaultyCancelStatus(turn, waitForExternalSettlement) ==  \* unknown loop status
  IF turn.kind = "active"
  THEN [turn EXCEPT !.kind = "cancelling", !.loopStatus = "CANCELLING",
                    !.externalSettlementPending = waitForExternalSettlement]
  ELSE turn

\* requestCancellation(): only an active turn moves; a second request while
\* cancelling leaves the state alone.
CancelRequested(turn, waitForExternalSettlement) ==
  IF turn.kind = "active"
  THEN [turn EXCEPT !.kind = "cancelling",
                    !.loopStatus = "WAITING_ON_INPUT",
                    !.ownerFinished = FALSE,
                    !.externalSettlementPending = waitForExternalSettlement]
  ELSE turn

FaultyFinished(turn, lease) ==  \* finishes whatever turn there is
  IF turn.kind = "cancelling" /\ turn.externalSettlementPending
  THEN [turn EXCEPT !.ownerFinished = TRUE]
  ELSE IdleState

\* finish(): the owner is done.  A cancelled turn whose backend cancellation
\* is still out stays in cancelling until settleCancellation().
FinishTakes(turn, lease) == IsCurrent(turn, lease)

Finished(turn, lease) ==
  IF ~FinishTakes(turn, lease) THEN turn
  ELSE IF turn.kind = "cancelling" /\ turn.externalSettlementPending
       THEN [turn EXCEPT !.ownerFinished = TRUE]
       ELSE IdleState

FaultySettled(turn, lease) ==  \* forgets an owner that has already finished
  [turn EXCEPT !.externalSettlementPending = FALSE]

\* settleCancellation(): the backend answered (or failed).
SettleTakes(turn, lease) ==
  /\ turn.kind = "cancelling"
  /\ turn.lease = lease
  /\ turn.externalSettlementPending

FaultyReleases(turn, lease) ==  \* confuses who comes last
  SettleTakes(turn, lease) /\ ~turn.ownerFinished

SettleReleases(turn, lease) == SettleTakes(turn, lease) /\ turn.ownerFinished

Settled(turn, lease) ==
  IF ~SettleTakes(turn, lease) THEN turn
  ELSE IF turn.ownerFinished THEN IdleState
       ELSE [turn EXCEPT !.externalSettlementPending = FALSE]

\* The lease whose abort signal reset() or requestCancellation() fires.
LiveLease(turn) ==
  IF turn.kind \in {"active", "cancelling"} THEN {turn.lease} ELSE {}
=============================================================================
