----------------------------- MODULE TurnOwners -----------------------------
(***************************************************************************)
(* The turn lifecycle of one conversation together with everybody who      *)
(* calls it.  An owner is an asynchronous function that began a turn and   *)
(* holds its lease; it awaits between its calls, so it may call with a     *)
(* lease that was cancelled, settled or discarded meanwhile.  Cancelling   *)
(* callers (the abort command, a closing connection), the backend's answer *)
(* to a cancellation, device commands and a listener stop come at any      *)
(* time.  This is also the abstract specification that                     *)
(* ListenerConversation implements.                                        *)
(***************************************************************************)
EXTENDS TurnLifecycle, Naturals

VARIABLES
  turn,        \* the lifecycle's #state
  stopReason,  \* the lifecycle's #lastStopReason
  used,        \* leases begun so far
  running,     \* leases whose owner has not returned yet
  aborted,     \* leases whose abort signal has fired
  cancels,     \* leases whose backend cancellation is still out
  discarded,   \* leases whose turn was dropped by reset()
  terminals    \* how often finish() reported "finished" for a lease

vars == <<turn, stopReason, used, running, aborted, cancels, discarded, terminals>>

TypeOK ==
  /\ turn \in TurnState
  /\ stopReason \in StopReasons
  /\ used \subseteq Leases
  /\ running \subseteq used
  /\ aborted \subseteq used
  /\ cancels \subseteq used
  /\ discarded \subseteq used
  /\ terminals \in [Leases -> Nat]

Init ==
  /\ turn = IdleState
  /\ stopReason = "none"
  /\ used = {}
  /\ running = {}
  /\ aborted = {}
  /\ cancels = {}
  /\ discarded = {}
  /\ terminals = [l \in Leases |-> 0]

-----------------------------------------------------------------------------
Begin(l) ==
  /\ l \notin used
  /\ CanBegin(turn)
  /\ \E status \in {"SENDING_API_REQUEST", "EXECUTING_CLIENT_SIDE_TOOL"} :
       turn' = ActiveState(l, status)
  /\ stopReason' = "none"
  /\ used' = used \cup {l}
  /\ running' = running \cup {l}
  /\ UNCHANGED <<aborted, cancels, discarded, terminals>>

\* The owner reports progress, with whatever lease it still holds: setStatus,
\* setRunId and setExecutingToolCallIds, any of them without effect.
OwnerUpdate(l) ==
  /\ l \in running
  /\ \E status \in ActiveTurnLoopStatus, runId \in {l, NoLease}, executing \in BOOLEAN :
       turn' = WithExecuting(WithRunId(WithStatus(turn, l, status), l, runId), l, executing)
  /\ stopReason' \in {stopReason} \cup
                    IF MayUpdate(turn, l) THEN StopReasons \ {"none"} ELSE {}
  /\ UNCHANGED <<used, running, aborted, cancels, discarded, terminals>>

\* finishListenerTurn: every exit path of the owner calls it, some twice.
OwnerFinish(l) ==
  /\ l \in running
  /\ turn' = Finished(turn, l)
  /\ IF FinishTakes(turn, l)
     THEN /\ stopReason' \in {"end_turn", "cancelled", "error", "requires_approval"}
          /\ terminals' = [terminals EXCEPT ![l] = @ + 1]
     ELSE UNCHANGED <<stopReason, terminals>>
  /\ UNCHANGED <<used, running, aborted, cancels, discarded>>

\* The owner's finally block finishes a lease that is still current, so an
\* owner never returns while it holds the conversation.
OwnerReturn(l) ==
  /\ l \in running
  /\ ~IsCurrent(turn, l)
  /\ running' = running \ {l}
  /\ UNCHANGED <<turn, stopReason, used, aborted, cancels, discarded, terminals>>

\* abort_message waits for the backend (waits = TRUE); the cleanup of the
\* connection that owned the turn does not.
RequestCancellation(waits) ==
  /\ turn.kind = "active"
  /\ turn' = CancelRequested(turn, waits)
  /\ stopReason' = "cancelled"
  /\ aborted' = aborted \cup LiveLease(turn)
  /\ cancels' = IF waits THEN cancels \cup {turn.lease} ELSE cancels
  /\ UNCHANGED <<used, running, discarded, terminals>>

\* The backend cancellation of l succeeded or failed.
SettleCancellation(l) ==
  /\ l \in cancels
  /\ cancels' = cancels \ {l}
  /\ turn' = Settled(turn, l)
  /\ UNCHANGED <<stopReason, used, running, aborted, discarded, terminals>>

Command ==
  /\ turn' \in {StartedCommand(turn), FinishedCommand(turn)}
  /\ UNCHANGED <<stopReason, used, running, aborted, cancels, discarded, terminals>>

\* reset(): a stopping listener drops the turn whatever its owner is doing.
Reset ==
  /\ turn' = IdleState
  /\ stopReason' = IF LiveLease(turn) = {} THEN stopReason ELSE "cancelled"
  /\ aborted' = aborted \cup LiveLease(turn)
  /\ discarded' = discarded \cup LiveLease(turn)
  /\ UNCHANGED <<used, running, cancels, terminals>>

OwnerStep(l) == OwnerUpdate(l) \/ OwnerFinish(l) \/ OwnerReturn(l)

Next ==
  \/ \E l \in Leases : Begin(l) \/ OwnerStep(l) \/ SettleCancellation(l)
  \/ \E waits \in BOOLEAN : RequestCancellation(waits)
  \/ Command
  \/ Reset

Spec == Init /\ [][Next]_vars

\* An owner whose signal fired unwinds to its finally block, and the backend
\* call in the abort handler settles: its .finally runs on success and error.
Fairness ==
  \A l \in Leases :
    /\ WF_vars(l \in aborted /\ OwnerFinish(l))
    /\ WF_vars(OwnerReturn(l))
    /\ WF_vars(SettleCancellation(l))

FairSpec == Spec /\ Fairness

-----------------------------------------------------------------------------
\* An owner that was neither finished nor told to stop still drives the agent.
Drives(l) == l \in running \ aborted /\ terminals[l] = 0

\* Two owners never drive one conversation at once: whoever was replaced,
\* by a cancellation or by a reset, had its abort signal fired first.
OneLiveOwner == \A l \in Leases : Drives(l) => turn.kind = "active" /\ turn.lease = l

\* While the backend still works on cancelling a turn, the conversation stays
\* with that turn, so the cancellation cannot hit a replacement turn.
SettlementHeld ==
  \A l \in cancels \ discarded :
    turn.kind = "cancelling" /\ turn.lease = l /\ turn.externalSettlementPending

\* The terminal transition of a turn happens once, although owners finish on
\* several paths, and an owner that returned did finish (or was discarded).
OneTerminal ==
  \A l \in Leases :
    /\ terminals[l] <= 1
    /\ l \in used \ running => terminals[l] = 1 \/ l \in discarded

\* A cancelled turn gives the conversation back.
CancellationEnds ==
  \A l \in Leases :
    (turn.kind = "cancelling" /\ turn.lease = l) ~> turn.lease # l
=============================================================================
