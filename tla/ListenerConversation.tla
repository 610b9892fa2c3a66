------------------------ MODULE ListenerConversation ------------------------
(***************************************************************************)
(* One conversation of a listener: its queue, its promise chain            *)
(* messageQueue, its turn lifecycle, the owners of its turns, the clients  *)
(* connected to it, and the recovery a sync may start beside the chain.    *)
(* All of it hangs on a runtime object, which is evicted when nothing uses *)
(* it; the next input makes a new one.                                     *)
(*                                                                         *)
(* Every action is a stretch of code between two awaits.  Tasks of the     *)
(* chain run one after the other and a turn is awaited inside its task;    *)
(* handlers, settlements, owners and syncs interleave freely with them.    *)
(* Each action takes one step of TurnOwners, or leaves its variables       *)
(* alone: TurnOwners is what this module promises about turns.             *)
(***************************************************************************)
EXTENDS TurnLifecycle, QueueItems, Sequences, SequencesExt

CONSTANTS
  MaxMessages, \* bound: client_message_ids, numbered in the order of first sending
  Conns,       \* connection ids
  RemoteConns, \* the one of an outbound listener: suspended and resumed, not closed
  NoConn,      \* no connection: system items, recovered turns
  Syncs,       \* bound: syncs that may recover approvals
  NoSync,      \* recoveredApprovalState = null
  MaxAccepted, \* MAX_ACCEPTED_INPUT_DISPOSITIONS
  MaxSends,    \* bound: create_message inputs, retries included
  MaxNotices,  \* bound: task notifications, cron prompts and mod continuations
  MaxAborts,   \* bound: abort_message inputs
  MaxCommands  \* bound: device and queue commands

ASSUME MaxMessagesAssumption == MaxMessages \in Nat
ASSUME ScopesAssumption == Scopes # {}  \* that of this conversation, at least
ASSUME ConnsAssumption == NoConn \notin Conns /\ (RemoteConns = {} \/ RemoteConns = Conns)
ASSUME RemoteAssumption == \A c, d \in RemoteConns : c = d
ASSUME SyncsAssumption == NoSync \notin Syncs
ASSUME MaxAcceptedAssumption == MaxAccepted \in Nat \ {0}

VARIABLES
  turn, stopReason, used, running, aborted, cancels, discarded, terminals,
  store,          \* queueRuntime
  nextId,         \* its item counter
  inputs,         \* queuedMessagesByItemId
  cancelled,      \* messages removed from the queue and announced as cancelled
  chain,          \* tasks on the promise messageQueue, the head one first
  chainTurn,      \* the turn the head task awaits
  pumpScheduled,  \* queuePumpScheduled
  pumpActive,     \* queuePumpActive
  phase,          \* where each owner awaits
  turnConn,       \* the connection an owner was called with
  approvals,      \* pendingApprovalResolvers, by the turn that asked
  activeConn,     \* activeConnectionId
  connState,      \* connections
  batchIds,       \* pendingApprovalBatchByToolCallId is not empty
  accepted,       \* acceptedInputDispositions, the least recently used one first
  acked,          \* messages accepted, in that order
  served,         \* messages given to turns, in that order
  lost,           \* sources of items taken from the queue for no live turn
  interrupted,    \* pendingInterruptedResults or -Context is set
  recovered,      \* recoveredApprovalState, named after the sync that set it
  syncPhase,      \* where each sync awaits
  commandRunning, \* a tracked device command awaits
  closed,         \* intentionallyClosed
  rested,         \* messages served when the conversation last came to rest
  arrived,        \* messages sent so far
  sends, notices, aborts, commands

lifecycle == <<turn, stopReason, used, running, aborted, cancels, discarded, terminals>>
queue == <<store, nextId, inputs, cancelled>>
pump == <<chain, chainTurn, pumpScheduled, pumpActive>>
owners == <<phase, turnConn, approvals, activeConn>>
books == <<acked, served, lost, arrived>>
ingress == <<accepted, rested, books>>
recovery == <<interrupted, batchIds, recovered, syncPhase>>
bounds == <<sends, notices, aborts, commands>>
vars == <<lifecycle, queue, pump, owners, ingress, recovery,
          connState, commandRunning, closed, bounds>>

Lifecycle == INSTANCE TurnOwners

Messages == 1 .. MaxMessages

Phases == {"none", "recover", "setup", "sending", "stream", "classified",
           "asking", "execute", "completed", "cleanup", "gone"}

Task == [type : {"pump"}] \cup [type : {"dispatch"}, msg : Messages, conn : Conns]
PumpTask == [type |-> "pump"]

Open == {c \in Conns : connState[c] \in {"starting", "open"}}

MessageIds(items) == {i.id : i \in {j \in items : j.kind = "message"}}

TypeOK ==
  /\ Lifecycle!TypeOK
  /\ store \subseteq QueueItem
  /\ \A i \in store : i.id \in 1 .. nextId
  /\ inputs \in [MessageIds(store) -> [msg : Messages, conn : Conns]]
  /\ cancelled \subseteq Messages
  /\ chain \in Seq(Task)
  /\ chainTurn \in running \cup {NoLease}
  /\ chainTurn # NoLease => chain # <<>>
  /\ pumpScheduled \in BOOLEAN /\ pumpActive \in BOOLEAN
  /\ phase \in [Leases -> Phases]
  /\ turnConn \in [Leases -> Conns \cup {NoConn}]
  /\ approvals \subseteq Leases
  /\ activeConn \in Conns \cup {NoConn}
  /\ connState \in [Conns -> {"new", "starting", "open", "suspended", "closed"}]
  /\ accepted \in Seq(Messages) /\ IsInjective(accepted) /\ Len(accepted) <= MaxAccepted
  /\ acked \in Seq(Messages) /\ served \in Seq(Messages)
  /\ lost \subseteq Sources
  /\ arrived \in 0 .. MaxMessages /\ rested \in 0 .. Len(served)
  /\ interrupted \in BOOLEAN /\ batchIds \in BOOLEAN
  /\ recovered \in Syncs \cup {NoSync}
  /\ syncPhase \in [Syncs -> {"none", "reading", "done"} \cup Syncs]
  /\ commandRunning \in BOOLEAN /\ closed \in BOOLEAN

Init ==
  /\ Lifecycle!Init
  /\ store = {} /\ nextId = 0 /\ inputs = <<>> /\ cancelled = {}
  /\ chain = <<>> /\ chainTurn = NoLease
  /\ pumpScheduled = FALSE /\ pumpActive = FALSE
  /\ phase = [l \in Leases |-> "none"]
  /\ turnConn = [l \in Leases |-> NoConn]
  /\ approvals = {} /\ activeConn = NoConn
  /\ connState = [c \in Conns |-> "new"]
  /\ accepted = <<>> /\ acked = <<>>
  /\ served = <<>> /\ lost = {} /\ arrived = 0 /\ rested = 0
  /\ interrupted = FALSE /\ batchIds = FALSE /\ recovered = NoSync
  /\ syncPhase = [s \in Syncs |-> "none"]
  /\ commandRunning = FALSE /\ closed = FALSE
  /\ sends = 0 /\ notices = 0 /\ aborts = 0 /\ commands = 0

-----------------------------------------------------------------------------
(* The queue of this conversation *)

\* The messages known of these items.
InputsOf(items, known) == [id \in MessageIds(items) |-> known[id]]

QueueForgetting(items, known) ==  \* leaves the messages of removed items behind
  store' = items /\ inputs' = known /\ UNCHANGED cancelled

QueueSilent(items, known) ==  \* announces nothing
  store' = items /\ inputs' = InputsOf(items, known) /\ UNCHANGED cancelled

\* The items left in the queue keep their messages; of the others the clients
\* are told that they are cancelled: onDropped, onRemoved and onCleared.
QueueWith(items, known) ==
  /\ store' = items
  /\ inputs' = InputsOf(items, known)
  /\ cancelled' = cancelled \cup {inputs[id].msg : id \in DOMAIN inputs \ MessageIds(items)}

QueueBecomes(items) == QueueWith(items, inputs)

NewItem(kind, source) ==
  [id |-> nextId + 1, kind |-> kind, source |-> source,
   scope |-> CHOOSE s \in Scopes : TRUE, paused |-> FALSE]

EnqueueSystem(kind) ==
  /\ notices < MaxNotices
  /\ notices' = notices + 1
  /\ nextId' = nextId + 1
  /\ QueueBecomes(IF AtCeiling(store) THEN store
                  ELSE Enqueued(store, NewItem(kind, "system")))

\* acceptedInputDispositions is a Map in the order of its last uses.
Touched(m) == Append(RemoveFirst(accepted, m), m)

IsAccepted(m) == m \in ToSet(accepted)

RememberNothing(m) == acked' = Append(acked, m) /\ UNCHANGED accepted

\* rememberAcceptedInputDisposition
Remember(m) ==
  /\ accepted' = IF Len(Touched(m)) > MaxAccepted THEN Tail(Touched(m)) ELSE Touched(m)
  /\ acked' = Append(acked, m)

\* queuedMessagesByItemId.set
WithInput(id, m, c) ==
  [i \in DOMAIN inputs \cup {id} |-> IF i = id THEN [msg |-> m, conn |-> c] ELSE inputs[i]]

EnqueueParked(m, c) ==  \* lets the parked messages wait
  LET item == NewItem("message", "user")
      items == IF AtCeiling(store) THEN store ELSE Enqueued(store, item)
  IN /\ nextId' = nextId + 1
     /\ QueueWith(items, WithInput(item.id, m, c))
     /\ IF AtCeiling(store) THEN UNCHANGED <<accepted, acked>> ELSE Remember(m)

\* enqueueInboundUserMessage: parked messages are released first.
EnqueueUser(m, c) ==
  LET item == NewItem("message", "user")
      items == IF AtCeiling(store) THEN Resumed(store) ELSE Enqueued(Resumed(store), item)
  IN /\ nextId' = nextId + 1
     /\ QueueWith(items, WithInput(item.id, m, c))
     /\ IF AtCeiling(store) THEN UNCHANGED <<accepted, acked>> ELSE Remember(m)

\* scheduleQueuePump after the tasks in base.
Schedule(base) ==
  /\ pumpScheduled' = TRUE
  /\ chain' = IF pumpScheduled THEN base ELSE Append(base, PumpTask)

ScheduleIf(condition) ==
  /\ IF condition THEN Schedule(chain) ELSE UNCHANGED <<chain, pumpScheduled>>
  /\ UNCHANGED <<chainTurn, pumpActive>>

ItemConns(items) == {inputs[id].conn : id \in MessageIds(items)}

NewestBatches ==  \* takes the items from the end of the list
  {items \in {Ready(store) \ FrontItems(Ready(store), n) : n \in 0 .. Cardinality(Ready(store)) - 1} :
     Cardinality(ItemConns(items)) <= 1}

\* consumeQueuedTurn: ready items from the front on, of one connection.  It
\* stops earlier for image modes, preferences and noCoalesce, data that is not
\* modelled: every shorter prefix is possible too.
Batches ==
  {items \in {FrontItems(Ready(store), n) : n \in 1 .. Cardinality(Ready(store))} :
     Cardinality(ItemConns(items)) <= 1}

\* While a turn runs, a message with other preferences than the batch before
\* it starts no batch at all.
SteeringBatches ==
  Batches \cup
  IF Ready(store) = {} \/ Oldest(Ready(store)).kind = "message" THEN {{}} ELSE {}

BatchConn(items) ==
  IF ItemConns(items) = {} THEN NoConn ELSE CHOOSE c \in ItemConns(items) : TRUE

BatchMessages(items) ==
  [k \in 1 .. Cardinality(MessageIds(items)) |-> inputs[Nth(MessageIds(items), k)].msg]

\* The items of a batch leave the queue for a turn, live or not.
Take(items, live) ==
  /\ store' = store \ items
  /\ inputs' = InputsOf(store \ items, inputs)
  /\ UNCHANGED <<nextId, cancelled, accepted, rested, acked, arrived>>
  /\ IF live
     THEN served' = served \o BatchMessages(items) /\ UNCHANGED lost
     ELSE lost' = lost \cup {i.source : i \in items} /\ UNCHANGED served

-----------------------------------------------------------------------------
(* The runtime object *)

\* shouldProcessInboundMessageDirectly
Direct ==
  /\ store = {} /\ ~pumpActive /\ ~pumpScheduled
  /\ turn.kind = "idle" /\ approvals = {}
  /\ recovered = NoSync /\ ~interrupted /\ ~batchIds

\* At rest no task is on the chain either: pendingInboundDispatches = 0.
AtRest == chain = <<>> /\ Direct

EvictableUnreserved == ~closed /\ inputs = <<>> /\ Direct  \* forgets chained dispatches

\* The conditions of evictConversationRuntimeIfIdle, for a conversation without
\* execution settings, sandbox and teleport (an open client keeps a runtime
\* with settings).  A stopped listener has no runtimes registered.
Evictable == ~closed /\ inputs = <<>> /\ AtRest

\* evictConversationRuntimeIfIdle, called last.  What the new object starts with
\* is what the old one has at rest, but for acceptedInputDispositions; and for
\* the item counter and lastStopReason, whose values nobody tells apart.  Syncs
\* that hold the old object end with it.  known and phases: without eviction.
EvictIfIdle(known, phases) ==
  /\ accepted' = IF Evictable' THEN <<>> ELSE known
  /\ syncPhase' = [s \in Syncs |-> IF Evictable' /\ phases[s] # "none" THEN "done" ELSE phases[s]]
  /\ rested' = IF AtRest' THEN Len(served') ELSE rested

-----------------------------------------------------------------------------
(* Turns *)

OwnsTurn(l) == IsCurrent(turn, l)  \* does not look at the abort signal

Live(l) == IsCurrent(turn, l) /\ l \notin aborted

\* A lease is a fresh object: which of the unused ones it is makes no difference.
FreshLease == CHOOSE l \in Leases : l \notin used

\* handleIncomingMessage up to its first await.
BeginTurn(l, status, first, conn) ==
  /\ Lifecycle!Begin(l)
  /\ l = FreshLease
  /\ turn'.loopStatus = status
  /\ phase' = [phase EXCEPT ![l] = first]
  /\ turnConn' = [turnConn EXCEPT ![l] = conn]
  /\ activeConn' = IF conn = NoConn THEN activeConn ELSE conn
  /\ UNCHANGED approvals

\* An owner goes on from one await to the next one, writing a loop status.
Proceed(l, from, to, status, executing) ==
  /\ phase[l] = from
  /\ phase' = [phase EXCEPT ![l] = to]
  /\ turn' = WithExecuting(WithStatus(turn, l, status), l, executing)
  /\ UNCHANGED <<used, running, aborted, cancels, discarded, terminals,
                 turnConn, activeConn, connState, commandRunning, closed>>

\* prepareListenerTurn: the interrupt cache becomes part of the input.
TurnSetup(l) ==
  /\ Live(l)
  /\ Proceed(l, "setup", "sending", "SENDING_API_REQUEST", turn.executing)
  /\ interrupted' = FALSE
  /\ batchIds' \in {batchIds, batchIds /\ ~interrupted}
  /\ UNCHANGED <<stopReason, queue, pump, approvals, ingress, recovered, syncPhase, bounds>>

\* The calls a continuation answers are forgotten; calls of an earlier turn
\* that failed may stay.
TurnSent(l) ==
  /\ Live(l)
  /\ Proceed(l, "sending", "stream", "PROCESSING_API_RESPONSE", FALSE)
  /\ batchIds' \in {batchIds, FALSE}
  /\ UNCHANGED <<stopReason, queue, pump, approvals, ingress, interrupted, recovered,
                 syncPhase, bounds>>

\* resolveStaleApprovals, when the backend still has open calls of an earlier
\* turn: they are denied, and queued items join the denials.  The request that
\* met them is retried afterwards.
StaleApprovals(l) ==
  /\ Live(l)
  /\ \E status \in {"RETRYING_API_REQUEST", "PROCESSING_API_RESPONSE"} :
       Proceed(l, "sending", "sending", status, FALSE)
  /\ batchIds' = TRUE
  /\ \E items \in SteeringBatches : Take(items, l \notin aborted)
  /\ UNCHANGED <<stopReason, pump, approvals, interrupted, recovered, syncPhase, bounds>>

\* The stream failed: its request is sent again, with or without denials.
TurnRetries(l) ==
  /\ Live(l)
  /\ Proceed(l, "stream", "sending", "SENDING_API_REQUEST", turn.executing)
  /\ UNCHANGED <<stopReason, queue, pump, approvals, ingress, recovery, bounds>>

\* The stream stops with tool calls: they are classified.
TurnToolCalls(l) ==
  /\ Live(l)
  /\ Proceed(l, "stream", "classified", turn.loopStatus, turn.executing)
  /\ batchIds' = TRUE
  /\ UNCHANGED <<stopReason, queue, pump, approvals, ingress, interrupted, recovered,
                 syncPhase, bounds>>

\* requestApprovalOverWS, for a call that needs the user.
TurnAsks(l) ==
  /\ Live(l)
  /\ Proceed(l, "classified", "asking", "WAITING_ON_APPROVAL", turn.executing)
  /\ stopReason' = "requires_approval"
  /\ approvals' = approvals \cup {l}
  /\ UNCHANGED <<queue, pump, ingress, recovery, bounds>>

TurnExecutes(l) ==
  /\ Live(l)
  /\ Proceed(l, "classified", "execute", "EXECUTING_CLIENT_SIDE_TOOL", TRUE)
  /\ UNCHANGED <<stopReason, queue, pump, approvals, ingress, recovery, bounds>>

\* The tools returned: queued items join the continuation of the turn.
TurnContinues(l) ==
  /\ Live(l)
  /\ Proceed(l, "execute", "sending", "SENDING_API_REQUEST", turn.executing)
  /\ \E items \in SteeringBatches : Take(items, l \notin aborted)
  /\ UNCHANGED <<stopReason, pump, approvals, recovery, bounds>>

\* completeSuccessfulListenerTurn: a mod may ask for another turn.
TurnCompletes(l) ==
  /\ Live(l)
  /\ Proceed(l, "stream", "completed", turn.loopStatus, turn.executing)
  /\ EnqueueSystem("mod_continue")
  /\ UNCHANGED <<stopReason, pump, approvals, ingress, recovery, sends, aborts, commands>>

\* Any exit of the owner, from a stream that ended, an error or an abort.  Its
\* catch block may put the tool calls it leaves open in the interrupt cache.
TurnEnds(l) ==
  /\ phase[l] \in Phases \ {"none", "cleanup", "gone"}
  /\ phase[l] = "asking" => l \notin approvals
  /\ Lifecycle!OwnerFinish(l)
  /\ FinishTakes(turn, l) =>
       stopReason' \in IF l \in aborted THEN {"cancelled"}
                       ELSE CASE phase[l] = "stream" -> {"end_turn", "cancelled", "error"}
                              [] phase[l] = "completed" -> {"end_turn", "error"}
                              [] OTHER -> {"error"}
  /\ phase' = [phase EXCEPT ![l] = "cleanup"]
  /\ activeConn' = IF turnConn[l] # NoConn /\ activeConn = turnConn[l] THEN NoConn
                   ELSE activeConn
  /\ interrupted' \in {interrupted, interrupted \/ (l \in aborted /\ IsCurrent(turn, l))}
  /\ UNCHANGED <<queue, pump, turnConn, approvals, ingress, batchIds, recovered, syncPhase,
                 connState, commandRunning, closed, bounds>>

\* The cleanup is over and the owner returns.  A task that awaited it goes on:
\* the pump loops, a dispatch schedules the pump when there is work for it, and
\* evicts the runtime otherwise.  Nothing awaits a recovery turn, which evicts
\* the runtime itself if it got as far as handleIncomingMessage.
TurnReturns(l) ==
  /\ phase[l] = "cleanup"
  /\ Lifecycle!OwnerReturn(l)
  /\ phase' = [phase EXCEPT ![l] = "gone"]
  /\ turnConn' = [turnConn EXCEPT ![l] = NoConn]
  /\ IF chainTurn # l THEN UNCHANGED pump
     ELSE /\ chainTurn' = NoLease
          /\ UNCHANGED pumpActive
          /\ IF Head(chain) = PumpTask THEN UNCHANGED <<chain, pumpScheduled>>
             ELSE IF store # {} \/ pumpScheduled \/ pumpActive THEN Schedule(Tail(chain))
             ELSE chain' = Tail(chain) /\ UNCHANGED pumpScheduled
  /\ UNCHANGED <<queue, approvals, activeConn, books, interrupted, batchIds, recovered,
                 connState, commandRunning, closed, bounds>>
  /\ IF chainTurn # l /\ turnConn[l] = NoConn THEN UNCHANGED <<accepted, rested, syncPhase>>
     ELSE EvictIfIdle(accepted, syncPhase)

-----------------------------------------------------------------------------
(* The promise chain *)

HeadIs(type) == chain # <<>> /\ Head(chain).type = type /\ chainTurn = NoLease

RefusesNothing == FALSE

Refused == closed  \* or teleported, which is not modelled

\* The body of a chained dispatch: refuse, recognise a retry, queue, or start.
\* Its .finally evicts an idle runtime; only a recognised retry may leave one.
DispatchRuns ==
  /\ HeadIs("dispatch")
  /\ UNCHANGED <<pumpActive, interrupted, batchIds, connState, commandRunning, closed, bounds>>
  /\ LET m == Head(chain).msg
         c == Head(chain).conn
     IN IF Refused
        THEN /\ chain' = Tail(chain)
             /\ UNCHANGED <<chainTurn, pumpScheduled, lifecycle, queue, owners, ingress,
                            recovered, syncPhase>>
        ELSE IF IsAccepted(m)
        THEN /\ chain' = Tail(chain)
             /\ UNCHANGED <<chainTurn, pumpScheduled, lifecycle, queue, owners, books, recovered>>
             /\ EvictIfIdle(Touched(m), syncPhase)
        ELSE IF ~Direct
        THEN /\ EnqueueUser(m, c)
             /\ IF AtCeiling(store)
                THEN chain' = Tail(chain) /\ UNCHANGED pumpScheduled
                ELSE Schedule(Tail(chain))
             /\ UNCHANGED <<chainTurn, lifecycle, owners, served, lost, arrived, rested,
                            recovered, syncPhase>>
        ELSE /\ Remember(m)
             /\ served' = Append(served, m)
             /\ recovered' = NoSync
             /\ \E l \in Leases : BeginTurn(l, "SENDING_API_REQUEST", "setup", c) /\ chainTurn' = l
             /\ UNCHANGED <<chain, pumpScheduled, queue, lost, arrived, rested, syncPhase>>

\* drainQueuedMessages gives up: no listener, no transport, a blocked reason
\* (TryDequeueBlocked of QueueRuntime), or nothing ready; the runtime is evicted
\* when it is idle.
PumpStops ==
  /\ HeadIs("pump")
  /\ closed \/ Open = {} \/ turn.kind # "idle" \/ approvals # {} \/ Ready(store) = {}
  /\ chain' = Tail(chain)
  /\ pumpScheduled' = (pumpScheduled /\ pumpActive)
  /\ pumpActive' = FALSE
  /\ UNCHANGED <<lifecycle, queue, owners, books, interrupted, batchIds, recovered, chainTurn,
                 connState, commandRunning, closed, bounds>>
  /\ EvictIfIdle(accepted, syncPhase)

\* One turn of its loop: take a batch and start its turn, unless the client
\* that sent it is gone.  queuePumpScheduled is reset when the task starts.
PumpTakes ==
  /\ HeadIs("pump")
  /\ ~closed /\ Open # {} /\ turn.kind = "idle" /\ approvals = {}
  /\ pumpActive' = TRUE
  /\ pumpScheduled' = (pumpScheduled /\ pumpActive)
  /\ \E items \in Batches :
       LET c == BatchConn(items)
           live == c \in Open \cup {NoConn}
       IN /\ Take(items, live)
          /\ IF live
             THEN /\ \E l \in Leases : BeginTurn(l, "SENDING_API_REQUEST", "setup", c) /\ chainTurn' = l
                  /\ recovered' = NoSync
             ELSE UNCHANGED <<lifecycle, owners, chainTurn, recovered>>
  /\ UNCHANGED <<chain, interrupted, batchIds, syncPhase, connState, commandRunning, closed, bounds>>

-----------------------------------------------------------------------------
(* Inputs, once the connection has opened the conversation *)

\* input create_message: a retry is acknowledged, a message that finds the
\* conversation free is chained, any other is queued behind a pump.
SendMessage(m, c) ==
  /\ ~closed /\ c \in Open /\ sends < MaxSends
  /\ m <= arrived + 1
  /\ arrived' = IF m > arrived THEN m ELSE arrived
  /\ sends' = sends + 1
  /\ IF IsAccepted(m)
     THEN accepted' = Touched(m) /\ UNCHANGED <<queue, chain, pumpScheduled, acked>>
     ELSE IF Direct
     THEN /\ chain' = Append(chain, [type |-> "dispatch", msg |-> m, conn |-> c])
          /\ UNCHANGED <<queue, pumpScheduled, accepted, acked>>
     ELSE /\ EnqueueUser(m, c)
          /\ IF AtCeiling(store) THEN UNCHANGED <<chain, pumpScheduled>> ELSE Schedule(chain)
  /\ UNCHANGED <<lifecycle, owners, recovery, chainTurn, pumpActive, served, lost, rested,
                 connState, commandRunning, closed, notices, aborts, commands>>

\* setMessageQueueAdder, and cron: process work needs no client.
Notify ==
  /\ ~closed
  /\ EnqueueSystem("task_notification")
  /\ ScheduleIf(TRUE)
  /\ UNCHANGED <<lifecycle, owners, ingress, recovery, connState, commandRunning,
                 closed, sends, aborts, commands>>

\* approval_response
ApprovalResponse(l) ==
  /\ ~closed /\ Open # {} /\ l \in approvals
  /\ approvals' = approvals \ {l}
  /\ phase' = [phase EXCEPT ![l] = "classified"]
  /\ ScheduleIf(TRUE)
  /\ UNCHANGED <<lifecycle, queue, turnConn, activeConn, ingress, recovery,
                 connState, commandRunning, closed, bounds>>

\* abort_message of an active turn: the user's messages are parked, approvals
\* rejected, and the backend is told; its answer is SettleCancellation.  A turn
\* that is not active has no approvals to reject (ApprovalsOwned).
AbortMessage ==
  /\ ~closed /\ Open # {} /\ aborts < MaxAborts
  /\ Lifecycle!RequestCancellation(TRUE)
  /\ QueueBecomes(Paused(store))
  /\ approvals' = {}
  /\ interrupted' = TRUE
  /\ ScheduleIf(TRUE)
  /\ aborts' = aborts + 1
  /\ UNCHANGED <<nextId, phase, turnConn, activeConn, ingress, batchIds, recovered, syncPhase,
                 connState, commandRunning, closed, sends, notices, commands>>

\* The .finally of the backend cancellation.
Settlement(l) ==
  /\ Lifecycle!SettleCancellation(l)
  /\ ScheduleIf(SettleReleases(turn, l))
  /\ UNCHANGED <<queue, owners, ingress, recovery, connState, commandRunning, closed, bounds>>

\* change_device_state with a new working directory, up to its await ...
CommandStarts ==
  /\ ~closed /\ Open # {} /\ commands < MaxCommands
  /\ turn.kind = "idle" /\ approvals = {}
  /\ commands' = commands + 1
  /\ turn' = StartedCommand(turn)
  /\ commandRunning' = TRUE
  /\ UNCHANGED <<stopReason, used, running, aborted, cancels, discarded, terminals,
                 queue, pump, owners, ingress, recovery, connState, closed, sends, notices, aborts>>

\* ... and its finally block.
CommandEnds ==
  /\ commandRunning
  /\ commandRunning' = FALSE
  /\ turn' = FinishedCommand(turn)
  /\ ScheduleIf(TRUE)
  /\ UNCHANGED <<stopReason, used, running, aborted, cancels, discarded, terminals,
                 queue, owners, ingress, recovery, connState, closed, bounds>>

\* resume_queue
ResumeQueue ==
  /\ ~closed /\ Open # {} /\ commands < MaxCommands
  /\ commands' = commands + 1
  /\ QueueBecomes(Resumed(store))
  /\ ScheduleIf(TRUE)
  /\ UNCHANGED <<nextId, lifecycle, owners, ingress, recovery, connState,
                 commandRunning, closed, sends, notices, aborts>>

\* remove_queue_item
RemoveQueueItem(i) ==
  /\ ~closed /\ Open # {} /\ commands < MaxCommands
  /\ commands' = commands + 1
  /\ QueueBecomes(store \ {i})
  /\ UNCHANGED <<nextId, lifecycle, pump, owners, books, interrupted, batchIds, recovered,
                 connState, commandRunning, closed, sends, notices, aborts>>
  /\ EvictIfIdle(accepted, syncPhase)

-----------------------------------------------------------------------------
(* Connections *)

\* A client connects and sends runtime_start for this conversation ...
Connects(c) ==
  /\ ~closed /\ connState[c] = "new"
  /\ connState' = [connState EXCEPT ![c] = "starting"]
  /\ UNCHANGED <<lifecycle, queue, pump, owners, ingress, recovery,
                 commandRunning, closed, bounds>>

OpensOnly(c, from) ==  \* leaves waiting work to the next input
  /\ ~closed /\ connState[c] = from
  /\ connState' = [connState EXCEPT ![c] = "open"]
  /\ UNCHANGED <<lifecycle, queue, pump, owners, ingress, recovery, commandRunning, closed, bounds>>

\* ... which is answered: waiting work is pumped again.  A remote listener
\* whose connection is back does the same in startConnectedListenerRuntime.
Pumps(c, from) ==
  /\ ~closed /\ connState[c] = from
  /\ connState' = [connState EXCEPT ![c] = "open"]
  /\ ScheduleIf(store # {})
  /\ UNCHANGED <<lifecycle, queue, owners, ingress, recovery, commandRunning, closed, bounds>>

RuntimeStarted(c) == Pumps(c, "starting")
Reconnects(c) == Pumps(c, "suspended")

\* The remote end closed: the connection is kept for a resume.
Suspends(c) ==
  /\ ~closed /\ c \in Open \cap RemoteConns
  /\ connState' = [connState EXCEPT ![c] = "suspended"]
  /\ UNCHANGED <<lifecycle, queue, pump, owners, ingress, recovery,
                 commandRunning, closed, bounds>>

\* cleanupListenerConnection: another client takes the turn over, or it is
\* cancelled; the inputs this client queued are removed, its approvals stay.
\* An idle runtime is evicted.
Closes(c) ==
  /\ ~closed /\ c \in Open \ RemoteConns
  /\ connState' = [connState EXCEPT ![c] = "closed"]
  /\ IF activeConn = c /\ Open = {c} /\ turn.kind = "active"
     THEN Lifecycle!RequestCancellation(FALSE) /\ approvals' = approvals \ {turn.lease}
     ELSE UNCHANGED <<lifecycle, approvals>>
  /\ activeConn' = IF activeConn = c /\ Open # {c} THEN NoConn ELSE activeConn
  /\ QueueBecomes({i \in store : i.kind = "message" => inputs[i.id].conn # c})
  /\ UNCHANGED <<nextId, pump, phase, turnConn, books, interrupted, batchIds, recovered,
                 commandRunning, closed, bounds>>
  /\ EvictIfIdle(accepted, syncPhase)

\* stopRuntime: everything is dropped, except what is only reached through
\* the runtime object: the chain, the owners and recoveredApprovalState.
Stop ==
  /\ ~closed
  /\ closed' = TRUE
  /\ Lifecycle!Reset
  /\ approvals' = {}
  /\ QueueBecomes({})
  /\ pumpScheduled' = FALSE /\ pumpActive' = FALSE
  /\ interrupted' = FALSE /\ batchIds' = FALSE
  /\ connState' = [c \in Conns |-> IF connState[c] = "new" THEN "new" ELSE "closed"]
  /\ UNCHANGED <<nextId, chain, chainTurn, phase, turnConn, activeConn, ingress,
                 recovered, syncPhase, commandRunning, bounds>>

-----------------------------------------------------------------------------
(* Recovery of approvals an earlier process left pending *)

Busy == interrupted \/ turn.kind # "idle" \/ approvals # {}

SyncStarts(s) ==
  /\ ~closed /\ Open # {} /\ syncPhase[s] = "none"
  /\ recovered' = IF Busy THEN NoSync ELSE recovered
  /\ syncPhase' = [syncPhase EXCEPT ![s] = IF Busy THEN "done" ELSE "reading"]
  /\ UNCHANGED <<lifecycle, queue, pump, owners, ingress, interrupted, batchIds, connState,
                 commandRunning, closed, bounds>>

\* The backend answered: there is nothing for this listener to recover; or it
\* is busy or not the owner any more; or the calls left open are denied, with
\* the next input (an observer) or now (the execution owner).
SyncReads(s) ==
  /\ syncPhase[s] = "reading"
  /\ UNCHANGED <<lifecycle, queue, pump, owners, books, batchIds, connState,
                 commandRunning, closed, bounds>>
  /\ LET next == IF recovered' = NoSync \/ turn.kind # "idle" THEN "done" ELSE recovered'
         phases == [syncPhase EXCEPT ![s] = next]
     IN \/ /\ recovered' = NoSync
           /\ UNCHANGED interrupted \/ (~Busy /\ interrupted' = TRUE)
           /\ EvictIfIdle(accepted, phases)
        \/ /\ \/ UNCHANGED <<recovered, interrupted>>
              \/ ~Busy /\ recovered' = s /\ interrupted' = FALSE
           /\ syncPhase' = phases
           /\ UNCHANGED <<accepted, rested>>

\* startRecoveredApprovalContinuation, after it asked for the ownership again.
RecoveryBegins(s) ==
  /\ syncPhase[s] \in Syncs
  /\ UNCHANGED <<queue, pump, books, interrupted, batchIds, connState, commandRunning,
                 closed, bounds>>
  /\ LET phases == [syncPhase EXCEPT ![s] = "done"]
     IN \/ /\ turn.kind # "idle" \/ recovered # syncPhase[s]
           /\ syncPhase' = phases
           /\ UNCHANGED <<lifecycle, owners, recovered, accepted, rested>>
        \/ /\ recovered = syncPhase[s] /\ recovered' = NoSync
           /\ UNCHANGED <<lifecycle, owners>>
           /\ EvictIfIdle(accepted, phases)
        \/ /\ turn.kind = "idle" /\ recovered = syncPhase[s] /\ ~interrupted
           /\ \E l \in Leases : BeginTurn(l, "EXECUTING_CLIENT_SIDE_TOOL", "recover", NoConn)
           /\ syncPhase' = phases
           /\ UNCHANGED <<recovered, accepted, rested>>

\* The denials are ready: queued items join them, and the turn goes on as any
\* other.  Only the lease is asked for here, not its abort signal.
RecoveryContinues(l) ==
  /\ phase[l] = "recover" /\ IsCurrent(turn, l)
  /\ phase' = [phase EXCEPT ![l] = "setup"]
  /\ turn' = WithExecuting(WithStatus(turn, l, "SENDING_API_REQUEST"), l, FALSE)
  /\ \E items \in SteeringBatches : Take(items, l \notin aborted)
  /\ \E c \in {d \in Conns : connState[d] # "new"} :  \* the one that sent the sync
       turnConn' = [turnConn EXCEPT ![l] = c] /\ activeConn' = c
  /\ recovered' = NoSync
  /\ UNCHANGED <<stopReason, used, running, aborted, cancels, discarded, terminals,
                 pump, approvals, interrupted, batchIds, syncPhase, connState,
                 commandRunning, closed, bounds>>

-----------------------------------------------------------------------------
OwnerStep(l) ==
  \/ TurnSetup(l) \/ TurnSent(l) \/ StaleApprovals(l) \/ TurnRetries(l)
  \/ TurnToolCalls(l) \/ TurnAsks(l) \/ TurnExecutes(l) \/ TurnContinues(l)
  \/ TurnCompletes(l) \/ TurnEnds(l) \/ TurnReturns(l)
  \/ RecoveryContinues(l)

ConnStep(c) ==
  \/ Connects(c) \/ RuntimeStarted(c) \/ Reconnects(c) \/ Suspends(c) \/ Closes(c)
  \/ \E m \in Messages : SendMessage(m, c)

Next ==
  \/ DispatchRuns \/ PumpStops \/ PumpTakes
  \/ \E l \in Leases : OwnerStep(l) \/ ApprovalResponse(l) \/ Settlement(l)
  \/ \E c \in Conns : ConnStep(c)
  \/ \E s \in Syncs : SyncStarts(s) \/ SyncReads(s) \/ RecoveryBegins(s)
  \/ \E i \in store : RemoveQueueItem(i)
  \/ Notify \/ AbortMessage \/ CommandStarts \/ CommandEnds \/ ResumeQueue \/ Stop

Spec == Init /\ [][Next]_vars

\* Promise callbacks run, handlers return, a backend call is answered, and a
\* turn that does not wait for the user ends: streams and tools do.
Fairness ==
  /\ WF_vars(DispatchRuns) /\ WF_vars(PumpStops) /\ WF_vars(PumpTakes)
  /\ WF_vars(CommandEnds)
  /\ \A c \in Conns : WF_vars(RuntimeStarted(c))
  /\ \A l \in Leases :
       WF_vars(TurnEnds(l)) /\ WF_vars(TurnReturns(l)) /\ WF_vars(Settlement(l))

FairSpec == Spec /\ Fairness

-----------------------------------------------------------------------------
\* Everything this conversation does to its turns is a behaviour of TurnOwners,
\* so what that module promises about turns holds here.
TurnsImplemented == Lifecycle!Spec

\* While a conversation has work, a message is given to one turn, however often
\* the client retries it: its copies may be chained, queued, parked, in the turn
\* that runs or in the interrupt cache.  Once the conversation is at rest its
\* runtime, and what it remembers, may be gone: see RetryRunsOnce.
AtMostOnce ==
  \A j, k \in rested + 1 .. Len(served) : served[j] = served[k] => j = k

\* Messages reach the agent in the order the listener accepted them in,
\* whether they start a turn, wait in the queue, are parked by an interrupt and
\* released again, or join a turn that runs.
AcceptedOrder ==
  \A j, k \in DOMAIN served : j < k =>
    \E a, b \in DOMAIN acked : a < b /\ acked[a] = served[j] /\ acked[b] = served[k]

\* What is taken from the queue is given to a turn that still runs.
NothingLost == lost = {}

\* A client that leaves takes its own messages with it, never the work of the
\* process, which has no client to wait for.
SystemWorkKept == "system" \notin lost

\* A message the listener acknowledged reaches a turn, waits in the queue, or
\* was removed from it as cancelled, which the clients are told.
AcceptedIsKept ==
  \A m \in ToSet(acked) : m \in ToSet(served) \cup cancelled \cup {inputs[id].msg : id \in DOMAIN inputs}

\* Only the running turn waits for the user, so a late answer to an approval
\* finds nothing of a cancelled turn to resume.
ApprovalsOwned ==
  \A l \in approvals : turn.kind = "active" /\ turn.lease = l /\ phase[l] = "asking"

\* Work that may run in an idle conversation has a pump coming: a task of the
\* chain, or the answer to a runtime_start.
NoLostWakeup ==
  ~closed /\ Open # {} /\ turn.kind = "idle" /\ Ready(store) # {} =>
    chain # <<>> \/ \E c \in Conns : connState[c] = "starting"

\* After an interrupt the items of the system drain once the conversation is
\* idle: NoLostWakeup for them, in a conversation that was interrupted.
SystemDrainsAfterAbort ==
  aborts > 0 /\ ~closed /\ Open # {} /\ turn.kind = "idle" /\ (\E i \in store : i.source = "system") =>
    chain # <<>> \/ \E c \in Conns : connState[c] = "starting"

\* Listeners queue coalescable items only, so the hard ceiling, which would
\* refuse an input for good, is never reached: the soft limit holds.
CeilingUnreached == Cardinality(store) <= MaxItems

\* A stopped listener begins no turn.
NoTurnAfterStop == [][closed => UNCHANGED used]_vars

\* A client may retry a message it has sent without its running twice.
RetryRunsOnce == \A j, k \in DOMAIN served : served[j] = served[k] => j = k

\* A retry that is acknowledged stands for a message that has run or will.
RetryIsIdempotent ==
  [][\A m \in Messages, c \in Conns : SendMessage(m, c) /\ IsAccepted(m) => m \notin cancelled]_vars

\* Ready items are taken in the end, unless the user or the clients hold the
\* conversation up (or the bounded model has no turn left).
ItemsDrain ==
  \A id \in 1 .. MaxSends + MaxNotices :
    (\E i \in Ready(store) : i.id = id) ~>
      \/ ~ \E i \in Ready(store) : i.id = id
      \/ approvals # {} \/ closed \/ Open = {} \/ used = Leases
=============================================================================
