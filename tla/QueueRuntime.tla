---------------------------- MODULE QueueRuntime ----------------------------
(***************************************************************************)
(* The class QueueRuntime: the bounded list of inputs waiting for a turn.  *)
(* Producers enqueue at any time; the consumer drains batches, is refused  *)
(* with a blocked reason, or takes a number of items it chose itself; an   *)
(* interrupt parks the user's messages.  Blocked reasons are reported to   *)
(* the clients through onBlocked, once per blocked period.                 *)
(***************************************************************************)
EXTENDS QueueItems

CONSTANTS
  BlockedReasons,  \* reasons a consumer passes to tryDequeue
  NoReason,        \* lastEmittedBlockedReason = null
  Inputs,          \* the (kind, source, scope) triples producers enqueue
  MaxId            \* bound: items a behaviour creates

PausedByUser == "paused_by_user"
Reasons == BlockedReasons \cup {PausedByUser}

ASSUME NoReasonAssumption == NoReason \notin Reasons

ASSUME InputsAssumption ==
  Inputs \subseteq [kind : QueueItemKinds, source : Sources, scope : Scopes]

VARIABLES
  store,                     \* the queued items
  nextId,                    \* last id handed out
  lastEmittedBlockedReason,
  blockedEmittedForNonEmpty,
  shown,                     \* what the clients were last told, and
  refused                    \* the reason a consumer was last refused with,
                             \* since the queue was last empty, drained or re-parked

vars == <<store, nextId, lastEmittedBlockedReason, blockedEmittedForNonEmpty, shown, refused>>
emission == <<lastEmittedBlockedReason, blockedEmittedForNonEmpty, shown>>

TypeOK ==
  /\ store \subseteq QueueItem
  /\ IsFiniteSet(store)
  /\ nextId \in Nat
  /\ \A i \in store : i.id \in 1 .. nextId
  /\ \A i, j \in store : i.id = j.id => i = j
  /\ lastEmittedBlockedReason \in Reasons \cup {NoReason}
  /\ blockedEmittedForNonEmpty \in BOOLEAN
  /\ {shown, refused} \subseteq Reasons \cup {NoReason}

Init ==
  /\ store = {}
  /\ nextId = 0
  /\ lastEmittedBlockedReason = NoReason
  /\ blockedEmittedForNonEmpty = FALSE
  /\ shown = NoReason
  /\ refused = NoReason

\* Several methods start a new blocked period when they leave the queue empty.
ResetIfEmpty ==
  /\ blockedEmittedForNonEmpty' = (blockedEmittedForNonEmpty /\ store' # {})
  /\ IF store' = {}
     THEN shown' = NoReason /\ refused' = NoReason
     ELSE UNCHANGED <<shown, refused>>
  /\ UNCHANGED lastEmittedBlockedReason

ResetTracking ==
  /\ lastEmittedBlockedReason' = NoReason
  /\ blockedEmittedForNonEmpty' = FALSE
  /\ shown' = NoReason
  /\ refused' = NoReason

-----------------------------------------------------------------------------
EnqueueStaleId(input) ==  \* takes the id before it is incremented
  LET item == [id |-> nextId, kind |-> input.kind, source |-> input.source,
               scope |-> input.scope, paused |-> FALSE]
  IN /\ nextId < MaxId
     /\ nextId' = nextId + 1
     /\ store' = IF AtCeiling(store) THEN store ELSE Enqueued(store, item)
     /\ blockedEmittedForNonEmpty' = (blockedEmittedForNonEmpty /\ store # {})
     /\ UNCHANGED <<lastEmittedBlockedReason, shown, refused>>

\* enqueue(): past the ceiling the item is refused, but its id is spent.  An
\* item that finds the queue empty starts a new blocked period.
Enqueue(input) ==
  LET item == [id |-> nextId + 1, kind |-> input.kind, source |-> input.source,
               scope |-> input.scope, paused |-> FALSE]
  IN /\ nextId < MaxId
     /\ nextId' = nextId + 1
     /\ store' = IF AtCeiling(store) THEN store ELSE Enqueued(store, item)
     /\ blockedEmittedForNonEmpty' = (blockedEmittedForNonEmpty /\ store # {})
     /\ UNCHANGED <<lastEmittedBlockedReason, shown, refused>>

EmitBlockedOnce(reason) ==  \* ignores a change of reason
  IF store # {} /\ ~blockedEmittedForNonEmpty
  THEN /\ lastEmittedBlockedReason' = reason
       /\ blockedEmittedForNonEmpty' = TRUE
       /\ shown' = reason
  ELSE UNCHANGED emission

\* onBlocked fires when the reason, or the blocked period, is a new one.
EmitBlocked(reason) ==
  IF store # {} /\ (reason # lastEmittedBlockedReason \/ ~blockedEmittedForNonEmpty)
  THEN /\ lastEmittedBlockedReason' = reason
       /\ blockedEmittedForNonEmpty' = TRUE
       /\ shown' = reason
  ELSE UNCHANGED emission

Refuse(reason) ==
  /\ EmitBlocked(reason)
  /\ refused' = IF store # {} THEN reason ELSE refused

TryDequeueBlocked(reason) ==
  /\ Refuse(reason)
  /\ UNCHANGED <<store, nextId>>

TryDequeue ==
  /\ UNCHANGED nextId
  /\ IF store # {} /\ Ready(store) = {}
     THEN Refuse(PausedByUser) /\ UNCHANGED store
     ELSE store' = store \ Batch(store) /\ ResetTracking

\* consumeItems(n): the caller decided how many ready items it takes.
ConsumeItems(n) ==
  /\ Ready(store) # {}
  /\ store' = store \ FrontItems(Ready(store), n)
  /\ ResetIfEmpty
  /\ UNCHANGED nextId

ResetBlockedState == ResetTracking /\ UNCHANGED <<store, nextId>>

RemoveItem(id) ==
  /\ \E i \in store : i.id = id
  /\ store' = {i \in store : i.id # id}
  /\ ResetIfEmpty
  /\ UNCHANGED nextId

Pause ==
  /\ store' = Paused(store)
  /\ IF store' = store
     THEN UNCHANGED <<blockedEmittedForNonEmpty, shown, refused>>
     ELSE /\ blockedEmittedForNonEmpty' = FALSE
          /\ shown' = NoReason
          /\ refused' = NoReason
  /\ UNCHANGED <<nextId, lastEmittedBlockedReason>>

Resume ==
  /\ store' = Resumed(store)
  /\ IF store' = store THEN UNCHANGED <<emission, refused>> ELSE ResetTracking
  /\ UNCHANGED nextId

Clear == store' = {} /\ ResetTracking /\ UNCHANGED nextId

Dequeue == TryDequeue \/ \E n \in 1 .. Cardinality(store) : ConsumeItems(n)

Next ==
  \/ \E input \in Inputs : Enqueue(input)
  \/ \E reason \in BlockedReasons : TryDequeueBlocked(reason)
  \/ Dequeue
  \/ \E i \in store : RemoveItem(i.id)
  \/ ResetBlockedState
  \/ Pause
  \/ Resume
  \/ Clear

Spec == Init /\ [][Next]_vars

-----------------------------------------------------------------------------
\* No burst of inputs grows the queue past its ceiling, and the coalescable
\* ones alone never pass the soft limit: only barriers overflow it.
QueueBounded ==
  /\ Cardinality(store) <= HardMaxItems
  /\ Cardinality(Coalescable(store)) <= MaxItems

\* Whatever refused the consumer of a non-empty queue last is what the clients
\* were told last, although onBlocked is suppressed for a reason it reported.
RefusalIsShown == refused = shown

\* A dequeue takes the oldest ready items: nothing ready that stays behind is
\* older than something it took, and nothing parked is taken.
DequeueInOrder ==
  [][Dequeue =>
       \A taken \in store \ store' :
         /\ ~taken.paused
         /\ \A left \in Ready(store') : taken.id < left.id]_vars

\* A batch is one barrier, or coalescable items of one scope.
BatchHomogeneous ==
  [][TryDequeue =>
       \A i, j \in store \ store' :
         i = j \/ (i.scope = j.scope /\ {i.kind, j.kind} \subseteq CoalescableKinds)]_vars
=============================================================================
