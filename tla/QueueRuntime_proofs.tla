------------------------- MODULE QueueRuntime_proofs -------------------------
(***************************************************************************)
(* Proofs about the class QueueRuntime, for any limits, scopes, reasons    *)
(* and inputs: it stays within its bounds, a batch is taken in order and   *)
(* is of one kind, and the clients know why the consumer was refused.      *)
(***************************************************************************)
EXTENDS QueueRuntime, QueueItems_proofs

\* onBlocked is suppressed only for the reason that was shown last.
EmittedIsShown == blockedEmittedForNonEmpty => shown = lastEmittedBlockedReason

Tracking ==
  /\ lastEmittedBlockedReason \in Reasons \cup {NoReason}
  /\ blockedEmittedForNonEmpty \in BOOLEAN
  /\ shown \in Reasons \cup {NoReason} /\ refused \in Reasons \cup {NoReason}
  /\ EmittedIsShown
  /\ RefusalIsShown

Contents == nextId \in Nat /\ Queued(store, nextId) /\ QueueBounded

IInv == Contents /\ Tracking

LEMMA InvariantTypes == IInv => TypeOK
BY DEF IInv, Contents, Tracking, Queued, TypeOK

LEMMA InitEstablishes == Init => IInv
<1> SUFFICES ASSUME Init
             PROVE  IInv
  OBVIOUS
<1>1. Coalescable({}) = {} /\ Cardinality({}) = 0 /\ IsFiniteSet({})
  BY FS_EmptySet DEF Coalescable
<1>2. store = {} /\ nextId = 0
  BY DEF Init
<1>3. Queued(store, nextId)
  BY <1>1, <1>2 DEF Queued
<1>4. Contents
  BY <1>1, <1>2, <1>3, LimitsAssumption DEF Contents, QueueBounded
<1>5. Tracking
  BY DEF Init, Tracking, EmittedIsShown, RefusalIsShown
<1>6. QED
  BY <1>4, <1>5 DEF IInv

-----------------------------------------------------------------------------
\* The items that are left, or only change their flag, are within the bounds.
LEMMA FewerContents ==
  ASSUME Contents, UNCHANGED nextId, store' \subseteq store
  PROVE  Contents'
<1>1. /\ Queued(store', nextId)
      /\ Cardinality(store') <= Cardinality(store)
      /\ Cardinality(Coalescable(store')) <= Cardinality(Coalescable(store))
  BY SubsetQueued DEF Contents
<1>2. /\ Cardinality(store') \in Nat /\ Cardinality(store) \in Nat
      /\ Cardinality(Coalescable(store')) \in Nat /\ Cardinality(Coalescable(store)) \in Nat
  BY <1>1, Finite DEF Contents, Queued, Coalescable
<1>3. QED
  BY <1>1, <1>2, LimitsAssumption DEF Contents, QueueBounded

LEMMA EnqueueContents ==
  ASSUME Contents, NEW input \in Inputs, Enqueue(input)
  PROVE  Contents'
<1> DEFINE item == [id |-> nextId + 1, kind |-> input.kind, source |-> input.source,
                    scope |-> input.scope, paused |-> FALSE]
<1>1. item \in QueueItem /\ item.id = nextId + 1
  BY InputsAssumption DEF Contents, QueueItem
<1> HIDE DEF item
<1>2. CASE AtCeiling(store)
  <2>1. store' = store /\ nextId' = nextId + 1
    BY <1>2 DEF Enqueue
  <2>2. QED
    BY <2>1 DEF Contents, Queued, QueueBounded
<1>3. CASE ~AtCeiling(store)
  <2>1. store' = Enqueued(store, item) /\ nextId' = nextId + 1
    BY <1>3 DEF Enqueue, item
  <2>2. Queued(store', nextId')
    BY <1>1, <2>1, EnqueuedQueued DEF Contents
  <2>3. Cardinality(Coalescable(store')) <= MaxItems
    BY <1>1, <2>1, EnqueuedCoalescable DEF Contents, QueueBounded
  <2>4. Cardinality(store') <= Cardinality(store) + 1
    <3>1. Cardinality(store) \in Nat
      BY FS_CardinalityType DEF Contents, Queued
    <3>2. QED
      BY <1>1, <2>1, <3>1, EnqueuedSize DEF Contents
  <2>5. Cardinality(store) < HardMaxItems /\ Cardinality(store) \in Nat
        /\ Cardinality(store') \in Nat
    BY <1>3, <2>2, FS_CardinalityType, LimitsAssumption DEF AtCeiling, Contents, Queued
  <2>6. Cardinality(store') <= HardMaxItems
    BY <2>4, <2>5, LimitsAssumption
  <2>7. QED
    BY <2>1, <2>2, <2>3, <2>6 DEF Contents, QueueBounded
<1>4. QED
  BY <1>2, <1>3

LEMMA FlagContents ==
  ASSUME Contents, UNCHANGED nextId, store' = Paused(store) \/ store' = Resumed(store)
  PROVE  Contents'
<1>1. /\ Queued(store', nextId)
      /\ Cardinality(store') <= Cardinality(store)
      /\ Cardinality(Coalescable(store')) <= Cardinality(Coalescable(store))
  BY PausedQueued, ResumedQueued DEF Contents
<1>2. /\ Cardinality(store') \in Nat /\ Cardinality(store) \in Nat
      /\ Cardinality(Coalescable(store')) \in Nat /\ Cardinality(Coalescable(store)) \in Nat
  BY <1>1, Finite DEF Contents, Queued, Coalescable
<1>3. QED
  BY <1>1, <1>2, LimitsAssumption DEF Contents, QueueBounded

LEMMA ContentsStep ==
  ASSUME Contents, [Next]_vars
  PROVE  Contents'
<1>1. ASSUME NEW input \in Inputs, Enqueue(input) PROVE Contents'
  BY <1>1, EnqueueContents
<1>2. ASSUME NEW reason \in BlockedReasons, TryDequeueBlocked(reason) PROVE Contents'
  BY <1>2, FewerContents DEF TryDequeueBlocked
<1>3. CASE Dequeue
  BY <1>3, FewerContents DEF Dequeue, TryDequeue, ConsumeItems
<1>4. ASSUME NEW i \in store, RemoveItem(i.id) PROVE Contents'
  BY <1>4, FewerContents DEF RemoveItem
<1>5. CASE ResetBlockedState \/ Clear
  BY <1>5, FewerContents DEF ResetBlockedState, Clear
<1>6. CASE Pause \/ Resume
  BY <1>6, FlagContents DEF Pause, Resume
<1>7. CASE UNCHANGED vars
  BY <1>7 DEF vars, Contents, QueueBounded
<1>8. QED
  BY <1>1, <1>2, <1>3, <1>4, <1>5, <1>6, <1>7 DEF Next

-----------------------------------------------------------------------------
\* A refusal of a queue that is not empty is shown: either now, or it was.
LEMMA RefuseTracking ==
  ASSUME Tracking, NEW reason \in Reasons, Refuse(reason)
  PROVE  Tracking'
BY DEF Tracking, EmittedIsShown, RefusalIsShown, Refuse, EmitBlocked, emission

\* A new blocked period begins with nothing shown and nobody refused.
LEMMA ResetTracks ==
  ASSUME Tracking, ResetTracking \/ ResetIfEmpty
  PROVE  Tracking'
BY DEF Tracking, EmittedIsShown, RefusalIsShown, ResetTracking, ResetIfEmpty

LEMMA TrackingStep ==
  ASSUME Tracking, [Next]_vars
  PROVE  Tracking'
<1>1. ASSUME NEW input \in Inputs, Enqueue(input) PROVE Tracking'
  BY <1>1 DEF Enqueue, Tracking, EmittedIsShown, RefusalIsShown
<1>2. ASSUME NEW reason \in BlockedReasons, TryDequeueBlocked(reason) PROVE Tracking'
  BY <1>2, RefuseTracking DEF TryDequeueBlocked, Reasons
<1>3. CASE Dequeue
  BY <1>3, RefuseTracking, ResetTracks DEF Dequeue, TryDequeue, ConsumeItems, Reasons
<1>4. ASSUME NEW i \in store, RemoveItem(i.id) PROVE Tracking'
  BY <1>4, ResetTracks DEF RemoveItem
<1>5. CASE ResetBlockedState \/ Clear
  BY <1>5, ResetTracks DEF ResetBlockedState, Clear
<1>6. CASE Pause
  <2>1. CASE store' = store
    BY <1>6, <2>1 DEF Pause, Tracking, EmittedIsShown, RefusalIsShown
  <2>2. CASE store' # store
    BY <1>6, <2>2, Zenon DEF Pause, Tracking, EmittedIsShown, RefusalIsShown
  <2>3. QED
    BY <2>1, <2>2
<1>7. CASE Resume
  BY <1>7, ResetTracks DEF Resume, emission, Tracking, EmittedIsShown, RefusalIsShown
<1>8. CASE UNCHANGED vars
  BY <1>8 DEF vars, Tracking, EmittedIsShown, RefusalIsShown
<1>9. QED
  BY <1>1, <1>2, <1>3, <1>4, <1>5, <1>6, <1>7, <1>8 DEF Next

LEMMA InvariantHolds == Spec => []IInv
<1>1. IInv /\ [Next]_vars => IInv'
  BY ContentsStep, TrackingStep DEF IInv
<1>2. QED
  BY <1>1, InitEstablishes, PTL DEF Spec

-----------------------------------------------------------------------------
(* The items have their types and ids of their own.  (enqueue)             *)
THEOREM QueueTyped == Spec => []TypeOK
BY InvariantHolds, InvariantTypes, PTL

(* No burst of inputs grows the queue past the hard ceiling, and coalescable *)
(* ones stay within the soft limit, whatever the limits.  (enqueue)          *)
THEOREM QueueStaysBounded == Spec => []QueueBounded
<1>1. IInv => QueueBounded
  BY DEF IInv, Contents
<1>2. QED
  BY <1>1, InvariantHolds, PTL

(* Whatever refused the consumer last is what the clients were told last.    *)
(* (emitBlocked, and every method that resets its tracking)                  *)
THEOREM RefusalsAreShown == Spec => []RefusalIsShown
<1>1. IInv => RefusalIsShown
  BY DEF IInv, Tracking
<1>2. QED
  BY <1>1, InvariantHolds, PTL

\* What tryDequeue(null) takes, of any list.
LEMMA BatchShape ==
  ASSUME NEW items, NEW top \in Nat, Queued(items, top), Ready(items) # {}
  PROVE  /\ Batch(items) \subseteq Ready(items)
         /\ \A taken \in Batch(items), left \in Ready(items) \ Batch(items) : taken.id < left.id
         /\ \A i, j \in Batch(items) :
              i = j \/ (i.scope = j.scope /\ {i.kind, j.kind} \subseteq CoalescableKinds)
<1> DEFINE ready == Ready(items)
           first == Oldest(ready)
           fits(i) == i.kind \in CoalescableKinds /\ i.scope = first.scope
<1>1. ready \subseteq items /\ \A i \in ready : i.id \in Nat
  BY DEF Ready, Queued
<1>2. first \in ready /\ \A i \in ready : first.id <= i.id
  BY <1>1, OldestIsOne
<1>3. \A i, j \in ready : i.id = j.id => i = j
  BY <1>1 DEF Queued
<1>4. CASE first.kind \in BarrierKinds
  <2>1. Batch(items) = {first}
    BY <1>4 DEF Batch
  <2>2. \A left \in ready \ {first} : first.id < left.id
    BY <1>1, <1>2, <1>3
  <2>3. QED
    BY <1>2, <2>1, <2>2
<1>5. CASE first.kind \notin BarrierKinds
  <2>1. Batch(items) = {i \in ready : \A j \in ready : j.id <= i.id => fits(j)}
    BY <1>5 DEF Batch
  <2>2. \A i \in Batch(items) : fits(i)
    BY <1>1, <2>1
  <2>3. ASSUME NEW taken \in Batch(items), NEW left \in ready \ Batch(items)
        PROVE  taken.id < left.id
    <3>1. PICK j \in ready : j.id <= left.id /\ ~fits(j)
      BY <2>1
    <3>2. ~(j.id <= taken.id)
      BY <2>1, <3>1
    <3>3. QED
      BY <1>1, <2>1, <3>1, <3>2
  <2>4. QED
    BY <2>1, <2>2, <2>3
<1>6. QED
  BY <1>4, <1>5

\* The n items at the front are older than the others.
LEMMA FrontIsOlder ==
  ASSUME NEW items, IsFiniteSet(items), \A i \in items : i.id \in Nat, NEW n \in Nat,
         NEW taken \in FrontItems(items, n), NEW left \in items \ FrontItems(items, n)
  PROVE  taken.id < left.id
<1> DEFINE before(i) == {j \in items : j.id < i.id}
<1>1. Cardinality(before(taken)) < n /\ ~(Cardinality(before(left)) < n)
  BY DEF FrontItems
<1>2. taken.id \in Nat /\ left.id \in Nat
  BY DEF FrontItems
<1>3. ASSUME left.id <= taken.id PROVE FALSE
  <2>1. before(left) \subseteq before(taken)
    BY <1>2, <1>3
  <2>2. IsFiniteSet(before(taken)) /\ Cardinality(before(taken)) \in Nat
    BY Finite
  <2>3. Cardinality(before(left)) <= Cardinality(before(taken)) /\ Cardinality(before(left)) \in Nat
    BY <2>1, <2>2, Finite
  <2>4. QED
    BY <1>1, <2>2, <2>3
<1>4. QED
  BY <1>2, <1>3

\* Nothing ready that a dequeue leaves behind is older than what it took.
OlderTaken ==
  \A taken \in store \ store' :
    /\ ~taken.paused
    /\ \A left \in Ready(store') : taken.id < left.id

LEMMA TryDequeueInOrder ==
  ASSUME IInv, TryDequeue
  PROVE  OlderTaken
<1>1. CASE store' = store
  BY <1>1 DEF OlderTaken
<1>2. CASE store' = store \ Batch(store) /\ Ready(store) # {}
  <2>1. Batch(store) \subseteq Ready(store)
        /\ \A taken \in Batch(store), left \in Ready(store) \ Batch(store) : taken.id < left.id
    BY <1>2, BatchShape DEF IInv, Contents
  <2>2. store \ store' \subseteq Batch(store) /\ Ready(store') \subseteq Ready(store) \ Batch(store)
    BY <1>2 DEF Ready
  <2>3. QED
    BY <2>1, <2>2 DEF OlderTaken, Ready
<1>3. CASE store' = store \ Batch(store) /\ Ready(store) = {}
  BY <1>3 DEF OlderTaken, Batch
<1>4. QED
  BY <1>1, <1>2, <1>3 DEF TryDequeue

LEMMA ConsumeInOrder ==
  ASSUME IInv, NEW n \in 1 .. Cardinality(store), ConsumeItems(n)
  PROVE  OlderTaken
<1> DEFINE ready == Ready(store)
<1>1. IsFiniteSet(ready) /\ (\A i \in ready : i.id \in Nat) /\ n \in Nat
  BY Finite, FS_CardinalityType DEF IInv, Contents, Queued, Ready
<1>2. \A taken \in FrontItems(ready, n), left \in ready \ FrontItems(ready, n) : taken.id < left.id
  BY <1>1, FrontIsOlder
<1>3. store \ store' \subseteq FrontItems(ready, n) /\ Ready(store') \subseteq ready \ FrontItems(ready, n)
  BY DEF ConsumeItems, Ready
<1>4. QED
  BY <1>2, <1>3 DEF OlderTaken, FrontItems, Ready

(* A dequeue takes the oldest ready items, never a parked one, also when the *)
(* caller chose their number.  (tryDequeue, consumeItems)                    *)
THEOREM DequeuesInOrder == Spec => DequeueInOrder
<1>1. IInv /\ Dequeue => OlderTaken
  BY TryDequeueInOrder, ConsumeInOrder DEF Dequeue
<1>2. IInv /\ [Next]_vars => [Dequeue => OlderTaken]_vars
  BY <1>1
<1>3. QED
  BY <1>2, InvariantHolds, PTL DEF Spec, DequeueInOrder, OlderTaken

OfOneKind ==
  \A i, j \in store \ store' :
    i = j \/ (i.scope = j.scope /\ {i.kind, j.kind} \subseteq CoalescableKinds)

(* A batch is one barrier, or coalescable items of one scope.  (tryDequeue)  *)
THEOREM BatchesHomogeneous == Spec => BatchHomogeneous
<1>1. ASSUME IInv, TryDequeue PROVE OfOneKind
  <2>1. CASE store' = store
    BY <2>1 DEF OfOneKind
  <2>2. CASE store' = store \ Batch(store) /\ Ready(store) # {}
    <3>1. store \ store' \subseteq Batch(store)
      BY <2>2
    <3>2. \A i, j \in Batch(store) :
            i = j \/ (i.scope = j.scope /\ {i.kind, j.kind} \subseteq CoalescableKinds)
      BY <1>1, <2>2, BatchShape DEF IInv, Contents
    <3>3. QED
      BY <3>1, <3>2 DEF OfOneKind
  <2>3. CASE store' = store \ Batch(store) /\ Ready(store) = {}
    BY <2>3 DEF OfOneKind, Batch
  <2>4. QED
    BY <1>1, <2>1, <2>2, <2>3 DEF TryDequeue
<1>2. IInv /\ [Next]_vars => [TryDequeue => OfOneKind]_vars
  BY <1>1
<1>3. QED
  BY <1>2, InvariantHolds, PTL DEF Spec, BatchHomogeneous, OfOneKind
=============================================================================
