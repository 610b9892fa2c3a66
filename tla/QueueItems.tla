----------------------------- MODULE QueueItems -----------------------------
(***************************************************************************)
(* The list a QueueRuntime keeps, and what its methods do to that list.    *)
(* Ids are handed out in increasing order and an item is only ever pushed  *)
(* at the end, so the list is the set of its items read in the order of    *)
(* their ids; a position in the list is never needed.                      *)
(***************************************************************************)
EXTENDS Naturals, FiniteSets

CONSTANTS
  MaxItems,      \* the soft limit maxItems
  HardMaxItems,  \* the hard ceiling hardMaxItems
  Scopes         \* (agent, conversation) pairs an item can be addressed to

\* The constructor forces both limits into this shape.
ASSUME LimitsAssumption ==
  /\ MaxItems \in Nat \ {0}
  /\ HardMaxItems \in Nat
  /\ MaxItems <= HardMaxItems

CoalescableKinds == {"message", "task_notification", "cron_prompt", "mod_continue"}
BarrierKinds == {"approval_result", "overlay_action"}
QueueItemKinds == CoalescableKinds \cup BarrierKinds

\* Who put the item there; only "user" matters to pausing.
Sources == {"user", "system"}

QueueItem ==
  [id : Nat, kind : QueueItemKinds, source : Sources, scope : Scopes, paused : BOOLEAN]

-----------------------------------------------------------------------------
Oldest(items) == CHOOSE i \in items : \A j \in items : i.id <= j.id

Coalescable(items) == {i \in items : i.kind \in CoalescableKinds}

Ready(items) == {i \in items : ~i.paused}

\* The n items at the front of the list.
FrontItems(items, n) == {i \in items : Cardinality({j \in items : j.id < i.id}) < n}

\* The k-th of these ids.
Nth(ids, k) == CHOOSE n \in ids : Cardinality({i \in ids : i < n}) = k - 1

FaultyEvicted(items, item) ==  \* one item too late
  IF /\ Cardinality(items) > MaxItems
     /\ item.kind \in CoalescableKinds
     /\ Coalescable(items) # {}
  THEN {Oldest(Coalescable(items))}
  ELSE {}

\* enqueue() below the ceiling.  At the soft limit a coalescable item pushes
\* out the oldest coalescable one, parked or not; barriers may overflow.
Evicted(items, item) ==
  IF /\ Cardinality(items) >= MaxItems
     /\ item.kind \in CoalescableKinds
     /\ Coalescable(items) # {}
  THEN {Oldest(Coalescable(items))}
  ELSE {}

AtCeiling(items) == Cardinality(items) >= HardMaxItems

Enqueued(items, item) == (items \ Evicted(items, item)) \cup {item}

BatchSkipping(items) ==  \* continues past the item that does not fit
  LET ready == Ready(items)
      fits(i) == i.kind \in CoalescableKinds /\ i.scope = Oldest(ready).scope
  IN IF ready = {} THEN {} ELSE {i \in ready : i = Oldest(ready) \/ fits(i)}

BatchAnyScope(items) ==  \* forgets the scope
  LET ready == Ready(items)
  IN IF ready = {} THEN {}
     ELSE IF Oldest(ready).kind \in BarrierKinds THEN {Oldest(ready)}
     ELSE {i \in ready : \A j \in ready : j.id <= i.id => j.kind \in CoalescableKinds}

\* What tryDequeue(null) takes: from the first ready item on, the coalescable
\* ready items of its scope up to the first ready one that does not fit; a
\* barrier goes alone.
Batch(items) ==
  LET ready == Ready(items)
      first == Oldest(ready)
      fits(i) == i.kind \in CoalescableKinds /\ i.scope = first.scope
  IN IF ready = {} THEN {}
     ELSE IF first.kind \in BarrierKinds THEN {first}
     ELSE {i \in ready : \A j \in ready : j.id <= i.id => fits(j)}

\* pause() parks the user's messages, resume() releases everything.
Parkable(item) == item.kind = "message" /\ item.source = "user"

Paused(items) ==
  {[i EXCEPT !.paused = @ \/ Parkable(i)] : i \in items}

Resumed(items) == {[i EXCEPT !.paused = FALSE] : i \in items}
=============================================================================
