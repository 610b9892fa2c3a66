-------------------------- MODULE QueueItems_proofs --------------------------
(***************************************************************************)
(* What the methods of QueueRuntime do to a list of items, whatever its    *)
(* limits: the lemmas on Enqueued, Batch, FrontItems, Paused and Resumed   *)
(* that the proofs about the class, and about the listener's queue, cite.  *)
(***************************************************************************)
EXTENDS QueueItems, TLAPS, FiniteSetTheorems

\* A list of items: finitely many, each with an id of its own, up to top.
Queued(items, top) ==
  /\ items \subseteq QueueItem
  /\ IsFiniteSet(items)
  /\ \A i \in items : i.id \in 1 .. top
  /\ \A i, j \in items : i.id = j.id => i = j

LEMMA LeastId ==
  ASSUME NEW S, S \subseteq Nat, S # {}
  PROVE  \E least \in S : \A n \in S : least <= n
<1> DEFINE Less == {p \in Nat \X Nat : p[1] < p[2]}
<1>1. IsWellFoundedOn(Less, Nat)
  BY NatLessThanWellFounded DEF OpToRel
<1>2. PICK least \in S : \A n \in S : <<n, least>> \notin Less
  BY <1>1, WFMin
<1>3. ASSUME NEW n \in S PROVE least <= n
  <2>1. n \in Nat /\ least \in Nat
    OBVIOUS
  <2>2. n < least => <<n, least>> \in Less
    BY <2>1
  <2>3. QED
    BY <1>2, <2>1, <2>2
<1>4. QED
  BY <1>3

\* The oldest of some items is one of them.
LEMMA OldestIsOne ==
  ASSUME NEW items, items # {}, \A i \in items : i.id \in Nat
  PROVE  Oldest(items) \in items /\ \A i \in items : Oldest(items).id <= i.id
<1>1. PICK least \in {i.id : i \in items} : \A n \in {i.id : i \in items} : least <= n
  BY LeastId
<1>2. QED
  BY <1>1 DEF Oldest

LEMMA Finite ==
  ASSUME NEW S, IsFiniteSet(S), NEW T, T \subseteq S
  PROVE  IsFiniteSet(T) /\ Cardinality(T) \in Nat /\ Cardinality(T) <= Cardinality(S)
BY FS_Subset, FS_CardinalityType

\* A function never makes more of a set than it has elements.
LEMMA ImageBound ==
  ASSUME NEW S, IsFiniteSet(S), NEW T, NEW f \in [S -> T], \A t \in T : \E s \in S : t = f[s]
  PROVE  IsFiniteSet(T) /\ Cardinality(T) <= Cardinality(S)
<1>1. f \in Surjection(S, T)
  BY DEF Surjection
<1>2. QED
  BY <1>1, FS_Surjection

-----------------------------------------------------------------------------
\* enqueue: one item comes in, at most one goes out.
LEMMA EnqueuedQueued ==
  ASSUME NEW items, NEW top \in Nat, Queued(items, top),
         NEW item \in QueueItem, item.id = top + 1
  PROVE  Queued(Enqueued(items, item), top + 1)
<1>1. Enqueued(items, item) \subseteq items \cup {item}
  BY DEF Enqueued
<1>2. IsFiniteSet(items \cup {item})
  BY FS_AddElement DEF Queued
<1>3. IsFiniteSet(Enqueued(items, item))
  BY <1>1, <1>2, Finite
<1>4. \A i, j \in items \cup {item} : i.id = j.id => i = j
  BY DEF Queued
<1>5. QED
  BY <1>1, <1>3, <1>4 DEF Queued

\* One item is added; what was pushed out makes up for it.
LEMMA EnqueuedSize ==
  ASSUME NEW items, NEW top \in Nat, Queued(items, top),
         NEW item \in QueueItem, item.id = top + 1
  PROVE  /\ Evicted(items, item) = {} =>
              Cardinality(Enqueued(items, item)) = Cardinality(items) + 1
         /\ Evicted(items, item) # {} =>
              Cardinality(Enqueued(items, item)) = Cardinality(items)
<1>1. item \notin items
  BY DEF Queued
<1>2. Evicted(items, item) = {} => Enqueued(items, item) = items \cup {item}
  BY DEF Enqueued
<1>3. ASSUME Evicted(items, item) # {}
      PROVE  Cardinality(Enqueued(items, item)) = Cardinality(items)
  <2>1. Coalescable(items) # {} /\ Evicted(items, item) = {Oldest(Coalescable(items))}
    BY <1>3 DEF Evicted
  <2>2. \A i \in Coalescable(items) : i.id \in Nat
    BY DEF Coalescable, Queued
  <2>3. Oldest(Coalescable(items)) \in items
    BY <2>1, <2>2, OldestIsOne DEF Coalescable
  <2> DEFINE rest == items \ {Oldest(Coalescable(items))}
  <2>4. IsFiniteSet(rest) /\ Cardinality(rest) = Cardinality(items) - 1
    BY <2>3, FS_RemoveElement DEF Queued
  <2>5. item \notin rest
    BY <1>1
  <2>6. Cardinality(rest \cup {item}) = Cardinality(rest) + 1
    BY <2>4, <2>5, FS_AddElement
  <2>7. Enqueued(items, item) = rest \cup {item}
    BY <2>1 DEF Enqueued
  <2>8. Cardinality(items) \in Nat
    BY FS_CardinalityType DEF Queued
  <2>9. QED
    BY <2>4, <2>6, <2>7, <2>8
<1>4. QED
  BY <1>1, <1>2, <1>3, FS_AddElement DEF Queued

\* At the soft limit a coalescable item pushes another one out, so that the
\* coalescable ones stay within it, whatever the barriers take.
LEMMA EnqueuedCoalescable ==
  ASSUME NEW items, NEW top \in Nat, Queued(items, top),
         NEW item \in QueueItem, item.id = top + 1,
         Cardinality(Coalescable(items)) <= MaxItems
  PROVE  Cardinality(Coalescable(Enqueued(items, item))) <= MaxItems
<1> DEFINE C == Coalescable(items)
<1>1. IsFiniteSet(C) /\ Cardinality(C) \in Nat /\ Cardinality(C) <= Cardinality(items)
      /\ Cardinality(items) \in Nat
  BY Finite, FS_CardinalityType DEF Coalescable, Queued
<1>2. item \notin C
  BY DEF Coalescable, Queued
<1>3. CASE item.kind \notin CoalescableKinds
  <2>1. Coalescable(Enqueued(items, item)) = C
    BY <1>3 DEF Enqueued, Evicted, Coalescable
  <2>2. QED
    BY <2>1
<1>4. CASE item.kind \in CoalescableKinds /\ Cardinality(items) < MaxItems
  <2>1. Evicted(items, item) = {}
    BY <1>1, <1>4, LimitsAssumption DEF Evicted
  <2>2. Coalescable(Enqueued(items, item)) = C \cup {item}
    BY <1>4, <2>1 DEF Enqueued, Coalescable
  <2>3. Cardinality(C \cup {item}) = Cardinality(C) + 1
    BY <1>1, <1>2, FS_AddElement
  <2>4. QED
    BY <1>1, <1>4, <2>2, <2>3, LimitsAssumption
<1>5. CASE item.kind \in CoalescableKinds /\ Cardinality(items) >= MaxItems /\ C = {}
  <2>1. Coalescable(Enqueued(items, item)) = {item}
    BY <1>5 DEF Enqueued, Evicted, Coalescable
  <2>2. QED
    BY <2>1, FS_Singleton, LimitsAssumption
<1>6. CASE item.kind \in CoalescableKinds /\ Cardinality(items) >= MaxItems /\ C # {}
  <2>1. Oldest(C) \in C
    BY <1>6, OldestIsOne DEF Coalescable, Queued
  <2>2. Evicted(items, item) = {Oldest(C)}
    BY <1>6 DEF Evicted
  <2>3. Coalescable(Enqueued(items, item)) = (C \ {Oldest(C)}) \cup {item}
    BY <1>6, <2>2 DEF Enqueued, Coalescable
  <2>4. IsFiniteSet(C \ {Oldest(C)}) /\ Cardinality(C \ {Oldest(C)}) = Cardinality(C) - 1
    BY <1>1, <2>1, FS_RemoveElement
  <2>5. item \notin C \ {Oldest(C)}
    BY <1>2
  <2>6. Cardinality((C \ {Oldest(C)}) \cup {item}) = Cardinality(C \ {Oldest(C)}) + 1
    BY <2>4, <2>5, FS_AddElement
  <2>7. QED
    BY <1>1, <2>3, <2>4, <2>6
<1>7. QED
  BY <1>1, <1>3, <1>4, <1>5, <1>6, LimitsAssumption

-----------------------------------------------------------------------------
\* What leaves the list keeps it one.
LEMMA SubsetQueued ==
  ASSUME NEW items, NEW top \in Nat, Queued(items, top), NEW left, left \subseteq items
  PROVE  /\ Queued(left, top)
         /\ Cardinality(left) <= Cardinality(items)
         /\ Cardinality(Coalescable(left)) <= Cardinality(Coalescable(items))
<1>1. IsFiniteSet(left) /\ Cardinality(left) <= Cardinality(items)
  BY Finite DEF Queued
<1>2. Coalescable(left) \subseteq Coalescable(items) /\ IsFiniteSet(Coalescable(items))
  BY Finite DEF Coalescable, Queued
<1>3. Cardinality(Coalescable(left)) <= Cardinality(Coalescable(items))
  BY <1>2, Finite
<1>4. QED
  BY <1>1, <1>3 DEF Queued

\* pause and resume change an item, but neither its id nor its kind.
LEMMA FlaggedQueued ==
  ASSUME NEW items, NEW top \in Nat, Queued(items, top),
         NEW f \in [items -> QueueItem],
         \A i \in items : f[i].id = i.id /\ f[i].kind = i.kind,
         NEW changed, changed = {f[i] : i \in items}
  PROVE  /\ Queued(changed, top)
         /\ Cardinality(changed) <= Cardinality(items)
         /\ Cardinality(Coalescable(changed)) <= Cardinality(Coalescable(items))
<1> DEFINE C == Coalescable(items)
           g == [i \in C |-> f[i]]
<1>1. IsFiniteSet(changed) /\ Cardinality(changed) <= Cardinality(items)
  <2>1. f \in [items -> changed] /\ \A t \in changed : \E i \in items : t = f[i]
    OBVIOUS
  <2>2. QED
    BY <2>1, ImageBound DEF Queued
<1>2. Cardinality(Coalescable(changed)) <= Cardinality(C)
  <2>1. IsFiniteSet(C)
    BY Finite DEF Coalescable, Queued
  <2>2. g \in [C -> Coalescable(changed)]
    BY DEF Coalescable
  <2>3. \A t \in Coalescable(changed) : \E i \in C : t = g[i]
    BY DEF Coalescable
  <2>4. QED
    BY <2>1, <2>2, <2>3, ImageBound
<1>3. Queued(changed, top)
  <2>1. changed \subseteq QueueItem /\ \A i \in changed : i.id \in 1 .. top
    BY DEF Queued
  <2>2. \A i, j \in changed : i.id = j.id => i = j
    BY DEF Queued
  <2>3. QED
    BY <1>1, <2>1, <2>2 DEF Queued
<1>4. QED
  BY <1>1, <1>2, <1>3

LEMMA PausedQueued ==
  ASSUME NEW items, NEW top \in Nat, Queued(items, top)
  PROVE  /\ Queued(Paused(items), top)
         /\ Cardinality(Paused(items)) <= Cardinality(items)
         /\ Cardinality(Coalescable(Paused(items))) <= Cardinality(Coalescable(items))
<1> DEFINE f == [i \in items |-> [i EXCEPT !.paused = @ \/ Parkable(i)]]
<1>1. ASSUME NEW i \in items
      PROVE  f[i] \in QueueItem /\ f[i].id = i.id /\ f[i].kind = i.kind
  <2>1. i \in QueueItem /\ (i.paused \/ Parkable(i)) \in BOOLEAN
    BY DEF Queued
  <2>2. QED
    BY <2>1 DEF QueueItem
<1>2. f \in [items -> QueueItem]
  BY <1>1
<1>3. Paused(items) = {f[i] : i \in items}
  BY DEF Paused
<1>4. \A i \in items : f[i].id = i.id /\ f[i].kind = i.kind
  BY <1>1
<1> HIDE DEF f
<1>5. QED
  BY <1>2, <1>3, <1>4, FlaggedQueued

LEMMA ResumedQueued ==
  ASSUME NEW items, NEW top \in Nat, Queued(items, top)
  PROVE  /\ Queued(Resumed(items), top)
         /\ Cardinality(Resumed(items)) <= Cardinality(items)
         /\ Cardinality(Coalescable(Resumed(items))) <= Cardinality(Coalescable(items))
<1> DEFINE f == [i \in items |-> [i EXCEPT !.paused = FALSE]]
<1>1. ASSUME NEW i \in items
      PROVE  f[i] \in QueueItem /\ f[i].id = i.id /\ f[i].kind = i.kind
  BY DEF Queued, QueueItem
<1>2. f \in [items -> QueueItem]
  BY <1>1
<1>3. Resumed(items) = {f[i] : i \in items}
  BY DEF Resumed
<1>4. \A i \in items : f[i].id = i.id /\ f[i].kind = i.kind
  BY <1>1
<1> HIDE DEF f
<1>5. QED
  BY <1>2, <1>3, <1>4, FlaggedQueued

-----------------------------------------------------------------------------
\* Ids in a finite set are numbered from the least one on.
Rank(ids, n) == Cardinality({i \in ids : i < n})

LEMMA RankBounded ==
  ASSUME NEW ids, IsFiniteSet(ids), ids \subseteq Nat, NEW n \in ids
  PROVE  Cardinality(ids) \in Nat /\ Rank(ids, n) \in 0 .. Cardinality(ids) - 1
<1>1. {i \in ids : i < n} \subseteq ids \ {n}
  OBVIOUS
<1>2. /\ IsFiniteSet(ids \ {n}) /\ Cardinality(ids \ {n}) = Cardinality(ids) - 1
      /\ Cardinality(ids) \in Nat
  BY FS_RemoveElement, FS_CardinalityType
<1>3. Rank(ids, n) \in Nat /\ Rank(ids, n) <= Cardinality(ids \ {n})
  BY <1>1, <1>2, Finite DEF Rank
<1>4. QED
  BY <1>2, <1>3

LEMMA RankIncreases ==
  ASSUME NEW ids, IsFiniteSet(ids), ids \subseteq Nat, NEW m \in ids, NEW n \in ids, m < n
  PROVE  Rank(ids, m) < Rank(ids, n)
<1> DEFINE below(k) == {i \in ids : i < k}
<1>1. IsFiniteSet(below(n)) /\ Cardinality(below(n)) \in Nat
  BY Finite
<1>2. below(m) \subseteq below(n) \ {m} /\ m \in below(n)
  <2>1. \A i \in ids : i < m => i < n /\ i # m
    OBVIOUS
  <2>2. QED
    BY <2>1
<1>3. /\ IsFiniteSet(below(n) \ {m})
      /\ Cardinality(below(n) \ {m}) = Cardinality(below(n)) - 1
  BY <1>1, <1>2, FS_RemoveElement
<1>4. Cardinality(below(m)) \in Nat /\ Cardinality(below(m)) <= Cardinality(below(n) \ {m})
  BY <1>2, <1>3, Finite
<1>5. QED
  BY <1>1, <1>3, <1>4 DEF Rank

LEMMA RankOrders ==
  ASSUME NEW ids, IsFiniteSet(ids), ids \subseteq Nat, NEW m \in ids, NEW n \in ids
  PROVE  (m < n <=> Rank(ids, m) < Rank(ids, n)) /\ (m = n <=> Rank(ids, m) = Rank(ids, n))
<1>0. /\ Cardinality(ids) \in Nat /\ Rank(ids, m) \in 0 .. Cardinality(ids) - 1
      /\ Rank(ids, n) \in 0 .. Cardinality(ids) - 1
  BY RankBounded
<1>1. Rank(ids, m) \in Int /\ Rank(ids, n) \in Int /\ m \in Int /\ n \in Int
  BY <1>0
<1>2. (m < n => Rank(ids, m) < Rank(ids, n)) /\ (n < m => Rank(ids, n) < Rank(ids, m))
  BY RankIncreases
<1>3. m < n \/ n < m \/ m = n
  BY <1>1
<1>4. QED
  BY <1>1, <1>2, <1>3

LEMMA NthIs ==
  ASSUME NEW ids, IsFiniteSet(ids), ids \subseteq Nat, NEW k \in 1 .. Cardinality(ids)
  PROVE  Nth(ids, k) \in ids /\ Rank(ids, Nth(ids, k)) = k - 1
<1> DEFINE rank == [n \in ids |-> Rank(ids, n)]
           ranks == 0 .. Cardinality(ids) - 1
<1>1. Cardinality(ids) \in Nat
  BY FS_CardinalityType
<1>2. rank \in [ids -> ranks]
  BY RankBounded, Zenon
<1>3. ASSUME NEW m \in ids, NEW n \in ids, rank[m] = rank[n] PROVE m = n
  BY <1>3, RankOrders
<1>4. rank \in Injection(ids, ranks)
  BY <1>2, <1>3 DEF Injection, IsInjective
<1>5. IsFiniteSet(ranks) /\ Cardinality(ranks) = Cardinality(ids)
  <2>1. Cardinality(ids) - 1 \in Int /\ 0 \in Int
    BY <1>1
  <2>2. /\ IsFiniteSet(ranks)
        /\ Cardinality(ranks) = IF 0 > Cardinality(ids) - 1 THEN 0
                                ELSE (Cardinality(ids) - 1) - 0 + 1
    BY <2>1, FS_Interval
  <2>3. QED
    BY <1>1, <2>2
<1>6. rank \in Surjection(ids, ranks)
  BY <1>4, <1>5, FS_Injection
<1>7. k - 1 \in ranks
  BY <1>1
<1>8. \E n \in ids : rank[n] = k - 1
  BY <1>6, <1>7 DEF Surjection
<1>9. QED
  BY <1>8 DEF Nth, Rank

LEMMA NthOnto ==
  ASSUME NEW ids, IsFiniteSet(ids), ids \subseteq Nat, NEW n \in ids
  PROVE  \E k \in 1 .. Cardinality(ids) : Nth(ids, k) = n
<1>1. PICK k \in 1 .. Cardinality(ids) : Rank(ids, n) = k - 1
  <2>1. Cardinality(ids) \in Nat /\ Rank(ids, n) \in 0 .. Cardinality(ids) - 1
    BY RankBounded
  <2>2. Rank(ids, n) + 1 \in 1 .. Cardinality(ids) /\ Rank(ids, n) = (Rank(ids, n) + 1) - 1
    BY <2>1
  <2>3. QED
    BY <2>2
<1>2. Nth(ids, k) \in ids /\ Rank(ids, Nth(ids, k)) = Rank(ids, n)
  BY <1>1, NthIs
<1>3. QED
  BY <1>2, RankOrders

LEMMA NthIncreases ==
  ASSUME NEW ids, IsFiniteSet(ids), ids \subseteq Nat,
         NEW j \in 1 .. Cardinality(ids), NEW k \in 1 .. Cardinality(ids), j < k
  PROVE  Nth(ids, j) < Nth(ids, k)
<1>1. /\ Nth(ids, j) \in ids /\ Rank(ids, Nth(ids, j)) = j - 1
      /\ Nth(ids, k) \in ids /\ Rank(ids, Nth(ids, k)) = k - 1
  BY NthIs
<1>2. j - 1 < k - 1
  OBVIOUS
<1>3. Rank(ids, Nth(ids, j)) < Rank(ids, Nth(ids, k))
  BY <1>1, <1>2
<1>4. QED
  BY <1>1, <1>3, RankOrders

=============================================================================
