------------------------- MODULE ReplayWindow_proofs -------------------------
(***************************************************************************)
(* Proofs about the replay window, for every value of its limits and any   *)
(* order of heights.                                                       *)
(***************************************************************************)
EXTENDS ReplayWindow, ReplayBuffer_proofs

-----------------------------------------------------------------------------
(***************************************************************************)
(* The invariant                                                           *)
(***************************************************************************)
IInv ==
    /\ Sound(replay, Items)
    /\ Limited(replay)
    /\ clock \in Nat
    /\ sequence \in Nat
    /\ WindowInOrder

\* A batch the plugin may push next is one.
LEMMA NextBatchesAre ==
    ASSUME sequence \in Nat, NEW b \in NextBatches
    PROVE  /\ IsBatch(b, Items) /\ b.item \in Items
           /\ b.first = sequence + 1 /\ b.last \in Nat /\ b.last >= b.first
<1>1. PICK h \in Heights, item \in Items, n \in BatchSizes, bytes \in ByteSizes :
        b = Batch(h, item, sequence + 1, sequence + n, bytes)
  BY DEF NextBatches
<1>2. h \in Nat /\ n \in Nat \ {0} /\ bytes \in Nat
  BY BatchAssumption
<1>3. b = [height |-> h, item |-> item, first |-> sequence + 1, last |-> sequence + n,
           bytes |-> bytes]
  BY <1>1 DEF Batch
<1>4. sequence + 1 \in Nat /\ sequence + n \in Nat /\ sequence + n >= sequence + 1
  BY <1>2
<1> QED BY <1>2, <1>3, <1>4 DEF IsBatch

\* The empty window of ReplayBuffer::new satisfies the inductive invariant.
LEMMA InitIInv == Init => IInv
<1> SUFFICES ASSUME Init PROVE IInv
  OBVIOUS
<1>1. Sound(replay, Items) /\ Limited(replay)
  BY EmptySound DEF Init
<1>2. WindowInOrder
  BY DEF Init, EmptyReplay, WindowInOrder
<1> QED BY <1>1, <1>2 DEF IInv, Init

\* A handler that pushes a batch numbered above everything before it.
LEMMA PushIInv == IInv /\ PushBlockBatch => IInv'
<1> SUFFICES ASSUME IInv, PushBlockBatch PROVE IInv'
  OBVIOUS
<1>1. PICK b \in NextBatches :
        PushesTo(replay, b, clock, replay') /\ sequence' = b.last
  BY DEF PushBlockBatch
<1>2. /\ IsBatch(b, Items) /\ b.item \in Items /\ b.first = sequence + 1
      /\ b.last \in Nat /\ b.last >= b.first
  BY <1>1, NextBatchesAre DEF IInv
<1>3. clock' = clock /\ clock \in Nat /\ sequence \in Nat /\ sequence' \in Nat
      /\ sequence <= sequence'
  BY <1>1, <1>2 DEF IInv, PushBlockBatch
<1>4. CASE HeightCapacity = 0
  <2>1. replay' = replay
    BY <1>1, <1>4 DEF PushesTo
  <2>2. WindowInOrder'
    <3>1. \A i \in 1 .. Len(replay.pushed) : replay.pushed[i] \in BucketType
      BY ElementOfSeq DEF IInv, Sound, Typed, BucketType
    <3> QED BY <2>1, <1>3, <3>1 DEF IInv, WindowInOrder, BucketType, BucketsOf
  <2> QED BY <2>1, <2>2, <1>3 DEF IInv
<1>5. CASE HeightCapacity # 0
  <2> DEFINE n == Len(replay.pushed)
  <2>1. /\ Sound(replay', Items) /\ Limited(replay')
        /\ n \in Nat /\ Len(replay'.pushed) = n + 1
        /\ \A i \in 1 .. n : replay'.pushed[i] = replay.pushed[i]
        /\ replay'.pushed[n + 1] = Bucket(replay, b, clock)
    BY <1>1, <1>2, <1>3, <1>5, PushesSound DEF IInv
  <2>2. \A i \in 1 .. n : replay.pushed[i] \in BucketType
    BY ElementOfSeq DEF IInv, Sound, Typed, BucketType
  <2>3. replay'.pushed[n + 1].first = b.first /\ replay'.pushed[n + 1].last = b.last
    BY <2>1 DEF Bucket
  <2>4. \A i \in 1 .. n : /\ replay'.pushed[i].first \in Nat /\ replay'.pushed[i].last \in Nat
                           /\ replay'.pushed[i].first <= replay'.pushed[i].last
                           /\ replay'.pushed[i].last <= sequence
    BY <2>2, <2>1 DEF IInv, WindowInOrder, BucketType, BucketsOf
  <2>5. \A i, j \in 1 .. n : i < j => replay'.pushed[i].last < replay'.pushed[j].first
    BY <2>1 DEF IInv, WindowInOrder
  <2>6. \A i \in 1 .. (n + 1) :
            replay'.pushed[i].first <= replay'.pushed[i].last /\ replay'.pushed[i].last <= sequence'
    <3> TAKE i \in 1 .. (n + 1)
    <3>1. CASE i \in 1 .. n
      BY <3>1, <2>4, <1>3
    <3>2. CASE i = n + 1
      BY <3>2, <2>3, <1>1, <1>2
    <3> QED BY <3>1, <3>2, <2>1
  <2>7. \A i, j \in 1 .. (n + 1) : i < j => replay'.pushed[i].last < replay'.pushed[j].first
    <3> SUFFICES ASSUME NEW i \in 1 .. (n + 1), NEW j \in 1 .. (n + 1), i < j
                 PROVE  replay'.pushed[i].last < replay'.pushed[j].first
      OBVIOUS
    <3>1. CASE j \in 1 .. n
      BY <3>1, <2>1, <2>5
    <3>2. CASE j = n + 1
      <4>1. i \in 1 .. n
        BY <3>2, <2>1
      <4>2. replay'.pushed[i].last \in Nat /\ replay'.pushed[i].last <= sequence
        BY <4>1, <2>4
      <4>3. replay'.pushed[j].first = sequence + 1
        BY <3>2, <2>3, <1>2
      <4> QED BY <4>2, <4>3, <1>3
    <3> QED BY <3>1, <3>2, <2>1
  <2>8. WindowInOrder'
    BY <2>1, <2>6, <2>7 DEF WindowInOrder
  <2> QED BY <2>1, <2>8, <1>3 DEF IInv
<1> QED BY <1>4, <1>5

\* A handler that only evicts.
LEMMA EvictIInv ==
    ASSUME IInv, EvictsTo(replay, clock, replay'),
           clock' = clock, sequence' \in Nat, sequence <= sequence'
    PROVE  IInv'
<1>1. Sound(replay', Items) /\ Limited(replay') /\ replay'.pushed = replay.pushed
  BY EvictSound DEF IInv
<1>2. \A i \in 1 .. Len(replay.pushed) : replay.pushed[i] \in BucketType
  BY ElementOfSeq DEF IInv, Sound, Typed, BucketType
<1>3. WindowInOrder'
  BY <1>1, <1>2 DEF IInv, WindowInOrder, BucketType, BucketsOf
<1> QED BY <1>1, <1>3 DEF IInv

\* Every handler that takes the replay lock, and the clock, preserves it.
LEMMA NextIInv == IInv /\ [Next]_vars => IInv'
<1> SUFFICES ASSUME IInv, [Next]_vars PROVE IInv'
  OBVIOUS
<1>1. CASE PushBlockBatch
  BY <1>1, PushIInv
<1>2. CASE PushMempoolBatch
  <2>1. clock' = clock /\ sequence' = sequence + 1 /\ sequence \in Nat
    BY <1>2 DEF PushMempoolBatch, IInv
  <2>2. CASE HeightCapacity = 0
    <3>1. replay' = replay
      BY <1>2, <2>2 DEF PushMempoolBatch, HeightlessPushesTo
    <3>2. \A i \in 1 .. Len(replay.pushed) : replay.pushed[i] \in BucketType
      BY ElementOfSeq DEF IInv, Sound, Typed, BucketType
    <3> QED BY <2>1, <3>1, <3>2 DEF IInv, WindowInOrder, BucketType, BucketsOf
  <2>3. CASE HeightCapacity # 0
    <3>1. EvictsTo(replay, clock, replay')
      BY <1>2, <2>3 DEF PushMempoolBatch, HeightlessPushesTo
    <3> QED BY <2>1, <3>1, EvictIInv
  <2> QED BY <2>2, <2>3
<1>3. CASE ReadWindow
  BY <1>3, EvictIInv DEF ReadWindow, IInv
<1>4. CASE Tick
  BY <1>4 DEF Tick, IInv, WindowInOrder
<1>5. CASE UNCHANGED vars
  BY <1>5 DEF vars, IInv, WindowInOrder
<1> QED BY <1>1, <1>2, <1>3, <1>4, <1>5 DEF Next

\* In every reachable state the counters are exact, the running totals grow along the
\* history, the window is within its limits and its numbers increase.
THEOREM IInvHolds == Spec => []IInv
<1>1. Init => IInv
  BY InitIInv
<1>2. IInv /\ [Next]_vars => IInv'
  BY NextIInv
<1> QED BY <1>1, <1>2, PTL DEF Spec

-----------------------------------------------------------------------------
(***************************************************************************)
(* What follows for a reader of the code                                   *)
(***************************************************************************)
\* The window has its type: the deque is a list of buckets and every counter a
\* number, the counts of heights above 0.
THEOREM TypeCorrect == Spec => []TypeOK
<1>1. IInv => TypeOK
  <2> SUFFICES ASSUME IInv PROVE TypeOK
    OBVIOUS
  <2>1. Typed(replay, Items) /\ Sound(replay, Items)
    BY DEF IInv, Sound
  <2>2. \A h \in DOMAIN replay.heightCounts : replay.heightCounts[h] \in Nat \ {0}
    <3> TAKE h \in DOMAIN replay.heightCounts
    <3>1. replay.heightCounts[h] = Cardinality(At(replay, h))
      BY <2>1 DEF Sound, HeightCountsExact, At
    <3>2. At(replay, h) # {}
      BY <2>1 DEF Sound, HeightCountsExact, At
    <3>3. IsFiniteSet(At(replay, h)) /\ Cardinality(At(replay, h)) \in Nat
      BY <2>1, AtFinite
    <3> QED BY <3>1, <3>2, <3>3, FS_EmptySet
  <2>3. Len(replay.pushed) \in 0 .. Len(replay.pushed)
    BY <2>1, LenProperties DEF Typed
  <2>4. /\ EventsThrough(replay, Len(replay.pushed)) \in Nat
        /\ EventsThrough(replay, replay.popped) \in Nat
        /\ BytesThrough(replay, Len(replay.pushed)) \in Nat
        /\ BytesThrough(replay, replay.popped) \in Nat
    BY <2>1, <2>3, TotalsAreNat DEF Typed
  <2>5. /\ EventsThrough(replay, replay.popped) <= EventsThrough(replay, Len(replay.pushed))
        /\ BytesThrough(replay, replay.popped) <= BytesThrough(replay, Len(replay.pushed))
    BY <2>1, <2>3 DEF Sound, Typed, TotalsGrow
  <2>6. replay.eventCount \in Nat /\ replay.encodedBytes \in Nat
    BY <2>1, <2>4, <2>5 DEF Sound, TotalsExact
  <2> QED BY <2>1, <2>2, <2>6 DEF TypeOK, Typed, IInv, BucketType
<1> QED BY <1>1, IInvHolds, PTL

\* The counters never drift from the deque, however pushes and evictions follow each
\* other.
THEOREM CountersAreExact == Spec => []CountersExact
<1>1. IInv => CountersExact
  BY DEF IInv, Sound, CountersExact
<1> QED BY <1>1, IInvHolds, PTL

\* Every handler leaves the window within all of its limits.
THEOREM LimitsHold == Spec => []WithinLimits
<1>1. IInv => WithinLimits
  <2> SUFFICES ASSUME IInv PROVE WithinLimits
    OBVIOUS
  <2>1. DOMAIN replay.heightCounts = {replay.pushed[i].height : i \in Retained(replay)}
    BY DEF IInv, Sound, HeightCountsExact
  <2> QED BY <2>1 DEF IInv, Sound, TotalsExact, Limited, WithinLimits
<1> QED BY <1>1, IInvHolds, PTL

\* No batch makes the eviction loop run forever under the replay lock.
THEOREM EvictionTerminates == Spec => []EvictionEnds
<1>1. IInv => EvictionEnds
  <2> SUFFICES ASSUME IInv, NEW b \in NextBatches
               PROVE  \E k \in PushBack(replay, b, clock).popped
                                  .. Len(PushBack(replay, b, clock).pushed) :
                        ~MustEvict(PopThrough(PushBack(replay, b, clock), k), clock)
    BY DEF EvictionEnds
  <2> DEFINE r == PushBack(replay, b, clock)
  <2>1. Sound(r, Items)
    BY NextBatchesAre, PushSound DEF IInv
  <2> HIDE DEF r
  <2>2. Len(r.pushed) \in r.popped .. Len(r.pushed)
    BY <2>1, LenProperties DEF Sound, Typed
  <2>3. ~MustEvict(PopThrough(r, Len(r.pushed)), clock)
    BY <2>1, EmptiedIsLimited DEF IInv
  <2> QED BY <2>2, <2>3 DEF r
<1> QED BY <1>1, IInvHolds, PTL

\* A replay, and the watermark that ends it, are in publication order.
THEOREM WindowOrdered == Spec => []WindowInOrder
<1>1. IInv => WindowInOrder
  BY DEF IInv
<1> QED BY <1>1, IInvHolds, PTL
=============================================================================
