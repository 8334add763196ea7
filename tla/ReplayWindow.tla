---------------------------- MODULE ReplayWindow ----------------------------
(***************************************************************************)
(* The replay window on its own: batches of any height in any order, the   *)
(* clock, and the reads that evict what has grown old.  What holds here    *)
(* holds whatever order of heights the node produces (ReplayService adds   *)
(* the order it does produce).                                             *)
(***************************************************************************)
EXTENDS ReplayBuffer

CONSTANTS
    Heights,      \* block heights of the batches
    Items,        \* what a batch holds, as far as verify_checkpoint tells
    BatchSizes,   \* numbers of updates in a batch
    ByteSizes,    \* encoded sizes of a batch
    MaxSequence,  \* bound: updates numbered
    MaxTime       \* bound: the clock

ASSUME BatchAssumption ==
    /\ Heights \subseteq Nat
    /\ BatchSizes \subseteq Nat \ {0}
    /\ ByteSizes \subseteq Nat
    /\ MaxSequence \in Nat
    /\ MaxTime \in Nat

VARIABLES
    replay,       \* the record behind the replay mutex
    clock,        \* Instant::now()
    sequence      \* next_sequence of the plugin: the last number given to an update

vars == <<replay, clock, sequence>>

Init ==
    /\ replay = EmptyReplay
    /\ clock = 0
    /\ sequence = 0

\* Mutant of NextBatches: the number is taken before next_sequence is advanced.
BatchesFromLastNumber ==
    {Batch(h, item, sequence, sequence + n, bytes) :
        h \in Heights, item \in Items, n \in BatchSizes, bytes \in ByteSizes}

\* The batches the plugin may push next: on_event numbers the updates of one
\* event from next_sequence on.
NextBatches ==
    {Batch(h, item, sequence + 1, sequence + n, bytes) :
        h \in Heights, item \in Items, n \in BatchSizes, bytes \in ByteSizes}

\* push_batch of a block-scoped batch.
PushBlockBatch ==
    /\ \E b \in NextBatches :
        /\ b.last <= MaxSequence
        /\ sequence' = b.last
        /\ PushesTo(replay, b, clock, replay')
    /\ UNCHANGED clock

\* push_batch of a mempool batch, which only evicts.
PushMempoolBatch ==
    /\ sequence < MaxSequence
    /\ HeightlessPushesTo(replay, clock, replay')
    /\ sequence' = sequence + 1
    /\ UNCHANGED clock

\* The eviction both readers of the window begin with: snapshot and replay_info.
ReadWindow ==
    /\ EvictsTo(replay, clock, replay')
    /\ UNCHANGED <<clock, sequence>>

Tick ==
    /\ clock < MaxTime
    /\ clock' = clock + 1
    /\ UNCHANGED <<replay, sequence>>

Next == ReadWindow \/ Tick \/ PushMempoolBatch \/ PushBlockBatch

Spec == Init /\ [][Next]_vars

-----------------------------------------------------------------------------
(***************************************************************************)
(* Properties                                                              *)
(***************************************************************************)
BucketType == BucketsOf(Items)

\* The deque is a list of buckets, the counters are counters, and the counts
\* of heights are positive (a height whose count falls to 0 is removed).
TypeOK ==
    /\ replay.pushed \in Seq(BucketType)
    /\ replay.popped \in 0 .. Len(replay.pushed)
    /\ \A h \in DOMAIN replay.heightCounts : replay.heightCounts[h] \in Nat \ {0}
    /\ replay.eventCount \in Nat
    /\ replay.encodedBytes \in Nat
    /\ clock \in Nat
    /\ sequence \in Nat

\* The counters kept beside the deque equal what the deque holds, whatever was
\* pushed and evicted: height_counts has exactly the retained heights, each with
\* the number of its buckets, and event_count and encoded_bytes are the totals of
\* the retained buckets.  (server.rs adds to them in push_batch_at and subtracts
\* in evict_front, never recomputing them.)
CountersExact == HeightCountsExact(replay) /\ TotalsExact(replay)

\* Between two handlers the window is inside all its limits: distinct heights,
\* updates and bytes.
WithinLimits ==
    /\ Cardinality({replay.pushed[i].height : i \in Retained(replay)}) <= HeightCapacity
    /\ EventsThrough(replay, Len(replay.pushed)) - EventsThrough(replay, replay.popped)
         <= EventCapacity
    /\ BytesThrough(replay, Len(replay.pushed)) - BytesThrough(replay, replay.popped)
         <= ByteCapacity

\* The eviction loop ends, whatever is pushed next: `loop` in evict pops until no
\* limit is exceeded, and goes on popping an empty deque if a counter has not
\* come down to 0 with it.
EvictionEnds ==
    \A b \in NextBatches :
        LET r == PushBack(replay, b, clock) IN
        \E k \in r.popped .. Len(r.pushed) : ~MustEvict(PopThrough(r, k), clock)

\* The updates of the window are in the order they were numbered, no number
\* twice, none above the last one given: what a replay sends, and the watermark
\* that ends it, are in publication order.
WindowInOrder ==
    /\ \A i \in 1 .. Len(replay.pushed) :
        replay.pushed[i].first <= replay.pushed[i].last /\ replay.pushed[i].last <= sequence
    /\ \A i, j \in 1 .. Len(replay.pushed) :
        i < j => replay.pushed[i].last < replay.pushed[j].first
=============================================================================
