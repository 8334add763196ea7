---------------------------- MODULE ReplayBuffer ----------------------------
(***************************************************************************)
(* The bounded replay window of zakura-grpc-geyser, `struct ReplayBuffer`  *)
(* in server.rs, as operators on one record: what the replay mutex guards. *)
(*                                                                         *)
(* The VecDeque of buckets is a window on the history of everything ever   *)
(* pushed: `pushed` only grows, `popped` counts the buckets evict_front    *)
(* has removed, and the deque, front to back, is                           *)
(* pushed[popped+1], ..., pushed[Len(pushed)].  The counters the code      *)
(* maintains beside the deque (height_counts, event_count, encoded_bytes)  *)
(* are fields of their own and change only as the code changes them.       *)
(* A bucket also carries two running totals, of which the code has no      *)
(* counterpart: k iterations of the eviction loop subtract the difference  *)
(* of two of them.                                                         *)
(***************************************************************************)
EXTENDS Integers, Sequences, FiniteSets

CONSTANTS
    HeightCapacity,   \* ReplayLimits.height_capacity; 0 disables replay
    EventCapacity,    \* ReplayLimits.event_capacity
    ByteCapacity,     \* ReplayLimits.byte_capacity
    MaxAge,           \* ReplayLimits.max_age, or NoLimit
    NoLimit           \* Option::None of max_age

ASSUME LimitsAssumption ==
    /\ HeightCapacity \in Nat
    /\ EventCapacity \in Nat
    /\ ByteCapacity \in Nat
    /\ MaxAge # NoLimit => MaxAge \in Nat

(***************************************************************************)
(* A batch is what one source event contributes to the window: the updates *)
(* numbered first..last, all of one height, `bytes` long when encoded.     *)
(* Its item is what verify_checkpoint looks at.                            *)
(***************************************************************************)
Batch(height, item, first, last, bytes) ==
    [height |-> height, item |-> item, first |-> first, last |-> last, bytes |-> bytes]

Events(b) == b.last - b.first + 1

EmptyReplay ==
    [pushed |-> <<>>, popped |-> 0, heightCounts |-> [h \in {} |-> 0],
     eventCount |-> 0, encodedBytes |-> 0]

\* The positions of the deque, front to back.
Retained(r) == (r.popped + 1) .. Len(r.pushed)

Oldest(r) == r.pushed[r.popped + 1]
Newest(r) == r.pushed[Len(r.pushed)]

\* The events and bytes of the first k buckets ever pushed.
EventsThrough(r, k) == IF k = 0 THEN 0 ELSE r.pushed[k].eventsThrough
BytesThrough(r, k) == IF k = 0 THEN 0 ELSE r.pushed[k].bytesThrough

\* usize::saturating_sub
Minus(a, b) == IF a >= b THEN a - b ELSE 0

-----------------------------------------------------------------------------
(***************************************************************************)
(* Changing the window                                                     *)
(***************************************************************************)
Bucket(r, b, t) ==
    [height |-> b.height, item |-> b.item, first |-> b.first, last |-> b.last,
     bytes |-> b.bytes, insertedAt |-> t,
     eventsThrough |-> EventsThrough(r, Len(r.pushed)) + Events(b),
     bytesThrough |-> BytesThrough(r, Len(r.pushed)) + b.bytes]

\* push_batch_at up to its final evict: count the batch, then push_back.
PushBack(r, b, t) ==
    [pushed |-> Append(r.pushed, Bucket(r, b, t)),
     popped |-> r.popped,
     heightCounts |->
        [h \in DOMAIN r.heightCounts \union {b.height} |->
            (IF h \in DOMAIN r.heightCounts THEN r.heightCounts[h] ELSE 0)
            + (IF h = b.height THEN 1 ELSE 0)],
     eventCount |-> r.eventCount + Events(b),
     encodedBytes |-> r.encodedBytes + b.bytes]

\* How many of the buckets up to position k that are still retained have height h.
PoppedAt(r, k, h) == Cardinality({i \in Retained(r) : i <= k /\ r.pushed[i].height = h})

\* Mutants of PopThrough: the counts of heights keep entries that are down to 0;
\* the counts of heights are not touched.
PopKeepingZeroCounts(r, k) ==
    [r EXCEPT !.popped = k,
              !.heightCounts = [h \in DOMAIN @ |-> Minus(@[h], PoppedAt(r, k, h))],
              !.eventCount = Minus(@, EventsThrough(r, k) - EventsThrough(r, r.popped)),
              !.encodedBytes = Minus(@, BytesThrough(r, k) - BytesThrough(r, r.popped))]

PopKeepingHeights(r, k) ==
    [r EXCEPT !.popped = k,
              !.eventCount = Minus(@, EventsThrough(r, k) - EventsThrough(r, r.popped)),
              !.encodedBytes = Minus(@, BytesThrough(r, k) - BytesThrough(r, r.popped))]

\* evict_front until the buckets up to position k are gone.
PopThrough(r, k) ==
    [pushed |-> r.pushed,
     popped |-> k,
     heightCounts |->
        [h \in {g \in DOMAIN r.heightCounts : r.heightCounts[g] > PoppedAt(r, k, g)} |->
            r.heightCounts[h] - PoppedAt(r, k, h)],
     eventCount |-> Minus(r.eventCount, EventsThrough(r, k) - EventsThrough(r, r.popped)),
     encodedBytes |-> Minus(r.encodedBytes, BytesThrough(r, k) - BytesThrough(r, r.popped))]

\* The eviction loop finds a reason to pop the front: age, height, events or bytes.
MustEvict(r, t) ==
    \/ MaxAge # NoLimit /\ Retained(r) # {} /\ t - Oldest(r).insertedAt > MaxAge
    \/ Cardinality(DOMAIN r.heightCounts) > HeightCapacity
    \/ r.eventCount > EventCapacity
    \/ r.encodedBytes > ByteCapacity

\* evict: the loop leaves the window at the first k where no reason is left.
EvictsTo(r, t, r2) ==
    \E k \in r.popped .. Len(r.pushed) :
        /\ r2 = PopThrough(r, k)
        /\ ~MustEvict(r2, t)
        /\ \A j \in r.popped .. (k - 1) : MustEvict(PopThrough(r, j), t)

\* Mutant of PushesTo: evict before the batch is counted in, not after.
PushesAfterEvicting(r, b, t, r2) ==
    IF HeightCapacity = 0
    THEN r2 = r
    ELSE \E k \in r.popped .. Len(r.pushed) :
            /\ EvictsTo(r, t, PopThrough(r, k))
            /\ r2 = PushBack(PopThrough(r, k), b, t)

\* push_batch_at of a block-scoped batch, and of a batch without a block height.
PushesTo(r, b, t, r2) ==
    IF HeightCapacity = 0 THEN r2 = r ELSE EvictsTo(PushBack(r, b, t), t, r2)

HeightlessPushesTo(r, t, r2) ==
    IF HeightCapacity = 0 THEN r2 = r ELSE EvictsTo(r, t, r2)

\* What the fields are: the buckets of any list of such items, and what the counters
\* have to be, which the code keeps by increments and decrements.
BucketsOf(items) ==
    [height : Nat, item : items, first : Nat, last : Nat, bytes : Nat, insertedAt : Nat,
     eventsThrough : Nat, bytesThrough : Nat]

HeightCountsExact(r) ==
    /\ DOMAIN r.heightCounts = {r.pushed[i].height : i \in Retained(r)}
    /\ \A h \in DOMAIN r.heightCounts :
        r.heightCounts[h] = Cardinality({i \in Retained(r) : r.pushed[i].height = h})

TotalsExact(r) ==
    /\ r.eventCount = EventsThrough(r, Len(r.pushed)) - EventsThrough(r, r.popped)
    /\ r.encodedBytes = BytesThrough(r, Len(r.pushed)) - BytesThrough(r, r.popped)

-----------------------------------------------------------------------------
(***************************************************************************)
(* Reading the window                                                      *)
(***************************************************************************)
Least(S) == CHOOSE x \in S : \A y \in S : x <= y

FirstAvailableHeight(r) == Least(DOMAIN r.heightCounts)

\* Mutant of HeightAvailable: any height, as long as the window holds something.
AnyHeightAvailable(r, from) == DOMAIN r.heightCounts # {}

\* snapshot() does not refuse the height: it is not below the first available one
\* (of an empty window there is none).
HeightAvailable(r, from) == \E first \in DOMAIN r.heightCounts : first <= from

\* Mutant of Watermark: the first update of the newest bucket, not its last.
WatermarkOfFirst(r) == IF Retained(r) = {} THEN 0 ELSE Newest(r).first

\* The sequence up to which live updates repeat the window.
Watermark(r) == IF Retained(r) = {} THEN 0 ELSE Newest(r).last

\* Mutant of ReplayFrom: only the first buckets below the height are passed over.
ReplaySuffix(r, from) ==
    {i \in Retained(r) : \E j \in Retained(r) : j <= i /\ r.pushed[j].height >= from}

\* The buckets a replay from this height sends, by position: it sends them in the
\* order of the deque.
ReplayFrom(r, from) == {i \in Retained(r) : r.pushed[i].height >= from}

\* Mutants of VerifyCheckpoint: only the first bucket of the height is compared; the
\* hash is not compared.
VerifyFirstBucket(r, height, anchor) ==
    IF \E i \in Retained(r) :
        /\ r.pushed[i].height = height /\ r.pushed[i].item = anchor
        /\ \A j \in Retained(r) : r.pushed[j].height = height => i <= j
    THEN "ok"
    ELSE IF \E i \in Retained(r) : r.pushed[i].height = height
         THEN "failed_precondition"
         ELSE "out_of_range"

VerifyHeightOnly(r, height, anchor) ==
    IF \E i \in Retained(r) : r.pushed[i].height = height THEN "ok" ELSE "out_of_range"

\* verify_checkpoint: Ok, FAILED_PRECONDITION or OUT_OF_RANGE.
VerifyCheckpoint(r, height, anchor) ==
    IF \E i \in Retained(r) : r.pushed[i].height = height /\ r.pushed[i].item = anchor
    THEN "ok"
    ELSE IF \E i \in Retained(r) : r.pushed[i].height = height
         THEN "failed_precondition"
         ELSE "out_of_range"
=============================================================================
