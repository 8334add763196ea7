------------------------- MODULE ReplayBuffer_proofs -------------------------
(***************************************************************************)
(* Lemmas about the operators of the replay window: what a push and an     *)
(* eviction leave, whatever is in the window and whoever pushed it.        *)
(***************************************************************************)
EXTENDS ReplayBuffer, FiniteSetTheorems, SequenceTheorems, TLAPS

(***************************************************************************)
(* A sound window: its counters are exact, and the running totals grow     *)
(* along the history: without that, a saturating subtraction could stop    *)
(* short of what it should take away.  `items` are those of its buckets.   *)
(***************************************************************************)
Typed(r, items) ==
    /\ r.pushed \in Seq(BucketsOf(items))
    /\ r.popped \in 0 .. Len(r.pushed)

TotalsGrow(r) ==
    \A i, j \in 0 .. Len(r.pushed) :
        i <= j => /\ EventsThrough(r, i) <= EventsThrough(r, j)
                  /\ BytesThrough(r, i) <= BytesThrough(r, j)

Sound(r, items) == Typed(r, items) /\ HeightCountsExact(r) /\ TotalsExact(r) /\ TotalsGrow(r)

Limited(r) ==
    /\ Cardinality(DOMAIN r.heightCounts) <= HeightCapacity
    /\ r.eventCount <= EventCapacity
    /\ r.encodedBytes <= ByteCapacity

IsBatch(b, items) ==
    b \in [height : Nat, item : items, first : Nat, last : Nat, bytes : Nat]
    /\ b.first <= b.last

At(r, h) == {i \in Retained(r) : r.pushed[i].height = h}

\* A bucket that is within the limits by itself and not too old.
Fits(r, i, t) ==
    /\ EventsThrough(r, i) - EventsThrough(r, i - 1) <= EventCapacity
    /\ BytesThrough(r, i) - BytesThrough(r, i - 1) <= ByteCapacity
    /\ MaxAge # NoLimit => t - r.pushed[i].insertedAt <= MaxAge

-----------------------------------------------------------------------------
\* The running totals are numbers.
LEMMA TotalsAreNat ==
    ASSUME NEW items, NEW r, Typed(r, items), NEW k \in 0 .. Len(r.pushed)
    PROVE  EventsThrough(r, k) \in Nat /\ BytesThrough(r, k) \in Nat
<1>1. CASE k = 0
  BY <1>1 DEF EventsThrough, BytesThrough
<1>2. CASE k # 0
  <2>1. k \in 1 .. Len(r.pushed)
    BY <1>2, LenProperties DEF Typed
  <2>2. r.pushed[k] \in BucketsOf(items)
    BY <2>1, ElementOfSeq DEF Typed
  <2> QED BY <1>2, <2>2 DEF EventsThrough, BytesThrough, BucketsOf
<1> QED BY <1>1, <1>2

\* The retained buckets of one height are finitely many.
LEMMA AtFinite ==
    ASSUME NEW items, NEW r, Typed(r, items), NEW h
    PROVE  IsFiniteSet(At(r, h)) /\ Cardinality(At(r, h)) \in Nat
<1>1. r.popped + 1 \in Int /\ Len(r.pushed) \in Int
  BY LenProperties DEF Typed
<1>2. IsFiniteSet(Retained(r))
  BY <1>1, FS_Interval DEF Retained
<1>3. IsFiniteSet(At(r, h))
  BY <1>2, FS_Subset DEF At
<1> QED BY <1>3, FS_CardinalityType

\* Evicting a prefix of the deque keeps every counter exact.
LEMMA PopSound ==
    ASSUME NEW items, NEW r, Sound(r, items), NEW k \in r.popped .. Len(r.pushed)
    PROVE  Sound(PopThrough(r, k), items)
<1> DEFINE p == PopThrough(r, k)
<1>1. Len(r.pushed) \in Nat /\ r.popped \in Nat /\ r.popped <= k /\ k <= Len(r.pushed) /\ k \in Nat
  BY LenProperties DEF Sound, Typed
<1>2. p.pushed = r.pushed /\ p.popped = k
  BY DEF PopThrough
<1>3. Typed(p, items)
  BY <1>1, <1>2 DEF Sound, Typed
<1>4. \A h : At(p, h) = At(r, h) \ {i \in At(r, h) : i <= k}
  BY <1>1, <1>2 DEF At, Retained
<1>5. \A h : PoppedAt(r, k, h) = Cardinality({i \in At(r, h) : i <= k})
  <2> TAKE h
  <2>1. {i \in Retained(r) : i <= k /\ r.pushed[i].height = h} = {i \in At(r, h) : i <= k}
    BY DEF At
  <2> QED BY <2>1 DEF PoppedAt
<1>6. \A h : /\ Cardinality(At(p, h)) = Cardinality(At(r, h)) - PoppedAt(r, k, h)
             /\ Cardinality(At(r, h)) \in Nat /\ PoppedAt(r, k, h) \in Nat
             /\ Cardinality(At(p, h)) \in Nat
             /\ Cardinality(At(p, h)) = 0 <=> At(p, h) = {}
  <2> TAKE h
  <2> DEFINE gone == {i \in At(r, h) : i <= k}
  <2>1. IsFiniteSet(At(r, h)) /\ Cardinality(At(r, h)) \in Nat
    BY AtFinite DEF Sound
  <2>2. IsFiniteSet(gone) /\ Cardinality(gone) \in Nat
    BY <2>1, FS_Subset, FS_CardinalityType
  <2>3. At(r, h) \cap gone = gone
    OBVIOUS
  <2>4. Cardinality(At(r, h) \ gone) = Cardinality(At(r, h)) - Cardinality(gone)
    BY <2>1, <2>3, FS_Difference
  <2>5. IsFiniteSet(At(p, h)) /\ Cardinality(At(p, h)) \in Nat
    BY <1>3, AtFinite
  <2> HIDE DEF gone
  <2>6. Cardinality(At(p, h)) = 0 <=> At(p, h) = {}
    BY <2>5, FS_EmptySet
  <2> QED BY <2>1, <2>2, <2>4, <2>5, <2>6, <1>4, <1>5 DEF gone
<1>7. HeightCountsExact(p)
  <2>1. DOMAIN p.heightCounts =
          {g \in DOMAIN r.heightCounts : r.heightCounts[g] > PoppedAt(r, k, g)}
    BY DEF PopThrough
  <2>2. \A g \in DOMAIN r.heightCounts : r.heightCounts[g] = Cardinality(At(r, g))
    BY DEF Sound, HeightCountsExact, At
  <2>3. \A g : g \in DOMAIN r.heightCounts <=> At(r, g) # {}
    BY DEF Sound, HeightCountsExact, At
  <2>4. \A g : At(p, g) # {} => At(r, g) # {}
    BY <1>4
  <2>5. \A g : g \in DOMAIN p.heightCounts <=> At(p, g) # {}
    BY <2>1, <2>2, <2>3, <2>4, <1>6
  <2>6. DOMAIN p.heightCounts = {p.pushed[i].height : i \in Retained(p)}
    BY <2>5 DEF At
  <2>7. \A h \in DOMAIN p.heightCounts : p.heightCounts[h] = Cardinality(At(p, h))
    <3> TAKE h \in DOMAIN p.heightCounts
    <3>1. h \in DOMAIN r.heightCounts
      BY <2>1
    <3>2. p.heightCounts[h] = r.heightCounts[h] - PoppedAt(r, k, h)
      BY <2>1 DEF PopThrough
    <3> QED BY <3>1, <3>2, <2>2, <1>6
  <2> QED BY <2>6, <2>7 DEF HeightCountsExact, At
<1>8. \A i \in 0 .. Len(r.pushed) :
        EventsThrough(p, i) = EventsThrough(r, i) /\ BytesThrough(p, i) = BytesThrough(r, i)
  BY <1>2 DEF EventsThrough, BytesThrough
<1>9. TotalsGrow(p)
  BY <1>2, <1>8 DEF Sound, TotalsGrow
<1>10. TotalsExact(p)
  <2>1. /\ EventsThrough(r, r.popped) \in Nat /\ BytesThrough(r, r.popped) \in Nat
        /\ EventsThrough(r, k) \in Nat /\ BytesThrough(r, k) \in Nat
        /\ EventsThrough(r, Len(r.pushed)) \in Nat /\ BytesThrough(r, Len(r.pushed)) \in Nat
    BY <1>1, TotalsAreNat DEF Sound
  <2>2. EventsThrough(r, k) <= EventsThrough(r, Len(r.pushed))
        /\ BytesThrough(r, k) <= BytesThrough(r, Len(r.pushed))
    BY <1>1 DEF Sound, TotalsGrow
  <2>3. r.eventCount = EventsThrough(r, Len(r.pushed)) - EventsThrough(r, r.popped)
        /\ r.encodedBytes = BytesThrough(r, Len(r.pushed)) - BytesThrough(r, r.popped)
    BY DEF Sound, TotalsExact
  <2>4. p.eventCount = Minus(r.eventCount, EventsThrough(r, k) - EventsThrough(r, r.popped))
        /\ p.encodedBytes = Minus(r.encodedBytes, BytesThrough(r, k) - BytesThrough(r, r.popped))
    BY DEF PopThrough
  <2>5. p.eventCount = EventsThrough(r, Len(r.pushed)) - EventsThrough(r, k)
        /\ p.encodedBytes = BytesThrough(r, Len(r.pushed)) - BytesThrough(r, k)
    BY <2>1, <2>2, <2>3, <2>4 DEF Minus
  <2> QED BY <2>5, <1>1, <1>2, <1>8 DEF TotalsExact
<1> QED BY <1>3, <1>7, <1>9, <1>10 DEF Sound

\* Counting a batch in and pushing its bucket keeps every counter exact.
LEMMA PushSound ==
    ASSUME NEW items, NEW r, Sound(r, items), NEW b, IsBatch(b, items), b.item \in items, NEW t \in Nat
    PROVE  Sound(PushBack(r, b, t), items)
<1> DEFINE p == PushBack(r, b, t)
           n == Len(r.pushed)
           new == Bucket(r, b, t)
<1>1. n \in Nat /\ r.popped \in 0 .. n /\ r.pushed \in Seq(BucketsOf(items))
  BY LenProperties DEF Sound, Typed
<1>2. Events(b) \in Nat /\ b.bytes \in Nat /\ b.height \in Nat
  BY DEF IsBatch, Events
<1>3. EventsThrough(r, n) \in Nat /\ BytesThrough(r, n) \in Nat
  BY <1>1, TotalsAreNat DEF Sound
<1>4. new \in BucketsOf(items)
  BY <1>2, <1>3 DEF Bucket, BucketsOf, IsBatch
<1>5. p.pushed = Append(r.pushed, new) /\ p.popped = r.popped
  BY DEF PushBack
<1>6. /\ p.pushed \in Seq(BucketsOf(items)) /\ Len(p.pushed) = n + 1
      /\ \A i \in 1 .. n : p.pushed[i] = r.pushed[i]
      /\ p.pushed[n + 1] = new
  BY <1>1, <1>4, <1>5, AppendProperties
<1>7. Typed(p, items)
  BY <1>1, <1>5, <1>6 DEF Typed
<1>8. Retained(p) = Retained(r) \union {n + 1} /\ n + 1 \notin Retained(r)
      /\ Retained(r) \subseteq 1 .. n
  BY <1>1, <1>5, <1>6 DEF Retained
<1>9. new.height = b.height /\ p.pushed[n + 1].height = b.height
  BY <1>6 DEF Bucket
<1> HIDE DEF new, p
<1>10. \A h : At(p, h) = At(r, h) \union (IF h = b.height THEN {n + 1} ELSE {})
  BY <1>6, <1>8, <1>9 DEF At
<1>11. \A h : /\ Cardinality(At(r, h)) \in Nat
              /\ Cardinality(At(r, h)) = 0 <=> At(r, h) = {}
              /\ Cardinality(At(p, h)) =
                   Cardinality(At(r, h)) + (IF h = b.height THEN 1 ELSE 0)
  <2> TAKE h
  <2>1. IsFiniteSet(At(r, h)) /\ Cardinality(At(r, h)) \in Nat
    BY AtFinite DEF Sound
  <2>2. Cardinality(At(r, h)) = 0 <=> At(r, h) = {}
    BY <2>1, FS_EmptySet
  <2>3. n + 1 \notin At(r, h)
    BY <1>8 DEF At
  <2>4. Cardinality(At(r, h) \union {n + 1}) = Cardinality(At(r, h)) + 1
    BY <2>1, <2>3, FS_AddElement
  <2>5. CASE h = b.height
    BY <2>1, <2>2, <2>4, <2>5, <1>10
  <2>6. CASE h # b.height
    <3>1. At(p, h) = At(r, h)
      BY <2>6, <1>10
    <3> QED BY <2>1, <2>2, <2>6, <3>1
  <2> QED BY <2>5, <2>6
<1>12. HeightCountsExact(p)
  <2>1. DOMAIN p.heightCounts = DOMAIN r.heightCounts \union {b.height}
    BY DEF p, PushBack
  <2>2. \A h \in DOMAIN r.heightCounts : r.heightCounts[h] = Cardinality(At(r, h))
    BY DEF Sound, HeightCountsExact, At
  <2>3. \A h : h \in DOMAIN r.heightCounts <=> At(r, h) # {}
    BY DEF Sound, HeightCountsExact, At
  <2>4. \A h : h \in DOMAIN p.heightCounts <=> At(p, h) # {}
    BY <2>1, <2>3, <1>10
  <2>5. DOMAIN p.heightCounts = {p.pushed[i].height : i \in Retained(p)}
    BY <2>4 DEF At
  <2>6. \A h \in DOMAIN p.heightCounts : p.heightCounts[h] = Cardinality(At(p, h))
    <3> TAKE h \in DOMAIN p.heightCounts
    <3>1. p.heightCounts[h] =
            (IF h \in DOMAIN r.heightCounts THEN r.heightCounts[h] ELSE 0)
            + (IF h = b.height THEN 1 ELSE 0)
      BY <2>1 DEF p, PushBack
    <3>2. (IF h \in DOMAIN r.heightCounts THEN r.heightCounts[h] ELSE 0)
            = Cardinality(At(r, h))
      BY <2>2, <2>3, <1>11
    <3> QED BY <3>1, <3>2, <1>11
  <2> QED BY <2>5, <2>6 DEF HeightCountsExact, At
<1>13. \A i \in 0 .. n :
        /\ EventsThrough(p, i) = EventsThrough(r, i) /\ EventsThrough(r, i) \in Nat
        /\ BytesThrough(p, i) = BytesThrough(r, i) /\ BytesThrough(r, i) \in Nat
  <2> TAKE i \in 0 .. n
  <2>1. EventsThrough(r, i) \in Nat /\ BytesThrough(r, i) \in Nat
    BY TotalsAreNat DEF Sound
  <2>2. i = 0 \/ i \in 1 .. n
    BY <1>1
  <2> QED BY <2>1, <2>2, <1>6 DEF EventsThrough, BytesThrough
<1>14. /\ EventsThrough(p, n + 1) = EventsThrough(r, n) + Events(b)
       /\ BytesThrough(p, n + 1) = BytesThrough(r, n) + b.bytes
  BY <1>1, <1>6 DEF EventsThrough, BytesThrough, Bucket, new
<1>15. TotalsGrow(p)
  <2> SUFFICES ASSUME NEW i \in 0 .. (n + 1), NEW j \in 0 .. (n + 1), i <= j
               PROVE  /\ EventsThrough(p, i) <= EventsThrough(p, j)
                      /\ BytesThrough(p, i) <= BytesThrough(p, j)
    BY <1>6 DEF TotalsGrow
  <2>1. CASE j \in 0 .. n
    <3>1. i \in 0 .. n
      BY <1>1, <2>1
    <3> QED BY <2>1, <3>1, <1>13 DEF Sound, TotalsGrow
  <2>2. CASE j = n + 1 /\ i \in 0 .. n
    <3>1. EventsThrough(r, i) <= EventsThrough(r, n) /\ BytesThrough(r, i) <= BytesThrough(r, n)
      BY <2>2, <1>1 DEF Sound, TotalsGrow
    <3> QED BY <3>1, <2>2, <1>2, <1>3, <1>13, <1>14
  <2>3. CASE j = n + 1 /\ i = n + 1
    BY <2>3, <1>2, <1>3, <1>14
  <2> QED BY <1>1, <2>1, <2>2, <2>3
<1>16. TotalsExact(p)
  <2>1. p.eventCount = r.eventCount + Events(b) /\ p.encodedBytes = r.encodedBytes + b.bytes
    BY DEF p, PushBack
  <2>2. r.eventCount = EventsThrough(r, n) - EventsThrough(r, r.popped)
        /\ r.encodedBytes = BytesThrough(r, n) - BytesThrough(r, r.popped)
    BY DEF Sound, TotalsExact
  <2>3. EventsThrough(p, p.popped) = EventsThrough(r, r.popped)
        /\ BytesThrough(p, p.popped) = BytesThrough(r, r.popped)
        /\ EventsThrough(r, r.popped) \in Nat /\ BytesThrough(r, r.popped) \in Nat
    BY <1>1, <1>5, <1>13
  <2>4. p.eventCount = EventsThrough(p, n + 1) - EventsThrough(p, p.popped)
    BY <2>1, <2>2, <2>3, <1>2, <1>3, <1>14
  <2>5. p.encodedBytes = BytesThrough(p, n + 1) - BytesThrough(p, p.popped)
    BY <2>1, <2>2, <2>3, <1>2, <1>3, <1>14
  <2> QED BY <2>4, <2>5, <1>6 DEF TotalsExact
<1> QED BY <1>7, <1>12, <1>15, <1>16 DEF Sound, p

\* Popping everything leaves the loop no reason to go on: with exact counters, an
\* empty deque has no heights, no events and no bytes.
LEMMA EmptiedIsLimited ==
    ASSUME NEW items, NEW r, Sound(r, items), NEW t \in Nat
    PROVE  ~MustEvict(PopThrough(r, Len(r.pushed)), t)
<1> DEFINE n == Len(r.pushed)
           p == PopThrough(r, n)
<1>1. n \in Nat /\ n \in r.popped .. n
  BY LenProperties DEF Sound, Typed
<1>2. Sound(p, items)
  BY <1>1, PopSound
<1>3. p.pushed = r.pushed /\ p.popped = n
  BY DEF PopThrough
<1>4. Retained(p) = {}
  BY <1>1, <1>3 DEF Retained
<1> HIDE DEF p
<1>5. DOMAIN p.heightCounts = {}
  BY <1>2, <1>4 DEF Sound, HeightCountsExact
<1>6. EventsThrough(p, n) \in Nat /\ BytesThrough(p, n) \in Nat
  BY <1>1, <1>2, <1>3, TotalsAreNat DEF Sound
<1>7. p.eventCount = 0 /\ p.encodedBytes = 0
  BY <1>2, <1>3, <1>6 DEF Sound, TotalsExact
<1>8. Cardinality(DOMAIN p.heightCounts) = 0
  BY <1>5, FS_EmptySet
<1> QED BY <1>4, <1>7, <1>8, LimitsAssumption DEF MustEvict, p

\* Whatever evict leaves is sound, within the limits, and a suffix of what there was.
LEMMA EvictSound ==
    ASSUME NEW items, NEW r, Sound(r, items), NEW t, NEW r2, EvictsTo(r, t, r2)
    PROVE  /\ Sound(r2, items) /\ Limited(r2)
           /\ r2.pushed = r.pushed /\ r2.popped \in r.popped .. Len(r.pushed)
<1>1. PICK k \in r.popped .. Len(r.pushed) : r2 = PopThrough(r, k) /\ ~MustEvict(r2, t)
  BY DEF EvictsTo
<1>2. Sound(r2, items)
  BY <1>1, PopSound
<1>3. DOMAIN r2.heightCounts = {r2.pushed[i].height : i \in Retained(r2)}
  BY <1>2 DEF Sound, HeightCountsExact
<1>4. Retained(r2) \subseteq Int /\ IsFiniteSet(Retained(r2))
  <2>1. r2.popped + 1 \in Int /\ Len(r2.pushed) \in Int
    BY <1>2, LenProperties DEF Sound, Typed
  <2> QED BY <2>1, FS_Interval DEF Retained
<1>5. IsFiniteSet(DOMAIN r2.heightCounts)
  <2> DEFINE heights == {r2.pushed[i].height : i \in Retained(r2)}
             f == [i \in Retained(r2) |-> r2.pushed[i].height]
  <2>1. f \in Surjection(Retained(r2), heights)
    BY DEF Surjection
  <2>2. IsFiniteSet(heights)
    BY <2>1, <1>4, FS_Surjection
  <2> QED BY <2>2, <1>3
<1>6. Cardinality(DOMAIN r2.heightCounts) \in Nat
  BY <1>5, FS_CardinalityType
<1>7. Len(r2.pushed) \in 0 .. Len(r2.pushed) /\ r2.popped \in 0 .. Len(r2.pushed)
  BY <1>2, LenProperties DEF Sound, Typed
<1>8. /\ EventsThrough(r2, Len(r2.pushed)) \in Nat /\ EventsThrough(r2, r2.popped) \in Nat
      /\ BytesThrough(r2, Len(r2.pushed)) \in Nat /\ BytesThrough(r2, r2.popped) \in Nat
  BY <1>2, <1>7, TotalsAreNat DEF Sound
<1>9. r2.eventCount \in Int /\ r2.encodedBytes \in Int
  BY <1>2, <1>8 DEF Sound, TotalsExact
<1>10. Limited(r2)
  BY <1>1, <1>6, <1>9, LimitsAssumption DEF MustEvict, Limited
<1> QED BY <1>1, <1>2, <1>10 DEF PopThrough

\* The eviction loop stops at the latest when the newest bucket is the only one left,
\* if that one fits: a batch is not evicted by its own push.
LEMMA NewestKept ==
    ASSUME NEW items, NEW r, Sound(r, items), NEW t \in Nat, NEW r2, EvictsTo(r, t, r2),
           HeightCapacity # 0, r.popped < Len(r.pushed), Fits(r, Len(r.pushed), t)
    PROVE  r2.popped < Len(r2.pushed)
<1> DEFINE n == Len(r.pushed)
           p == PopThrough(r, n - 1)
<1>1. n \in Nat /\ r.popped \in Nat /\ n - 1 \in r.popped .. n /\ n - 1 \in Nat
  BY LenProperties DEF Sound, Typed
<1>2. Sound(p, items) /\ p.pushed = r.pushed /\ p.popped = n - 1
  BY <1>1, PopSound DEF PopThrough
<1>3. ~MustEvict(p, t)
  <2> HIDE DEF p
  <2>1. Retained(p) = {n}
    BY <1>1, <1>2 DEF Retained
  <2>2. DOMAIN p.heightCounts = {p.pushed[n].height}
    BY <1>2, <2>1 DEF Sound, HeightCountsExact
  <2>3. Cardinality(DOMAIN p.heightCounts) = 1
    BY <2>2, FS_Singleton
  <2>4. /\ EventsThrough(p, n) = EventsThrough(r, n) /\ EventsThrough(p, n - 1) = EventsThrough(r, n - 1)
        /\ BytesThrough(p, n) = BytesThrough(r, n) /\ BytesThrough(p, n - 1) = BytesThrough(r, n - 1)
    BY <1>2 DEF EventsThrough, BytesThrough
  <2>5. /\ EventsThrough(r, n) \in Nat /\ EventsThrough(r, n - 1) \in Nat
        /\ BytesThrough(r, n) \in Nat /\ BytesThrough(r, n - 1) \in Nat
    BY <1>1, TotalsAreNat DEF Sound
  <2>6. p.eventCount <= EventCapacity /\ p.encodedBytes <= ByteCapacity
        /\ p.eventCount \in Int /\ p.encodedBytes \in Int
    BY <1>2, <2>4, <2>5 DEF Sound, TotalsExact, Fits
  <2>7. ~(p.eventCount > EventCapacity) /\ ~(p.encodedBytes > ByteCapacity)
    BY <2>6, LimitsAssumption
  <2>8. Oldest(p) = r.pushed[n]
    BY <1>1, <1>2 DEF Oldest
  <2>9. ~(MaxAge # NoLimit /\ t - Oldest(p).insertedAt > MaxAge)
    <3>1. CASE MaxAge = NoLimit
      BY <3>1
    <3>2. CASE MaxAge # NoLimit
      <4>1. r.pushed[n] \in BucketsOf(items)
        BY <1>1, ElementOfSeq DEF Sound, Typed
      <4>2. r.pushed[n].insertedAt \in Nat
        BY <4>1 DEF BucketsOf
      <4> QED BY <3>2, <4>2, <2>8, LimitsAssumption DEF Fits
    <3> QED BY <3>1, <3>2
  <2> QED BY <2>3, <2>7, <2>9, LimitsAssumption DEF MustEvict
<1>4. PICK k \in r.popped .. n :
        /\ r2 = PopThrough(r, k)
        /\ \A j \in r.popped .. (k - 1) : MustEvict(PopThrough(r, j), t)
  BY DEF EvictsTo
<1>5. k # n
  <2> SUFFICES ASSUME k = n PROVE FALSE
    OBVIOUS
  <2>1. n - 1 \in r.popped .. (k - 1)
    BY <1>1
  <2> QED BY <2>1, <1>3, <1>4
<1> QED BY <1>1, <1>4, <1>5 DEF PopThrough

\* push_batch of a block-scoped batch appends its bucket and leaves a sound window.
LEMMA PushesSound ==
    ASSUME NEW items, NEW r, Sound(r, items), NEW b, IsBatch(b, items), NEW t \in Nat,
           NEW r2, PushesTo(r, b, t, r2), HeightCapacity # 0
    PROVE  /\ Sound(r2, items) /\ Limited(r2)
           /\ Len(r.pushed) \in Nat /\ Len(r2.pushed) = Len(r.pushed) + 1
           /\ \A i \in 1 .. Len(r.pushed) : r2.pushed[i] = r.pushed[i]
           /\ r2.pushed[Len(r.pushed) + 1] = Bucket(r, b, t)
           /\ r2.popped \in r.popped .. Len(r2.pushed)
<1> DEFINE p == PushBack(r, b, t)
<1>1. Sound(p, items)
  BY PushSound DEF IsBatch
<1>2. EvictsTo(p, t, r2)
  BY DEF PushesTo
<1>3. /\ Sound(r2, items) /\ Limited(r2)
      /\ r2.pushed = p.pushed /\ r2.popped \in p.popped .. Len(p.pushed)
  BY <1>1, <1>2, EvictSound
<1>4. p.pushed = Append(r.pushed, Bucket(r, b, t)) /\ p.popped = r.popped
  BY DEF PushBack
<1>5. r.pushed \in Seq(BucketsOf(items)) /\ Len(r.pushed) \in Nat
  BY LenProperties DEF Sound, Typed
<1> HIDE DEF p
<1> QED BY <1>3, <1>4, <1>5

\* The eviction loop ends: of the numbers of pops after which no limit is exceeded, all
\* pops being one, there is a least.
LEMMA EvictStops ==
    ASSUME NEW items, NEW r, Sound(r, items), NEW t \in Nat
    PROVE  \E r2 : EvictsTo(r, t, r2)
<1> DEFINE n == Len(r.pushed)
           enough == {k \in r.popped .. n : ~MustEvict(PopThrough(r, k), t)}
<1>1. n \in Nat /\ r.popped \in 0 .. n
  BY LenProperties DEF Sound, Typed
<1>2. n \in enough
  BY <1>1, EmptiedIsLimited
<1>3. enough \subseteq Nat /\ enough # {}
  BY <1>1, <1>2
<1>4. PICK k \in enough : \A j \in enough : ~(<<j, k>> \in OpToRel(<, Nat))
  BY <1>3, NatLessThanWellFounded, WFMin
<1>5. \A j \in enough : ~(j < k)
  BY <1>3, <1>4 DEF OpToRel
<1>6. \A j \in r.popped .. (k - 1) : MustEvict(PopThrough(r, j), t)
  <2> TAKE j \in r.popped .. (k - 1)
  <2>1. j \in r.popped .. n /\ j < k
    BY <1>1, <1>3
  <2> QED BY <1>5, <2>1
<1>7. EvictsTo(r, t, PopThrough(r, k))
  BY <1>6 DEF EvictsTo
<1> QED BY <1>7

\* The window of ReplayBuffer::new.
LEMMA EmptySound ==
    ASSUME NEW items PROVE Sound(EmptyReplay, items) /\ Limited(EmptyReplay)
<1> DEFINE r == EmptyReplay
<1>1. /\ r.pushed = <<>> /\ r.popped = 0 /\ DOMAIN r.heightCounts = {}
      /\ r.eventCount = 0 /\ r.encodedBytes = 0
  BY DEF EmptyReplay
<1> HIDE DEF r
<1>2. Len(r.pushed) = 0 /\ r.pushed \in Seq(BucketsOf(items))
  BY <1>1
<1>3. Retained(r) = {}
  BY <1>1, <1>2 DEF Retained
<1>4. Sound(r, items)
  BY <1>1, <1>2, <1>3
  DEF Sound, Typed, HeightCountsExact, TotalsExact, TotalsGrow, EventsThrough, BytesThrough
<1>5. Limited(r)
  BY <1>1, FS_EmptySet, LimitsAssumption DEF Limited
<1> QED BY <1>4, <1>5 DEF r
=============================================================================
