------------------------- MODULE ReplayService_proofs -------------------------
(***************************************************************************)
(* Proofs about the replay window under a node's events, for every window, *)
(* finality depth and length of the chain: what a resume is promised.      *)
(***************************************************************************)
EXTENDS ReplayService, ReplayBuffer_proofs

Items == EventItems

Final(b) == b.item.kind = "finalized"

(***************************************************************************)
(* The node's order of events: it finalizes below its tip only, and resets *)
(* above the finalized height only.                                        *)
(***************************************************************************)
NodeInv ==
    /\ Tip \in 0 .. MaxHeight
    /\ best \in [0 .. Tip -> Forks]
    /\ finalized \in 0 .. Tip
    /\ branch \in [from : 0 .. Tip, to : 0 .. Tip]
    /\ next \in {"accept", "grow", "branch", "reset", "finalize"}
    /\ next = "grow" => Tip < MaxHeight
    /\ next = "finalize" => finalized < Tip
    /\ next \in {"branch", "reset"} => finalized < branch.from /\ branch.from <= branch.to
    /\ next = "branch" => branch.to < Tip

(***************************************************************************)
(* What the history of the window owes to that order: a finalized bucket   *)
(* is of the best chain and lower than every later one.                    *)
(***************************************************************************)
OrderInv ==
    /\ Sound(replay, Items)
    /\ Len(replay.pushed) <= MaxEvents
    /\ \A i \in 1 .. Len(replay.pushed) : replay.pushed[i].height \in 1 .. MaxHeight
    /\ \A i \in 1 .. Len(replay.pushed) : Final(replay.pushed[i]) =>
        /\ replay.pushed[i].height \in 1 .. finalized
        /\ replay.pushed[i].item.fork = best[replay.pushed[i].height]
        /\ \A j \in (i + 1) .. Len(replay.pushed) :
            replay.pushed[j].height > replay.pushed[i].height

Running == NodeInv /\ OrderInv /\ clock \in 0 .. MaxTime

(***************************************************************************)
(* A window that was there from the first event on lacks no finalized      *)
(* height (with replay disabled there are no buckets at all).              *)
(***************************************************************************)
WholeInv ==
    IF HeightCapacity = 0 THEN replay.pushed = <<>>
    ELSE \A h \in 1 .. finalized : \E i \in 1 .. Len(replay.pushed) :
            replay.pushed[i].height = h /\ replay.pushed[i].item = Item("finalized", best[h])

\* An event adds to the history, and finalizes above all that was finalized.
HistoryGrows ==
    /\ finalized' >= finalized
    /\ Len(replay'.pushed) >= Len(replay.pushed)
    /\ \A i \in 1 .. Len(replay.pushed) : replay'.pushed[i] = replay.pushed[i]
    /\ \A i \in (Len(replay.pushed) + 1) .. Len(replay'.pushed) :
        Final(replay'.pushed[i]) => replay'.pushed[i].height > finalized

EventLeaves ==
    /\ HistoryGrows /\ (WholeInv => WholeInv')
    /\ clock' \in 0 .. MaxTime /\ reply' = NoReply

ReplyInv == RepliesFromWindow /\ ResumeComplete /\ NoFalseMismatch /\ NeverJoinsAnotherChain

IInv ==
    /\ Running
    /\ WholeInv
    /\ ReplyInv
    /\ reply.op \in {"none", "from_height", "resume", "replay_info"}

-----------------------------------------------------------------------------
\* The tip is the last height of the best chain, now and after the next event.
LEMMA LastHeight ==
    ASSUME NEW n \in Nat PROVE (CHOOSE h \in 0 .. n : \A g \in 0 .. n : g <= h) = n
<1>1. n \in 0 .. n /\ \A g \in 0 .. n : g <= n
  OBVIOUS
<1>2. \A x \in 0 .. n : (\A g \in 0 .. n : g <= x) => x = n
  BY <1>1
<1> QED BY <1>1, <1>2

\* What kinds of items there are.
LEMMA ItemKinds ==
    /\ \A kind \in {"accepted", "best", "finalized"}, fork \in Forks : Item(kind, fork) \in Items
    /\ \A from \in 1 .. MaxHeight : Reset(from) \in Items
    /\ \A kind, fork : Item(kind, fork).kind = kind /\ Item(kind, fork).fork = fork
    /\ \A from : Reset(from).kind = "best"
<1>0. Items = {Item(kind, fork) : kind \in {"accepted", "best", "finalized"}, fork \in Forks}
              \union {Reset(from) : from \in 1 .. MaxHeight}
  BY DEF Items, EventItems
<1>1. \A kind \in {"accepted", "best", "finalized"}, fork \in Forks : Item(kind, fork) \in Items
  <2> TAKE kind \in {"accepted", "best", "finalized"}, fork \in Forks
  <2>1. Item(kind, fork) \in {Item(k, f) : k \in {"accepted", "best", "finalized"}, f \in Forks}
    OBVIOUS
  <2> QED BY <1>0, <2>1
<1>2. \A from \in 1 .. MaxHeight : Reset(from) \in Items
  <2> TAKE from \in 1 .. MaxHeight
  <2>1. Reset(from) \in {Reset(f) : f \in 1 .. MaxHeight}
    OBVIOUS
  <2> QED BY <1>0, <2>1
<1>3. \A kind, fork : Item(kind, fork).kind = kind /\ Item(kind, fork).fork = fork
  BY DEF Item
<1>4. \A from : Reset(from).kind = "best"
  BY DEF Reset
<1> QED BY <1>1, <1>2, <1>3, <1>4

\* A source event appends one bucket of its height and item, or nothing (replay
\* disabled); either way the window stays sound, and the last answer is history.
LEMMA PublishKeeps ==
    ASSUME Running, NEW height \in 1 .. MaxHeight, NEW item \in Items, Publish(height, item)
    PROVE  LET n == Len(replay.pushed) IN
           /\ Sound(replay', Items)
           /\ clock' = clock /\ reply' = NoReply
           /\ n \in Nat
           /\ IF HeightCapacity = 0 THEN replay' = replay
              ELSE /\ Len(replay'.pushed) = n + 1 /\ n < MaxEvents
                   /\ \A i \in 1 .. n : replay'.pushed[i] = replay.pushed[i]
                   /\ replay'.pushed[n + 1].height = height
                   /\ replay'.pushed[n + 1].item = item
<1> DEFINE n == Len(replay.pushed)
           b == Batch(height, item, n + 1, n + 1, 1)
<1>1. n \in Nat /\ n < MaxEvents /\ Sound(replay, Items) /\ clock \in Nat
  BY LenProperties, ChainAssumption DEF Running, OrderInv, Sound, Typed, Publish
<1>2. PushesTo(replay, b, clock, replay') /\ clock' = clock /\ reply' = NoReply
  BY DEF Publish
<1>3. IsBatch(b, Items)
  BY <1>1, ChainAssumption DEF IsBatch, Batch
<1>4. CASE HeightCapacity = 0
  BY <1>1, <1>2, <1>4 DEF PushesTo
<1>5. CASE HeightCapacity # 0
  <2>1. /\ Sound(replay', Items)
        /\ Len(replay'.pushed) = n + 1
        /\ \A i \in 1 .. n : replay'.pushed[i] = replay.pushed[i]
        /\ replay'.pushed[n + 1] = Bucket(replay, b, clock)
    BY <1>1, <1>2, <1>3, <1>5, PushesSound
  <2>2. Bucket(replay, b, clock).height = height /\ Bucket(replay, b, clock).item = item
    BY DEF Bucket, Batch
  <2> QED BY <1>1, <1>2, <1>5, <2>1, <2>2
<1> QED BY <1>4, <1>5

\* The order of a history that is one bucket longer: it is above the finalized height
\* there was, and of the best chain if it finalizes its own.
LEMMA OrderGrows ==
    ASSUME Running, NEW height \in 1 .. MaxHeight, NEW item \in Items, Publish(height, item),
           height > finalized, finalized' \in Nat, finalized' >= finalized,
           \A h \in 0 .. finalized : best'[h] = best[h],
           item.kind = "finalized" => height <= finalized' /\ item.fork = best'[height]
    PROVE  OrderInv' /\ HistoryGrows
<1> DEFINE n == Len(replay.pushed)
<1>1. /\ Sound(replay', Items) /\ n \in Nat /\ finalized \in Nat /\ MaxHeight \in Nat
      /\ MaxEvents \in Nat
  BY PublishKeeps, ChainAssumption DEF Running, NodeInv
<1>2. CASE HeightCapacity = 0
  <2>1. replay' = replay
    BY <1>2, PublishKeeps
  <2>2. \A i \in 1 .. n : Final(replay.pushed[i]) =>
          /\ replay.pushed[i].height \in 1 .. finalized'
          /\ replay.pushed[i].item.fork = best'[replay.pushed[i].height]
    BY <1>1 DEF Running, OrderInv
  <2> QED BY <1>1, <2>1, <2>2 DEF Running, OrderInv, HistoryGrows
<1>3. CASE HeightCapacity # 0
  <2>1. /\ Len(replay'.pushed) = n + 1 /\ n < MaxEvents
        /\ \A i \in 1 .. n : replay'.pushed[i] = replay.pushed[i]
        /\ replay'.pushed[n + 1].height = height
        /\ replay'.pushed[n + 1].item = item
    BY <1>3, PublishKeeps
  <2>2. \A i \in 1 .. (n + 1) : replay'.pushed[i].height \in 1 .. MaxHeight
    <3>1. \A i \in 1 .. n : replay'.pushed[i].height \in 1 .. MaxHeight
      BY <2>1 DEF Running, OrderInv
    <3> QED BY <1>1, <2>1, <3>1, SMTT(30)
  <2>3. ASSUME NEW i \in 1 .. (n + 1), Final(replay'.pushed[i])
        PROVE  /\ replay'.pushed[i].height \in 1 .. finalized'
               /\ replay'.pushed[i].item.fork = best'[replay'.pushed[i].height]
               /\ \A j \in (i + 1) .. (n + 1) : replay'.pushed[j].height > replay'.pushed[i].height
    <3>1. CASE i = n + 1
      <4>1. (i + 1) .. (n + 1) = {}
        BY <1>1, <3>1
      <4>2. item.kind = "finalized"
        BY <2>1, <2>3, <3>1 DEF Final
      <4>3. height \in 1 .. finalized' /\ item.fork = best'[height]
        BY <1>1, <4>2
      <4> QED BY <2>1, <3>1, <4>1, <4>3
    <3>2. CASE i \in 1 .. n
      <4>1. /\ replay.pushed[i].height \in 1 .. finalized
            /\ replay.pushed[i].item.fork = best[replay.pushed[i].height]
            /\ \A j \in (i + 1) .. n : replay.pushed[j].height > replay.pushed[i].height
        BY <2>1, <2>3, <3>2 DEF Running, OrderInv
      <4>2. ASSUME NEW j \in (i + 1) .. (n + 1)
            PROVE  replay'.pushed[j].height > replay.pushed[i].height
        <5>1. CASE j \in (i + 1) .. n
          <6>1. j \in 1 .. n
            BY <1>1, <3>2, <5>1
          <6>2. replay'.pushed[j] = replay.pushed[j]
            BY <2>1, <6>1
          <6> QED BY <4>1, <5>1, <6>2
        <5>2. CASE j = n + 1
          BY <1>1, <2>1, <4>1, <5>2, SMTT(30)
        <5> QED BY <1>1, <3>2, <5>1, <5>2
      <4>3. replay'.pushed[i] = replay.pushed[i]
        BY <2>1, <3>2
      <4> QED BY <1>1, <4>1, <4>2, <4>3
    <3> QED BY <1>1, <3>1, <3>2
  <2>4. OrderInv'
    BY <1>1, <2>1, <2>2, <2>3 DEF OrderInv
  <2>5. HistoryGrows
    <3>1. (n + 1) .. Len(replay'.pushed) = {n + 1}
      BY <1>1, <2>1
    <3> QED BY <1>1, <2>1, <3>1 DEF HistoryGrows
  <2> QED BY <2>4, <2>5
<1> QED BY <1>2, <1>3

\* An event that is not a finalization, above the finalized height and changing the
\* best chain there only, keeps the history.
LEMMA UnfinalizedKeeps ==
    ASSUME Running, NEW height \in 0 .. MaxHeight, NEW item \in Items, Publish(height, item),
           item.kind # "finalized", height > finalized, finalized' = finalized,
           \A h \in 0 .. finalized : best'[h] = best[h]
    PROVE  /\ OrderInv' /\ HistoryGrows /\ (WholeInv => WholeInv')
           /\ clock' \in 0 .. MaxTime /\ reply' = NoReply
<1> DEFINE n == Len(replay.pushed)
<1>1. finalized \in Nat /\ height \in 1 .. MaxHeight
  BY ChainAssumption DEF Running, NodeInv
<1>2. clock' = clock /\ reply' = NoReply /\ n \in Nat
  BY <1>1, PublishKeeps
<1>3. OrderInv' /\ HistoryGrows
  BY <1>1, OrderGrows
<1>4. ASSUME WholeInv PROVE WholeInv'
  <2>1. CASE HeightCapacity = 0
    BY <1>1, <1>4, <2>1, PublishKeeps DEF WholeInv
  <2>2. CASE HeightCapacity # 0
    <3>1. Len(replay'.pushed) = n + 1 /\ \A i \in 1 .. n : replay'.pushed[i] = replay.pushed[i]
      BY <1>1, <2>2, PublishKeeps
    <3>2. ASSUME NEW h \in 1 .. finalized
          PROVE  \E i \in 1 .. (n + 1) : replay'.pushed[i].height = h
                                         /\ replay'.pushed[i].item = Item("finalized", best'[h])
      <4>1. PICK i \in 1 .. n :
              replay.pushed[i].height = h /\ replay.pushed[i].item = Item("finalized", best[h])
        BY <1>4, <2>2 DEF WholeInv
      <4>2. replay'.pushed[i] = replay.pushed[i] /\ i \in 1 .. (n + 1)
        BY <1>2, <3>1
      <4>3. best'[h] = best[h]
        BY <1>1
      <4> QED BY <4>1, <4>2, <4>3
    <3> QED BY <2>2, <3>1, <3>2 DEF WholeInv
  <2> QED BY <2>1, <2>2
<1> QED BY <1>2, <1>3, <1>4 DEF Running

\* A finalization takes the next height, below all that will be published later, on
\* the fork the best chain has there.
LEMMA FinalizeKeeps ==
    ASSUME Running, FinalizeBlock
    PROVE  /\ OrderInv' /\ HistoryGrows /\ (WholeInv => WholeInv')
           /\ clock' \in 0 .. MaxTime /\ reply' = NoReply
<1> DEFINE n == Len(replay.pushed)
           height == finalized + 1
           item == Item("finalized", best[height])
<1>1. /\ finalized \in Nat /\ height \in 1 .. Tip /\ height \in 1 .. MaxHeight /\ item \in Items
      /\ finalized' = height /\ best' = best /\ Publish(height, item)
  <2>1. finalized \in Nat /\ finalized < Tip /\ height \in 1 .. Tip /\ height \in 1 .. MaxHeight
    BY ChainAssumption DEF Running, NodeInv, FinalizeBlock
  <2>2. item \in Items
    BY <2>1, ItemKinds DEF Running, NodeInv
  <2> QED BY <2>1, <2>2 DEF FinalizeBlock
<1>2. clock' = clock /\ reply' = NoReply /\ n \in Nat
  BY <1>1, PublishKeeps
<1>3. OrderInv' /\ HistoryGrows
  <2>1. item.fork = best[height]
    BY DEF Item
  <2> HIDE DEF item
  <2> QED BY <1>1, <2>1, OrderGrows
<1>4. ASSUME WholeInv PROVE WholeInv'
  <2>1. CASE HeightCapacity = 0
    BY <1>1, <1>4, <2>1, PublishKeeps DEF WholeInv
  <2>2. CASE HeightCapacity # 0
    <3>1. /\ Len(replay'.pushed) = n + 1
          /\ \A i \in 1 .. n : replay'.pushed[i] = replay.pushed[i]
          /\ replay'.pushed[n + 1].height = height
          /\ replay'.pushed[n + 1].item = item
      BY <1>1, <2>2, PublishKeeps
    <3>2. ASSUME NEW h \in 1 .. finalized'
          PROVE  \E i \in 1 .. (n + 1) : replay'.pushed[i].height = h
                                         /\ replay'.pushed[i].item = Item("finalized", best'[h])
      <4>1. CASE h = height
        BY <1>1, <1>2, <3>1, <4>1
      <4>2. CASE h \in 1 .. finalized
        <5>1. PICK i \in 1 .. n :
                replay.pushed[i].height = h /\ replay.pushed[i].item = Item("finalized", best[h])
          BY <1>4, <2>2, <4>2 DEF WholeInv
        <5>2. replay'.pushed[i] = replay.pushed[i] /\ i \in 1 .. (n + 1)
          BY <1>2, <3>1
        <5> QED BY <1>1, <5>1, <5>2
      <4> QED BY <1>1, <4>1, <4>2
    <3> QED BY <2>2, <3>1, <3>2 DEF WholeInv
  <2> QED BY <2>1, <2>2
<1> QED BY <1>2, <1>3, <1>4 DEF Running

\* A request at most evicts: the history stays as it is.
LEMMA ReadKeeps ==
    ASSUME Running, EvictsTo(replay, clock, replay') \/ replay' = replay, UNCHANGED <<clock, node>>
    PROVE  /\ Running' /\ (WholeInv => WholeInv') /\ replay'.pushed = replay.pushed
           /\ replay'.popped \in replay.popped .. Len(replay.pushed)
<1>1. Sound(replay, Items) /\ replay.popped \in replay.popped .. Len(replay.pushed)
  BY LenProperties DEF Running, OrderInv, Sound, Typed
<1>2. /\ Sound(replay', Items) /\ replay'.pushed = replay.pushed
      /\ replay'.popped \in replay.popped .. Len(replay.pushed)
  BY <1>1, EvictSound
<1>3. UNCHANGED <<clock, best, finalized, branch, next>> /\ Tip' = Tip
  BY DEF node, Tip
<1>4. NodeInv'
  BY <1>3 DEF Running, NodeInv
<1>5. OrderInv'
  BY <1>2, <1>3 DEF Running, OrderInv
<1>6. WholeInv => WholeInv'
  BY <1>2, <1>3 DEF WholeInv
<1> QED BY <1>2, <1>3, <1>4, <1>5, <1>6 DEF Running

\* The heights a window says it has are those of its retained buckets.
LEMMA AvailableIsRetained ==
    ASSUME NEW r, Sound(r, Items), NEW from, HeightAvailable(r, from)
    PROVE  \E i \in Retained(r) : r.pushed[i].height <= from
BY DEF Sound, HeightCountsExact, HeightAvailable

\* The anchor the client holds was in the window when it was verified.  What the
\* snapshot then evicts is a prefix; a height at or below the anchor's is still
\* retained after it, and every bucket after the anchor is higher: so the prefix
\* ends before the anchor.
LEMMA VerifiedResumeKeeps ==
    ASSUME IInv, NEW from \in 1 .. MaxHeight, NEW fork \in Forks,
           VerifyCheckpoint(replay, from, Item("finalized", fork)) = "ok",
           Snapshot("resume", from, fork), UNCHANGED <<clock, node>>
    PROVE  ReplyInv'
<1>1. PICK a \in Retained(replay) :
        replay.pushed[a].height = from /\ replay.pushed[a].item = Item("finalized", fork)
  BY DEF VerifyCheckpoint
<1>2. /\ Running' /\ replay'.pushed = replay.pushed
      /\ replay'.popped \in replay.popped .. Len(replay.pushed)
      /\ Len(replay.pushed) \in Nat /\ replay.popped \in Nat
  BY ReadKeeps, LenProperties DEF Snapshot, IInv, Running, OrderInv, Sound, Typed
<1>3. a \in 1 .. Len(replay.pushed)
  BY <1>2 DEF Retained
<1>4. /\ Final(replay.pushed[a]) /\ replay.pushed[a].item.fork = fork
  BY <1>1 DEF Final, Item
<1>5. /\ from \in 1 .. finalized /\ fork = best[from]
      /\ \A j \in (a + 1) .. Len(replay.pushed) : replay.pushed[j].height > from
  BY <1>1, <1>3, <1>4 DEF IInv, Running, OrderInv, WholeInv
<1>6. CASE HeightAvailable(replay', from)
  <2>1. reply' = Answer("resume", from, fork, "ok", ReplayFrom(replay', from))
    BY <1>6 DEF Snapshot
  <2>2. PICK k \in Retained(replay') : replay'.pushed[k].height <= from
    BY <1>2, <1>6, AvailableIsRetained DEF Running, OrderInv
  <2>3. k \in Int /\ replay'.popped < k /\ k <= a
    <3>1. k \in (replay'.popped + 1) .. Len(replay.pushed)
      BY <1>2, <2>2 DEF Retained
    <3>2. \A i \in 1 .. Len(replay.pushed) : replay.pushed[i].height \in Nat
      <4>1. \A i \in 1 .. Len(replay.pushed) : replay.pushed[i] \in BucketsOf(Items)
        BY ElementOfSeq DEF IInv, Running, OrderInv, WholeInv, Sound, Typed
      <4> QED BY <4>1 DEF BucketsOf
    <3>3. k \notin (a + 1) .. Len(replay.pushed)
      BY <1>2, <1>5, <2>2, <3>1, <3>2
    <3> QED BY <1>2, <1>3, <3>1, <3>3
  <2>4. \A i \in a .. Len(replay.pushed) :
          replay.pushed[i].height >= from => i \in ReplayFrom(replay', from)
    BY <1>2, <1>3, <2>3 DEF ReplayFrom, Retained
  <2>5. ResumeComplete'
    BY <1>1, <1>2, <1>3, <2>1, <2>4 DEF ResumeComplete, Answer
  <2>6. NoFalseMismatch'
    BY <2>1 DEF NoFalseMismatch, Answer
  <2>7. \A i \in ReplayFrom(replay', from) : i \in 1 .. Len(replay.pushed)
    BY <1>2 DEF ReplayFrom, Retained
  <2>8. \A i \in 1 .. Len(replay.pushed) : Final(replay.pushed[i]) =>
          replay.pushed[i].item.fork = best[replay.pushed[i].height]
    BY DEF IInv, Running, OrderInv, WholeInv
  <2>9. NeverJoinsAnotherChain'
    BY <1>2, <1>5, <2>1, <2>7, <2>8, SMTT(30) DEF NeverJoinsAnotherChain, Answer, Final, node, IInv, Running, NodeInv
  <2>10. RepliesFromWindow'
    BY <2>1 DEF RepliesFromWindow, Answer, ReplayFrom
  <2> QED BY <2>5, <2>6, <2>9, <2>10 DEF ReplyInv
<1>7. CASE ~HeightAvailable(replay', from)
  <2>1. reply' = Answer("resume", from, fork, "out_of_range", {})
    BY <1>7 DEF Snapshot
  <2> QED BY <2>1
      DEF ReplyInv, RepliesFromWindow, ResumeComplete, NoFalseMismatch, NeverJoinsAnotherChain, Answer
<1> QED BY <1>6, <1>7

\* A client is told that it is on another chain only if the window has its height and
\* not its block.  Had the node finalized that block, its bucket would have been
\* evicted, and with it all buckets of that height, which are older.
LEMMA RefusedResumeKeeps ==
    ASSUME IInv, NEW from \in 1 .. MaxHeight, NEW fork \in Forks, NEW verified,
           verified = VerifyCheckpoint(replay, from, Item("finalized", fork)),
           verified # "ok",
           reply' = Answer("resume", from, fork, verified, {}), UNCHANGED <<replay, clock, node>>
    PROVE  ReplyInv'
<1>1. RepliesFromWindow' /\ ResumeComplete' /\ NeverJoinsAnotherChain'
  BY DEF RepliesFromWindow, ResumeComplete, NeverJoinsAnotherChain, Answer
<1>2. NoFalseMismatch'
  <2> SUFFICES ASSUME verified = "failed_precondition", from <= finalized, best[from] = fork
               PROVE  FALSE
    BY DEF NoFalseMismatch, Answer, node, IInv, Running, NodeInv
  <2>1. /\ Len(replay.pushed) \in Nat /\ replay.popped \in Nat /\ finalized \in Nat
    BY LenProperties DEF IInv, Running, OrderInv, WholeInv, Sound, Typed, NodeInv
  <2>2. PICK i \in Retained(replay) : replay.pushed[i].height = from
    BY DEF VerifyCheckpoint
  <2>3. \A j \in Retained(replay) :
          ~(replay.pushed[j].height = from /\ replay.pushed[j].item = Item("finalized", fork))
    BY DEF VerifyCheckpoint
  <2>4. i \in 1 .. Len(replay.pushed) /\ replay.popped < i
    BY <2>1, <2>2 DEF Retained
  <2>5. HeightCapacity # 0
    BY <2>4 DEF IInv, Running, OrderInv, WholeInv
  <2>6. PICK p \in 1 .. Len(replay.pushed) :
          replay.pushed[p].height = from /\ replay.pushed[p].item = Item("finalized", fork)
    <3>1. from \in 1 .. finalized /\ Item("finalized", best[from]) = Item("finalized", fork)
      BY <2>1
    <3> QED BY <2>5, <3>1 DEF IInv, Running, OrderInv, WholeInv
  <2>7. i \in (p + 1) .. Len(replay.pushed)
    BY <2>1, <2>3, <2>4, <2>6 DEF Retained
  <2>8. replay.pushed[i].height > from
    BY <2>6, <2>7, ItemKinds, SMTT(30) DEF IInv, Running, OrderInv, WholeInv, Final
  <2> QED BY <2>2, <2>8
<1> QED BY <1>1, <1>2 DEF ReplyInv

-----------------------------------------------------------------------------
\* Init
LEMMA InitIInv == Init => IInv
<1> SUFFICES ASSUME Init PROVE IInv
  OBVIOUS
<1>1. best = [h \in 0 .. 0 |-> "main"] /\ Tip = 0
  <2>1. best = [h \in 0 .. 0 |-> "main"]
    <3>1. {0} = 0 .. 0
      OBVIOUS
    <3> QED BY <3>1 DEF Init
  <2>2. DOMAIN best = 0 .. 0
    BY <2>1
  <2>3. Tip = 0
    BY <2>2, LastHeight DEF Tip
  <2> QED BY <2>1, <2>3
<1>2. NodeInv
  BY <1>1, ChainAssumption DEF Init, NodeInv, Forks, NoBranch
<1>3. Sound(replay, Items) /\ replay.pushed = <<>> /\ finalized = 0
  BY EmptySound DEF Init, EmptyReplay
<1>4. OrderInv /\ WholeInv
  BY <1>3, ChainAssumption DEF OrderInv, WholeInv
<1>5. ReplyInv
  BY DEF Init, NoReply, ReplyInv, RepliesFromWindow, ResumeComplete, NoFalseMismatch, NeverJoinsAnotherChain
<1> QED BY <1>2, <1>4, <1>5, ChainAssumption DEF IInv, Running, Init, NoReply

\* The block of a competing branch is above the finalized height and not above the tip.
LEMMA SideBlockIInv ==
    ASSUME Running, NEW from \in Int, NEW height \in Int,
           finalized < from, from <= height, height <= Tip, AcceptSideBlock(from, height)
    PROVE  Running' /\ EventLeaves
<1>1. /\ Tip \in Nat /\ finalized \in Nat /\ Tip <= MaxHeight /\ MaxHeight \in Nat
      /\ best \in [0 .. Tip -> Forks]
  BY ChainAssumption DEF Running, NodeInv
<1>2. /\ Publish(height, Item("accepted", "side")) /\ finalized' = finalized /\ best' = best
      /\ branch' = [from |-> from, to |-> height]
      /\ next' = IF height = Tip THEN "reset" ELSE "branch"
  BY DEF AcceptSideBlock
<1>3. Tip' = Tip
  BY <1>2 DEF Tip
<1>4. NodeInv'
  BY <1>1, <1>2, <1>3 DEF NodeInv
<1>5. OrderInv' /\ EventLeaves
  <2>1. height \in 0 .. MaxHeight /\ Item("accepted", "side") \in Items
        /\ Item("accepted", "side").kind # "finalized"
    BY <1>1, ItemKinds DEF Forks
  <2> QED BY <1>1, <1>2, <2>1, UnfinalizedKeeps DEF EventLeaves
<1> QED BY <1>4, <1>5 DEF Running, EventLeaves

\* The events of the node.
LEMMA EventRunning ==
    ASSUME Running, NodeStep
    PROVE  Running' /\ EventLeaves
<1>1. /\ Tip \in Nat /\ finalized \in Nat /\ finalized <= Tip /\ Tip <= MaxHeight
      /\ MaxHeight \in Nat /\ best \in [0 .. Tip -> Forks]
      /\ branch \in [from : 0 .. Tip, to : 0 .. Tip]
  BY ChainAssumption DEF Running, NodeInv
<1>2. CASE AcceptBlock
  <2>1. NodeInv'
    BY <1>2 DEF AcceptBlock, Running, NodeInv, Tip
  <2>2. Tip + 1 \in 0 .. MaxHeight /\ Item("accepted", "main") \in Items
        /\ Item("accepted", "main").kind # "finalized"
    BY <1>1, <1>2, ItemKinds DEF AcceptBlock, Forks
  <2>3. OrderInv' /\ EventLeaves
    BY <1>1, <1>2, <2>2, UnfinalizedKeeps DEF AcceptBlock, EventLeaves
  <2> QED BY <2>1, <2>3 DEF Running, EventLeaves
<1>3. CASE BeginBranch
  <2>1. PICK height \in (finalized + 1) .. Tip : AcceptSideBlock(height, height)
    BY <1>3 DEF BeginBranch
  <2>2. height \in Int /\ finalized < height /\ height <= Tip
    BY <1>1
  <2> QED BY <2>1, <2>2, SideBlockIInv
<1>4. CASE GrowBranch
  <2>1. AcceptSideBlock(branch.from, branch.to + 1)
    BY <1>4 DEF GrowBranch
  <2>2. /\ branch.from \in Int /\ branch.to + 1 \in Int /\ finalized < branch.from
        /\ branch.from <= branch.to + 1 /\ branch.to + 1 <= Tip
    BY <1>1, <1>4 DEF GrowBranch, Running, NodeInv
  <2> QED BY <2>1, <2>2, SideBlockIInv
<1>5. CASE GrowBestChain
  <2>1. /\ Tip < MaxHeight /\ Publish(Tip + 1, Item("best", "main")) /\ finalized' = finalized
        /\ branch' = branch /\ next' \in {"finalize", "accept"}
    BY <1>5 DEF GrowBestChain, Running, NodeInv
  <2>2. best' = [h \in 0 .. (Tip + 1) |-> IF h = Tip + 1 THEN "main" ELSE best[h]]
    <3>1. DOMAIN best \union {Tip + 1} = 0 .. (Tip + 1)
      BY <1>1
    <3> QED BY <1>5, <3>1 DEF GrowBestChain
  <2>3. Tip' = Tip + 1
    <3>1. DOMAIN best' = 0 .. (Tip + 1) /\ Tip + 1 \in Nat
      BY <1>1, <2>2
    <3>2. Tip' = CHOOSE h \in 0 .. (Tip + 1) : \A g \in 0 .. (Tip + 1) : g <= h
      BY <3>1 DEF Tip
    <3> QED BY <3>1, <3>2, LastHeight
  <2>4. best' \in [0 .. Tip' -> Forks] /\ branch' \in [from : 0 .. Tip', to : 0 .. Tip']
    BY <1>1, <2>1, <2>2, <2>3 DEF Forks
  <2>5. NodeInv'
    BY <1>1, <2>1, <2>3, <2>4 DEF NodeInv
  <2>6. \A h \in 0 .. finalized : best'[h] = best[h]
    BY <1>1, <2>2
  <2>7. Tip + 1 \in 0 .. MaxHeight /\ Item("best", "main") \in Items
        /\ Item("best", "main").kind # "finalized"
    BY <1>1, <2>1, ItemKinds DEF Forks
  <2>8. OrderInv' /\ EventLeaves
    BY <1>1, <2>1, <2>6, <2>7, UnfinalizedKeeps DEF EventLeaves
  <2> QED BY <2>5, <2>8 DEF Running, EventLeaves
<1>6. CASE ResetBestChain
  <2>1. /\ Publish(Tip, Reset(branch.from)) /\ finalized' = finalized
        /\ branch' = NoBranch /\ next' = "accept"
        /\ finalized < branch.from /\ branch.from \in 1 .. Tip
        /\ best' = [h \in 0 .. Tip |-> IF h >= branch.from THEN "side" ELSE best[h]]
    BY <1>1, <1>6 DEF ResetBestChain, Running, NodeInv
  <2>2. Tip' = Tip
    <3>1. DOMAIN best' = DOMAIN best
      BY <1>1, <2>1
    <3> QED BY <3>1 DEF Tip
  <2>3. NodeInv'
    <3>1. best' \in [0 .. Tip' -> Forks]
      BY <1>1, <2>1, <2>2 DEF Forks
    <3> QED BY <1>1, <2>1, <2>2, <3>1 DEF NodeInv, NoBranch
  <2>4. \A h \in 0 .. finalized : best'[h] = best[h]
    BY <1>1, <2>1
  <2>5. Tip \in 0 .. MaxHeight /\ Tip > finalized /\ Reset(branch.from) \in Items
        /\ Reset(branch.from).kind # "finalized"
    BY <1>1, <2>1, ItemKinds
  <2>6. OrderInv' /\ EventLeaves
    BY <2>1, <2>4, <2>5, UnfinalizedKeeps DEF EventLeaves
  <2> QED BY <2>3, <2>6 DEF Running, EventLeaves
<1>7. CASE FinalizeBlock
  <2>1. /\ finalized < Tip /\ finalized' = finalized + 1
        /\ best' = best /\ branch' = branch /\ next' = "accept"
    BY <1>7 DEF FinalizeBlock, Running, NodeInv
  <2>2. Tip' = Tip
    BY <2>1 DEF Tip
  <2>3. Tip \in 0 .. MaxHeight
    BY DEF Running, NodeInv
  <2>4. NodeInv'
    BY <1>1, <2>1, <2>2, <2>3 DEF NodeInv
  <2>5. OrderInv' /\ EventLeaves
    BY <1>7, FinalizeKeeps DEF EventLeaves
  <2> QED BY <2>4, <2>5 DEF Running, EventLeaves
<1> QED BY <1>2, <1>3, <1>4, <1>5, <1>6, <1>7 DEF NodeStep

LEMMA EventIInv ==
    ASSUME IInv, NodeStep
    PROVE  IInv'
<1>1. Running' /\ WholeInv' /\ reply' = NoReply
  BY EventRunning DEF IInv, EventLeaves
<1>2. ReplyInv'
  BY <1>1 DEF ReplyInv, RepliesFromWindow, ResumeComplete, NoFalseMismatch, NeverJoinsAnotherChain, NoReply
<1> QED BY <1>1, <1>2 DEF IInv, NoReply

\* The requests and the clock.
LEMMA RequestIInv ==
    ASSUME IInv, SubscribeFromHeight \/ SubscribeResume \/ SubscribeReplayInfo
    PROVE  IInv'
<1>1. UNCHANGED <<clock, node>>
  BY DEF SubscribeFromHeight, SubscribeResume, SubscribeReplayInfo
<1>2. CASE SubscribeFromHeight
  <2>1. PICK from \in 1 .. MaxHeight : Snapshot("from_height", from, "none")
    BY <1>2 DEF SubscribeFromHeight
  <2>2. Running' /\ WholeInv'
    BY <1>1, <2>1, ReadKeeps DEF Snapshot, IInv
  <2>3. reply'.op = "from_height" /\ RepliesFromWindow'
    BY <2>1 DEF Snapshot, Answer, RepliesFromWindow, ReplayFrom
  <2> QED BY <1>1, <2>2, <2>3
      DEF IInv, ReplyInv, ResumeComplete, NoFalseMismatch, NeverJoinsAnotherChain
<1>3. CASE SubscribeResume
  <2>1. PICK from \in 1 .. MaxHeight, fork \in Forks :
          LET verified == VerifyCheckpoint(replay, from, Item("finalized", fork)) IN
          IF verified = "ok" THEN Snapshot("resume", from, fork)
          ELSE reply' = Answer("resume", from, fork, verified, {}) /\ UNCHANGED replay
    BY <1>3 DEF SubscribeResume
  <2>2. Running' /\ WholeInv'
    BY <1>1, <2>1, ReadKeeps DEF Snapshot, IInv
  <2>3. ReplyInv'
    BY <1>1, <2>1, VerifiedResumeKeeps, RefusedResumeKeeps
  <2>4. reply'.op = "resume"
    BY <2>1 DEF Snapshot, Answer
  <2> QED BY <1>1, <2>2, <2>3, <2>4 DEF IInv
<1>4. CASE SubscribeReplayInfo
  <2>1. Running' /\ WholeInv'
    BY <1>1, <1>4, ReadKeeps DEF SubscribeReplayInfo, IInv
  <2>2. reply'.op = "replay_info" /\ RepliesFromWindow'
    BY <1>4 DEF SubscribeReplayInfo, Answer, RepliesFromWindow
  <2> QED BY <1>1, <2>1, <2>2
      DEF IInv, ReplyInv, ResumeComplete, NoFalseMismatch, NeverJoinsAnotherChain
<1> QED BY <1>2, <1>3, <1>4

LEMMA NextIInv == IInv /\ [Next]_vars => IInv'
<1> SUFFICES ASSUME IInv, [Next]_vars PROVE IInv'
  OBVIOUS
<1>1. CASE NodeStep
  BY <1>1, EventIInv
<1>2. CASE SubscribeFromHeight \/ SubscribeResume \/ SubscribeReplayInfo
  BY <1>2, RequestIInv
<1>3. CASE Tick
  <2>1. Running' /\ WholeInv'
    <3>1. NodeInv' /\ OrderInv' /\ WholeInv'
      BY <1>3 DEF Tick, node, IInv, Running, OrderInv, WholeInv, NodeInv, Tip
    <3>2. clock' \in 0 .. MaxTime
      BY <1>3, ChainAssumption DEF Tick, IInv, Running
    <3> QED BY <3>1, <3>2 DEF Running
  <2>2. reply' = NoReply
    BY <1>3 DEF Tick
  <2> QED BY <2>1, <2>2
      DEF IInv, ReplyInv, RepliesFromWindow, ResumeComplete, NoFalseMismatch, NeverJoinsAnotherChain, NoReply
<1>4. CASE UNCHANGED vars
  <2>1. UNCHANGED <<replay, clock, node, reply>>
    BY <1>4 DEF vars
  <2>2. Running' /\ WholeInv'
    BY <2>1, ReadKeeps DEF IInv
  <2>3. ReplyInv'
    <3>1. UNCHANGED <<replay, best, finalized, reply>>
      BY <2>1 DEF node
    <3>2. ResumeComplete'
      BY <3>1 DEF IInv, ReplyInv, ResumeComplete
    <3>3. NoFalseMismatch'
      BY <3>1 DEF IInv, ReplyInv, NoFalseMismatch
    <3>4. NeverJoinsAnotherChain'
      BY <3>1 DEF IInv, ReplyInv, NeverJoinsAnotherChain
    <3>5. RepliesFromWindow'
      BY <3>1 DEF IInv, ReplyInv, RepliesFromWindow
    <3> QED BY <3>2, <3>3, <3>4, <3>5 DEF ReplyInv
  <2> QED BY <2>1, <2>2, <2>3 DEF IInv
<1> QED BY <1>1, <1>2, <1>3, <1>4 DEF Next

\* In every reachable state the window holds what the node's order of events makes of it.
THEOREM ServiceInvariant == Spec => []IInv
<1> QED BY InitIInv, NextIInv, PTL DEF Spec

\* The deque, the clock, the best chain and the last answer have their types.
THEOREM ServiceTypeCorrect == Spec => []TypeOK
<1>1. IInv => TypeOK
  BY DEF IInv, ReplyInv, Running, NodeInv, OrderInv, Sound, Typed, TypeOK
<1> QED BY <1>1, ServiceInvariant, PTL

\* A resume answered Ok replays all the client missed at or above its height.
THEOREM ResumesAreComplete == Spec => []ResumeComplete
<1>1. IInv => ResumeComplete
  BY DEF IInv, ReplyInv
<1> QED BY <1>1, ServiceInvariant, PTL

\* FAILED_PRECONDITION is only told to clients whose block the node did not finalize.
THEOREM MismatchIsReal == Spec => []NoFalseMismatch
<1>1. IInv => NoFalseMismatch
  BY DEF IInv, ReplyInv
<1> QED BY <1>1, ServiceInvariant, PTL

\* A client that holds a block of an abandoned fork is not let in at it, and a replay
\* finalizes no block but those of the best chain.
THEOREM ResumesOnBestChain == Spec => []NeverJoinsAnotherChain
<1>1. IInv => NeverJoinsAnotherChain
  BY DEF IInv, ReplyInv
<1> QED BY <1>1, ServiceInvariant, PTL

-----------------------------------------------------------------------------
(***************************************************************************)
(* The refinement.                                                         *)
(***************************************************************************)

\* Both modules mean the same by the names they share: sizes of sets, ...
LEMMA SameCardinality ==
    ASSUME NEW S PROVE Window!Cardinality(S) = Cardinality(S)
BY DEF Window!Cardinality, Cardinality

\* ... what is left when buckets are evicted, ...
LEMMA SamePop ==
    ASSUME NEW r, NEW k PROVE Window!PopThrough(r, k) = PopThrough(r, k)
BY SameCardinality DEF Window!PopThrough, PopThrough, Window!PoppedAt, PoppedAt, Window!Retained, Retained,
       Window!Minus, Minus, Window!EventsThrough, EventsThrough,
       Window!BytesThrough, BytesThrough

\* ... when the window is beyond a limit, ...
LEMMA SameLimits ==
    ASSUME NEW r, NEW t PROVE Window!MustEvict(r, t) = MustEvict(r, t)
BY SameCardinality DEF Window!MustEvict, MustEvict, Window!Retained, Retained, Window!Oldest, Oldest

\* ... what an eviction leaves, ...
LEMMA SameEviction ==
    ASSUME NEW r, NEW t, NEW r2, EvictsTo(r, t, r2) PROVE Window!EvictsTo(r, t, r2)
BY SamePop, SameLimits DEF EvictsTo, Window!EvictsTo

\* ... and what a batch does.
LEMMA SamePush ==
    ASSUME NEW r, NEW b, NEW t, NEW r2, PushesTo(r, b, t, r2) PROVE Window!PushesTo(r, b, t, r2)
<1>1. Window!PushBack(r, b, t) = PushBack(r, b, t)
  BY DEF Window!PushBack, PushBack, Window!Bucket, Bucket, Window!Events, Events,
         Window!EventsThrough, EventsThrough, Window!BytesThrough, BytesThrough
<1> QED BY <1>1, SameEviction DEF PushesTo, Window!PushesTo

\* A source event is one batch (with replay disabled it leaves the window alone).
LEMMA EventRefines ==
    ASSUME IInv, NEW height \in 1 .. MaxHeight, NEW item \in Items, Publish(height, item)
    PROVE  [Window!Next]_(Window!vars)
<1> DEFINE n == Len(replay.pushed)
           b == Batch(height, item, n + 1, n + 1, 1)
<1>1. n \in Nat /\ n < MaxEvents /\ clock' = clock
  BY PublishKeeps, ChainAssumption DEF IInv, Publish
<1>2. CASE HeightCapacity = 0
  <2>1. replay' = replay
    BY <1>2, PublishKeeps DEF IInv
  <2> QED BY <1>1, <2>1 DEF Window!vars
<1>3. CASE HeightCapacity # 0
  <2>1. b \in Window!NextBatches
    <3>1. height \in 0 .. MaxHeight /\ item \in EventItems
      BY ChainAssumption DEF Items
    <3>2. b = Window!Batch(height, item, n + 1, n + 1, 1)
      BY DEF Batch, Window!Batch
    <3> HIDE DEF b
    <3> QED BY <3>1, <3>2 DEF Window!NextBatches
  <2>2. b.last = n + 1 /\ b.last <= MaxEvents /\ Len(replay'.pushed) = b.last
    BY <1>1, <1>3, PublishKeeps, ChainAssumption DEF IInv, Batch
  <2>3. Window!PushesTo(replay, b, clock, replay')
    BY SamePush DEF Publish
  <2>4. Window!PushBlockBatch
    BY <1>1, <2>1, <2>2, <2>3 DEF Window!PushBlockBatch
  <2> QED BY <2>4 DEF Window!Next
<1> QED BY <1>2, <1>3

\* A request reads the window, or is refused before it gets to it.
LEMMA RequestRefines ==
    ASSUME IInv, EvictsTo(replay, clock, replay') \/ UNCHANGED replay, clock' = clock
    PROVE  [Window!Next]_(Window!vars)
<1>1. CASE UNCHANGED replay
  BY <1>1 DEF Window!vars
<1>2. CASE EvictsTo(replay, clock, replay')
  <2>1. replay'.pushed = replay.pushed
    BY <1>2, EvictSound DEF IInv, Running, OrderInv
  <2>2. Window!ReadWindow
    BY <1>2, <2>1, SameEviction DEF Window!ReadWindow
  <2> QED BY <2>2 DEF Window!Next
<1> QED BY <1>1, <1>2

LEMMA StepRefines == IInv /\ [Next]_vars => [Window!Next]_(Window!vars)
<1> SUFFICES ASSUME IInv, [Next]_vars PROVE [Window!Next]_(Window!vars)
  OBVIOUS
<1>1. Tip \in 0 .. MaxHeight /\ finalized \in 0 .. Tip /\ best \in [0 .. Tip -> Forks]
  BY DEF IInv, Running, NodeInv
<1>2. CASE AcceptBlock
  <2>1. Tip + 1 \in 1 .. MaxHeight /\ Item("accepted", "main") \in Items
    BY <1>1, <1>2, ChainAssumption, ItemKinds DEF AcceptBlock, Forks
  <2> QED BY <1>2, <2>1, EventRefines DEF AcceptBlock
<1>3. CASE BeginBranch \/ GrowBranch
  <2>1. PICK from \in Int, height \in 1 .. MaxHeight : AcceptSideBlock(from, height)
    <3>1. CASE BeginBranch
      <4>1. PICK height \in (finalized + 1) .. Tip : AcceptSideBlock(height, height)
        BY <3>1 DEF BeginBranch
      <4> QED BY <1>1, <4>1, ChainAssumption
    <3>2. CASE GrowBranch
      <4>1. branch.from \in Int /\ branch.to + 1 \in 1 .. MaxHeight
        BY <1>1, <3>2, ChainAssumption DEF GrowBranch, IInv, Running, NodeInv
      <4> QED BY <3>2, <4>1 DEF GrowBranch
    <3> QED BY <1>3, <3>1, <3>2
  <2>2. Item("accepted", "side") \in Items
    BY ItemKinds DEF Forks
  <2> QED BY <2>1, <2>2, EventRefines DEF AcceptSideBlock
<1>4. CASE GrowBestChain
  <2>1. Tip + 1 \in 1 .. MaxHeight /\ Item("best", "main") \in Items
    BY <1>1, <1>4, ChainAssumption, ItemKinds DEF GrowBestChain, IInv, Running, NodeInv, Forks
  <2> QED BY <1>4, <2>1, EventRefines DEF GrowBestChain
<1>5. CASE ResetBestChain
  <2>1. branch.from \in 1 .. MaxHeight /\ Tip \in 1 .. MaxHeight
    BY <1>1, <1>5, ChainAssumption DEF ResetBestChain, IInv, Running, NodeInv
  <2>2. Reset(branch.from) \in Items
    BY <2>1, ItemKinds
  <2> QED BY <1>5, <2>1, <2>2, EventRefines DEF ResetBestChain
<1>6. CASE FinalizeBlock
  <2>1. finalized < Tip
    BY <1>6 DEF FinalizeBlock, IInv, Running, NodeInv
  <2>2. finalized + 1 \in 1 .. MaxHeight /\ Item("finalized", best[finalized + 1]) \in Items
    BY <1>1, <2>1, ChainAssumption, ItemKinds
  <2> QED BY <1>6, <2>2, EventRefines DEF FinalizeBlock
<1>7. CASE Tick
  <2>1. Window!Tick
    BY <1>7 DEF Tick, Window!Tick
  <2> QED BY <2>1 DEF Window!Next
<1>8. CASE SubscribeFromHeight \/ SubscribeResume \/ SubscribeReplayInfo
  <2>1. (EvictsTo(replay, clock, replay') \/ UNCHANGED replay) /\ clock' = clock
    BY <1>8 DEF SubscribeFromHeight, SubscribeResume, SubscribeReplayInfo, Snapshot
  <2> QED BY <2>1, RequestRefines
<1>9. CASE UNCHANGED vars
  BY <1>9 DEF vars, Window!vars
<1> QED BY <1>2, <1>3, <1>4, <1>5, <1>6, <1>7, <1>8, <1>9 DEF Next, NodeStep

\* Publishing and the requests change the window in no way but ReplayWindow's, for every
\* window, depth of finality and chain: all that is proved of ReplayWindow holds here.
THEOREM ImplementsWindow == Spec => WindowImplemented
<1>1. Init => Window!Init
  BY DEF Init, Window!Init, EmptyReplay, Window!EmptyReplay
<1>2. IInv /\ [Next]_vars => [Window!Next]_(Window!vars)
  BY StepRefines
<1> QED BY <1>1, <1>2, ServiceInvariant, PTL DEF Spec, Window!Spec, WindowImplemented
=============================================================================
