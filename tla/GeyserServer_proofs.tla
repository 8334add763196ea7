------------------------- MODULE GeyserServer_proofs -------------------------
(***************************************************************************)
(* Proofs about the hand-off between publisher and subscribers, for any    *)
(* number of streams, any requests, rings, channels and windows: what a    *)
(* stream is given comes in order, and nothing of it is lost.              *)
(***************************************************************************)
EXTENDS GeyserServer, ReplayBuffer_proofs

(***************************************************************************)
(* Types                                                                   *)
(***************************************************************************)
Messages ==
    [scope : {"block", "mempool", "reconnect", "begin", "end", "snapshot", "nothing",
              "ping", "pong", "lagged", "invalid_filter"},
     seq : Nat, height : Nat, rev : Nat, action : {"none", "added", "removed"},
     ids : SUBSET TxIds, event : Nat]

PublisherTypes ==
    /\ log \in Seq(Messages)
    /\ sent \in 0 .. Len(log)
    /\ stage \in {"idle", "replay", "send"}
    /\ stage = "idle" <=> sent = Len(log)
    /\ mempool \in [revision : Nat, entries : SUBSET TxIds]

StreamTypes ==
    /\ task \in [Subscribers -> {"none", "subscribed", "replayed", "refused", "initial",
                                 "live", "reserve", "closed"}]
    /\ request \in [Subscribers -> Requests]
    /\ cursor \in [Subscribers -> Nat]
    /\ watermark \in [Subscribers -> Nat]
    /\ revision \in [Subscribers -> Nat]
    /\ start \in [Subscribers -> Nat]
    /\ initial \in [Subscribers -> Seq(Messages)]
    /\ captured \in [Subscribers -> SUBSET Nat]
    /\ offset \in [Subscribers -> Nat]
    /\ filter \in [Subscribers -> SUBSET {"block", "mempool"}]
    /\ held \in [Subscribers -> Messages]
    /\ stream \in [Subscribers -> Seq(Messages)]
    /\ read \in [Subscribers -> Nat]
    /\ changes \in [Subscribers -> Nat]
    /\ pings \in [Subscribers -> Nat]

(***************************************************************************)
(* The publisher.  The window has been pushed everything up to Numbered:   *)
(* its buckets cover exactly the numbers of block updates, one event each, *)
(* in order.                                                               *)
(***************************************************************************)
LogInv ==
    \A n \in 1 .. Len(log) : log[n].seq = n /\ log[n].scope \in {"block", "mempool"}

BatchInv ==
    stage = "replay" =>
        \A n \in (sent + 1) .. Len(log) :
            log[n].scope = log[sent + 1].scope /\ log[n].height = log[sent + 1].height

WindowInv ==
    /\ Sound(replay, {"finalized"})
    /\ \A i \in 1 .. Len(replay.pushed) :
        /\ 1 <= replay.pushed[i].first
        /\ replay.pushed[i].first <= replay.pushed[i].last
        /\ replay.pushed[i].last <= Numbered
        /\ \A n \in replay.pushed[i].first .. replay.pushed[i].last :
            log[n].scope = "block" /\ log[n].height = replay.pushed[i].height
    /\ \A i, j \in 1 .. Len(replay.pushed) :
        i < j => replay.pushed[i].last < replay.pushed[j].first
    /\ IF HeightCapacity = 0 THEN replay.pushed = <<>>
       ELSE \A n \in 1 .. Numbered :
                log[n].scope = "block" => \E i \in 1 .. Len(replay.pushed) : InBucket(n, i)

PublisherInv == PublisherTypes /\ LogInv /\ BatchInv /\ WindowInv

(***************************************************************************)
(* A stream.  Order is what a client sees; the rest says where its task    *)
(* stands: all it was given is below the watermark, what it captured is    *)
(* still to come and closed upwards, and what it follows live it was given *)
(* as far as its receiver has got.                                         *)
(***************************************************************************)
Order(s) ==
    /\ \A i, j \in 1 .. Len(stream[s]) :
        i < j /\ Published(stream[s][i]) /\ Published(stream[s][j])
            => stream[s][i].seq < stream[s][j].seq
    /\ Published(held[s]) =>
        \A i \in 1 .. Len(stream[s]) : Published(stream[s][i]) => stream[s][i].seq < held[s].seq

Channel(s) == read[s] <= Len(stream[s]) /\ Len(stream[s]) - read[s] <= ClientCapacity

\* Nothing is sent before the task runs; a message is held where the task waits.
Quiet(s) ==
    /\ task[s] \in {"none", "subscribed", "replayed", "refused"} => Given(s) = {}
    /\ task[s] \in {"none", "subscribed"} =>
        captured[s] = {} /\ offset[s] = 0 /\ watermark[s] = 0
    /\ task[s] \notin {"reserve", "closed"} => held[s] = Nothing
    /\ \A k \in 1 .. Len(initial[s]) : ~Published(initial[s][k])

Active(s) == task[s] \in {"replayed", "initial", "live", "reserve"}

\* The seam between replay and ring.
Seam(s) ==
    /\ start[s] <= Numbered
    /\ watermark[s] <= Larger(start[s], cursor[s])
    /\ \A g \in Given(s) : 1 <= g /\ g <= watermark[s]
    /\ task[s] \in {"replayed", "initial"} => cursor[s] <= start[s]
    /\ task[s] \in {"live", "reserve"} => captured[s] = {}
    /\ request[s].fromHeight # NoHeight =>
        \A n \in 1 .. start[s] : log[n].scope = "block" => n <= watermark[s]

Pending(s) ==
    /\ captured[s] \subseteq 1 .. Len(replay.pushed)
    /\ captured[s] = {} => offset[s] = 0
    /\ request[s].fromHeight = NoHeight => captured[s] = {}
    /\ \A i \in captured[s] :
        /\ replay.pushed[i].last <= watermark[s]
        /\ Front(s, i) => replay.pushed[i].first + offset[s] <= replay.pushed[i].last
        /\ \A g \in Given(s) : g < replay.pushed[i].first + offset[s]
        /\ \A j \in i .. Len(replay.pushed) :
            replay.pushed[j].first <= start[s] /\ replay.pushed[j].height >= request[s].fromHeight
                => j \in captured[s]

Whole(s) ==
    changes[s] = 0 =>
        /\ \A n \in (start[s] + 1) .. cursor[s] :
            /\ Matches(filter[s], log[n])
            /\ request[s].snapshot /\ log[n].scope = "mempool" => log[n].rev > revision[s]
            => n \in Given(s)
        /\ request[s].fromHeight # NoHeight =>
            \A n \in 1 .. start[s] :
                /\ Matches(filter[s], log[n])
                /\ log[n].scope = "block" /\ log[n].height >= request[s].fromHeight
                /\ \E g \in Given(s) : g < n
                => n \in Given(s) \/ ToCome(s, n)

StreamInv(s) ==
    /\ Order(s) /\ Channel(s) /\ Quiet(s)
    /\ cursor[s] <= sent
    /\ watermark[s] <= Numbered
    /\ Active(s) => Seam(s) /\ Pending(s) /\ Whole(s)

IInv == PublisherInv /\ StreamTypes /\ \A s \in Subscribers : StreamInv(s)

-----------------------------------------------------------------------------
(***************************************************************************)
(* The publisher keeps its invariant, and what it has published stays.     *)
(***************************************************************************)
\* What streams may count on from one state to the next: the log and the history of
\* the window only grow, and new buckets are of updates numbered since.
Grown ==
    /\ Len(log) <= Len(log') /\ sent <= sent' /\ Numbered <= Numbered'
    /\ \A n \in 1 .. Len(log) : log'[n] = log[n]
    /\ Len(replay.pushed) <= Len(replay'.pushed)
    /\ \A i \in 1 .. Len(replay.pushed) : replay'.pushed[i] = replay.pushed[i]
    /\ \A i \in (Len(replay.pushed) + 1) .. Len(replay'.pushed) :
        Numbered < replay'.pushed[i].first

\* The numbers and lengths a leaf needs.
LEMMA PublisherNumbers ==
    ASSUME PublisherInv
    PROVE  /\ Len(log) \in Nat /\ sent \in Nat /\ Numbered \in Nat
           /\ sent <= Numbered /\ Numbered <= Len(log)
           /\ stage # "idle" => sent < Len(log)
           /\ stage # "replay" => Numbered = Len(log)
           /\ Len(replay.pushed) \in Nat
           /\ \A n \in 1 .. Len(log) : log[n] \in Messages
           /\ \A i \in 1 .. Len(replay.pushed) : replay.pushed[i] \in BucketsOf({"finalized"})
<1>1. Len(log) \in Nat /\ \A n \in 1 .. Len(log) : log[n] \in Messages
  BY LenProperties, ElementOfSeq DEF PublisherInv, PublisherTypes
<1>2. /\ Len(replay.pushed) \in Nat
      /\ \A i \in 1 .. Len(replay.pushed) : replay.pushed[i] \in BucketsOf({"finalized"})
  BY LenProperties, ElementOfSeq DEF PublisherInv, WindowInv, Sound, Typed
<1> QED BY <1>1, <1>2 DEF PublisherInv, PublisherTypes, Numbered

\* Nothing new from the publisher.
LEMMA PublisherStays ==
    ASSUME PublisherInv, UNCHANGED publisher
    PROVE  PublisherInv' /\ Grown
<1>1. UNCHANGED <<log, sent, stage, replay, mempool>>
  BY DEF publisher
<1>2. PublisherInv'
  BY <1>1 DEF PublisherInv, PublisherTypes, LogInv, BatchInv, WindowInv, InBucket, Numbered
<1>3. Grown
  BY <1>1, PublisherNumbers DEF Grown, Numbered
<1> QED BY <1>2, <1>3

\* An eviction by a snapshot changes nothing a stream knows of the window.
LEMMA WindowEvicts ==
    ASSUME PublisherInv, UNCHANGED <<log, sent, stage, mempool>>, NEW t, EvictsTo(replay, t, replay')
    PROVE  PublisherInv' /\ Grown
<1>1. /\ Sound(replay', {"finalized"}) /\ replay'.pushed = replay.pushed
  BY EvictSound DEF PublisherInv, WindowInv
<1>2. WindowInv'
  BY <1>1 DEF PublisherInv, WindowInv, InBucket, Numbered
<1>3. PublisherInv'
  BY <1>2 DEF PublisherInv, PublisherTypes, LogInv, BatchInv, Numbered
<1>4. Grown
  BY <1>1, PublisherNumbers DEF Grown, Numbered
<1> QED BY <1>3, <1>4

\* publish_batch numbers the updates of one event: one scope, one height.
LEMMA Publishing ==
    ASSUME PublisherInv, stage = "idle", stage' = "replay", UNCHANGED <<sent, replay>>,
           mempool' \in [revision : Nat, entries : SUBSET TxIds],
           NEW new \in Seq(Messages), log' = log \o new, Len(new) > 0,
           \A k \in 1 .. Len(new) : /\ new[k].seq = Len(log) + k
                                    /\ new[k].scope = new[1].scope
                                    /\ new[k].height = new[1].height
                                    /\ new[k].scope \in {"block", "mempool"}
    PROVE  PublisherInv' /\ Grown
<1>1. /\ Len(log) \in Nat /\ sent = Len(log) /\ Numbered = Len(log) /\ Numbered' = sent
      /\ Len(replay.pushed) \in Nat
  BY PublisherNumbers DEF PublisherInv, PublisherTypes, Numbered
<1>2. /\ log' \in Seq(Messages) /\ Len(new) \in Nat /\ Len(log') = Len(log) + Len(new)
      /\ \A n \in 1 .. Len(log') : log'[n] = IF n <= Len(log) THEN log[n] ELSE new[n - Len(log)]
  BY ConcatProperties, LenProperties DEF PublisherInv, PublisherTypes
<1>3. \A n \in 1 .. Len(log) : log'[n] = log[n]
  BY <1>1, <1>2
<1>4. \A n \in (Len(log) + 1) .. Len(log') :
        log'[n] = new[n - Len(log)] /\ n - Len(log) \in 1 .. Len(new)
  BY <1>1, <1>2
<1>5. PublisherTypes'
  BY <1>1, <1>2 DEF PublisherInv, PublisherTypes
<1>6. LogInv'
  <2> SUFFICES ASSUME NEW n \in 1 .. Len(log')
               PROVE  log'[n].seq = n /\ log'[n].scope \in {"block", "mempool"}
    BY DEF LogInv
  <2>1. CASE n \in 1 .. Len(log)
    BY <2>1, <1>3 DEF PublisherInv, LogInv
  <2>2. CASE n \in (Len(log) + 1) .. Len(log')
    <3>1. new[n - Len(log)].seq = Len(log) + (n - Len(log))
      BY <2>2, <1>4
    <3> QED BY <2>2, <1>4, <3>1, <1>1
  <2> QED BY <2>1, <2>2, <1>1, <1>2
<1>7. BatchInv'
  <2> SUFFICES ASSUME NEW n \in (sent + 1) .. Len(log')
               PROVE  log'[n].scope = log'[sent + 1].scope /\ log'[n].height = log'[sent + 1].height
    BY DEF BatchInv
  <2>1. sent + 1 \in (Len(log) + 1) .. Len(log') /\ n \in (Len(log) + 1) .. Len(log')
    BY <1>1, <1>2
  <2>2. log'[sent + 1] = new[1]
    BY <2>1, <1>1, <1>4
  <2> QED BY <2>1, <2>2, <1>4
<1>8. WindowInv'
  <2>1. \A i \in 1 .. Len(replay.pushed) : \A n \in replay.pushed[i].first .. replay.pushed[i].last :
          /\ 1 <= replay.pushed[i].first /\ replay.pushed[i].last <= Len(log)
          /\ replay.pushed[i].first \in Nat /\ replay.pushed[i].last \in Nat
          /\ log'[n] = log[n]
    <3> TAKE i \in 1 .. Len(replay.pushed)
    <3>1. 1 <= replay.pushed[i].first /\ replay.pushed[i].last <= Len(log)
      BY <1>1 DEF PublisherInv, WindowInv
    <3>2. replay.pushed[i].first \in Nat /\ replay.pushed[i].last \in Nat
      BY PublisherNumbers DEF BucketsOf
    <3>3. \A n \in replay.pushed[i].first .. replay.pushed[i].last : n \in 1 .. Len(log)
      BY <1>1, <3>1, <3>2
    <3> QED BY <1>3, <3>1, <3>2, <3>3
  <2>2. \A n \in 1 .. Numbered' : log'[n] = log[n] /\ n \in 1 .. Numbered
    BY <1>1, <1>3
  <2> QED BY <1>1, <2>1, <2>2 DEF PublisherInv, WindowInv, InBucket
<1>9. Grown
  BY <1>1, <1>2, <1>3 DEF Grown
<1> QED BY <1>5, <1>6, <1>7, <1>8, <1>9 DEF PublisherInv

LEMMA LastEventIsNat == ASSUME PublisherInv PROVE LastEvent \in Nat
<1>1. CASE log = <<>>
  BY <1>1 DEF LastEvent
<1>2. CASE log # <<>>
  <2>1. Len(log) \in 1 .. Len(log)
    BY <1>2, PublisherNumbers, EmptySeq DEF PublisherInv, PublisherTypes
  <2>2. log[Len(log)].event \in Nat
    BY <2>1, PublisherNumbers DEF Messages
  <2> QED BY <1>2, <2>2 DEF LastEvent
<1> QED BY <1>1, <1>2

\* One step of the publisher.
LEMMA PublishBlockStep ==
    ASSUME PublisherInv, PublishBlock
    PROVE  PublisherInv' /\ Grown
<1>1. PICK height \in Heights : log' = log \o BlockUpdates(Len(log), LastEvent + 1, height)
  BY DEF PublishBlock
<1> DEFINE m(k) == Message("block", Len(log) + k, height, 0, "none", {}, LastEvent + 1)
           new == <<m(1), m(2)>>
<1>2. Len(log) \in Nat /\ LastEvent + 1 \in Nat
  BY PublisherNumbers, LastEventIsNat DEF PublisherInv, PublisherTypes
<1>3. m(1) \in Messages /\ m(2) \in Messages
  BY <1>2, ServerAssumption DEF Message, Messages
<1>4. /\ m(1).seq = Len(log) + 1 /\ m(2).seq = Len(log) + 2
      /\ m(1).scope = "block" /\ m(2).scope = "block"
      /\ m(1).height = height /\ m(2).height = height
  BY DEF Message
<1>5. log' = log \o new
  BY <1>1 DEF BlockUpdates
<1> HIDE DEF m
<1>6. new \in Seq(Messages) /\ Len(new) = 2 /\ new[1] = m(1) /\ new[2] = m(2)
  BY <1>3
<1>7. \A k \in 1 .. Len(new) : k = 1 \/ k = 2
  BY <1>6
<1>8. \A k \in 1 .. Len(new) : /\ new[k].seq = Len(log) + k
                               /\ new[k].scope = new[1].scope
                               /\ new[k].height = new[1].height
                               /\ new[k].scope \in {"block", "mempool"}
  BY <1>4, <1>6, <1>7
<1>9. mempool' \in [revision : Nat, entries : SUBSET TxIds]
  BY DEF PublishBlock, PublisherInv, PublisherTypes
<1> HIDE DEF new
<1>10. stage = "idle" /\ stage' = "replay" /\ UNCHANGED <<sent, replay>> /\ Len(new) > 0
  BY <1>6 DEF PublishBlock
<1> QED BY <1>5, <1>6, <1>8, <1>9, <1>10, Publishing

LEMMA PublishMempoolStep ==
    ASSUME PublisherInv, PublishMempool
    PROVE  PublisherInv' /\ Grown
<1>1. PICK action \in {"added", "removed"}, id \in TxIds :
        /\ log' = log \o MempoolUpdates(Len(log), LastEvent + 1, mempool.revision + 1, action, id)
        /\ mempool' = [revision |-> mempool.revision + 1,
                       entries |-> IF action = "added" THEN mempool.entries \union {id}
                                   ELSE mempool.entries \ {id}]
  BY DEF PublishMempool
<1> DEFINE m(k) == Message("mempool", Len(log) + k, 0, mempool.revision + 1, action, {id},
                           LastEvent + 1)
           new == IF action = "added" THEN <<m(1), m(2)>> ELSE <<m(1)>>
<1>2. Len(log) \in Nat /\ LastEvent + 1 \in Nat /\ mempool.revision + 1 \in Nat
      /\ mempool.entries \subseteq TxIds
  BY PublisherNumbers, LastEventIsNat DEF PublisherInv, PublisherTypes
<1>3. m(1) \in Messages /\ m(2) \in Messages
  BY <1>2 DEF Message, Messages
<1>4. /\ m(1).seq = Len(log) + 1 /\ m(2).seq = Len(log) + 2
      /\ m(1).scope = "mempool" /\ m(2).scope = "mempool"
      /\ m(1).height = 0 /\ m(2).height = 0
  BY DEF Message
<1>5. log' = log \o new
  BY <1>1 DEF MempoolUpdates
<1> HIDE DEF m
<1>6. /\ new \in Seq(Messages) /\ Len(new) \in {1, 2} /\ new[1] = m(1)
      /\ Len(new) = 2 => new[2] = m(2)
  BY <1>3
<1>7. \A k \in 1 .. Len(new) : k = 1 \/ (k = 2 /\ Len(new) = 2)
  BY <1>6
<1>8. \A k \in 1 .. Len(new) : /\ new[k].seq = Len(log) + k
                               /\ new[k].scope = new[1].scope
                               /\ new[k].height = new[1].height
                               /\ new[k].scope \in {"block", "mempool"}
  BY <1>4, <1>6, <1>7
<1>9. mempool' \in [revision : Nat, entries : SUBSET TxIds]
  BY <1>1, <1>2
<1> HIDE DEF new
<1>10. stage = "idle" /\ stage' = "replay" /\ UNCHANGED <<sent, replay>> /\ Len(new) > 0
  BY <1>6 DEF PublishMempool
<1> QED BY <1>5, <1>6, <1>8, <1>9, <1>10, Publishing

\* The bucket pushed covers exactly what has been numbered and not sent.
LEMMA PushReplayStep ==
    ASSUME PublisherInv, PushReplay
    PROVE  PublisherInv' /\ Grown
<1> DEFINE m == log[sent + 1]
           b == Batch(m.height, "finalized", sent + 1, Len(log), 1)
           n == Len(replay.pushed)
<1>1. /\ stage = "replay" /\ stage' = "send" /\ log' = log /\ sent' = sent /\ mempool' = mempool
      /\ Len(log) \in Nat /\ sent \in Nat /\ sent < Len(log) /\ n \in Nat
      /\ Numbered = sent /\ Numbered' = Len(log)
      /\ m \in Messages
  BY PublisherNumbers DEF PushReplay, Numbered
<1>2. PublisherTypes' /\ LogInv' /\ BatchInv'
  BY <1>1 DEF PublisherInv, PublisherTypes, LogInv, BatchInv
<1>3. \A k \in (sent + 1) .. Len(log) : log[k].scope = m.scope /\ log[k].height = m.height
  BY <1>1 DEF PublisherInv, BatchInv
<1>4. \A i \in 1 .. n : replay.pushed[i].first \in Nat /\ replay.pushed[i].last \in Nat
  BY PublisherNumbers DEF BucketsOf
<1>5. CASE HeightCapacity = 0
  <2>1. replay' = replay
    BY <1>5 DEF PushReplay, PushesTo, HeightlessPushesTo
  <2>2. WindowInv'
    BY <1>1, <1>5, <2>1 DEF PublisherInv, WindowInv, InBucket
  <2> QED BY <1>1, <1>2, <2>1, <2>2 DEF PublisherInv, Grown
<1>6. CASE HeightCapacity # 0 /\ m.scope # "block"
  <2>1. EvictsTo(replay, 0, replay')
    BY <1>6 DEF PushReplay, HeightlessPushesTo
  <2>2. Sound(replay', {"finalized"}) /\ replay'.pushed = replay.pushed
    BY <2>1, EvictSound DEF PublisherInv, WindowInv
  <2>3. \A k \in 1 .. Len(log) : log[k].scope = "block" => k \in 1 .. sent
    BY <1>1, <1>3, <1>6
  <2>4. WindowInv'
    <3>1. \A i \in 1 .. n : replay.pushed[i].last <= Numbered'
      BY <1>1, <1>4 DEF PublisherInv, WindowInv
    <3>2. \A k \in 1 .. Numbered' :
            log[k].scope = "block" => \E i \in 1 .. n : InBucket(k, i)
      BY <1>1, <1>6, <2>3 DEF PublisherInv, WindowInv
    <3>3. \A k : \A i \in 1 .. n : InBucket(k, i)' <=> InBucket(k, i)
      BY <2>2 DEF InBucket
    <3>4. \A i \in 1 .. n : /\ 1 <= replay.pushed[i].first
                            /\ replay.pushed[i].first <= replay.pushed[i].last
                            /\ \A k \in replay.pushed[i].first .. replay.pushed[i].last :
                                log[k].scope = "block" /\ log[k].height = replay.pushed[i].height
      BY DEF PublisherInv, WindowInv
    <3>5. \A i, j \in 1 .. n : i < j => replay.pushed[i].last < replay.pushed[j].first
      BY DEF PublisherInv, WindowInv
    <3> QED BY <1>1, <1>6, <2>2, <3>1, <3>2, <3>3, <3>4, <3>5 DEF WindowInv
  <2> QED BY <1>1, <1>2, <2>2, <2>4 DEF PublisherInv, Grown
<1>7. CASE HeightCapacity # 0 /\ m.scope = "block"
  <2>1. PushesTo(replay, b, 0, replay')
    BY <1>7 DEF PushReplay
  <2>2. IsBatch(b, {"finalized"}) /\ b.height = m.height /\ b.first = sent + 1 /\ b.last = Len(log)
    BY <1>1 DEF Batch, IsBatch, Messages
  <2> HIDE DEF b
  <2>3. /\ Sound(replay', {"finalized"}) /\ Len(replay'.pushed) = n + 1
        /\ \A i \in 1 .. n : replay'.pushed[i] = replay.pushed[i]
        /\ replay'.pushed[n + 1] = Bucket(replay, b, 0)
    BY <1>7, <2>1, <2>2, PushesSound DEF PublisherInv, WindowInv
  <2>4. LET c == replay'.pushed[n + 1]
        IN c.height = m.height /\ c.first = sent + 1 /\ c.last = Len(log)
    BY <2>2, <2>3 DEF Bucket
  <2>5. \A i \in 1 .. n : /\ 1 <= replay'.pushed[i].first
                          /\ replay'.pushed[i].first <= replay'.pushed[i].last
                          /\ replay'.pushed[i].last <= sent
                          /\ \A k \in replay'.pushed[i].first .. replay'.pushed[i].last :
                              log[k].scope = "block" /\ log[k].height = replay'.pushed[i].height
    BY <1>1, <2>3 DEF PublisherInv, WindowInv
  <2>6. \A i \in 1 .. (n + 1) : i \in 1 .. n \/ i = n + 1
    BY <1>1
  <2>7. \A i \in 1 .. Len(replay'.pushed) :
          /\ 1 <= replay'.pushed[i].first
          /\ replay'.pushed[i].first <= replay'.pushed[i].last
          /\ replay'.pushed[i].last <= Len(log)
          /\ \A k \in replay'.pushed[i].first .. replay'.pushed[i].last :
              log[k].scope = "block" /\ log[k].height = replay'.pushed[i].height
    <3> TAKE i \in 1 .. Len(replay'.pushed)
    <3>1. CASE i \in 1 .. n
      <4>1. replay'.pushed[i].last \in Nat
        BY <3>1, <2>3, <1>4
      <4> QED BY <3>1, <4>1, <2>5, <1>1
    <3>2. CASE i = n + 1
      BY <3>2, <2>4, <1>1, <1>3, <1>7
    <3> QED BY <3>1, <3>2, <2>3, <2>6
  <2>8. \A i, j \in 1 .. Len(replay'.pushed) :
          i < j => replay'.pushed[i].last < replay'.pushed[j].first
    <3> SUFFICES ASSUME NEW i \in 1 .. (n + 1), NEW j \in 1 .. (n + 1), i < j
                 PROVE  replay'.pushed[i].last < replay'.pushed[j].first
      BY <2>3
    <3>1. i \in 1 .. n
      BY <1>1
    <3>2. CASE j \in 1 .. n
      BY <3>1, <3>2, <2>3 DEF PublisherInv, WindowInv
    <3>3. CASE j = n + 1
      <4>1. replay'.pushed[i].last <= sent /\ replay'.pushed[i].last \in Nat
        BY <3>1, <2>3, <2>5, <1>4
      <4> QED BY <3>3, <4>1, <2>4, <1>1
    <3> QED BY <3>2, <3>3, <2>6
  <2>9. \A k \in 1 .. Numbered' :
          log[k].scope = "block" => \E i \in 1 .. Len(replay'.pushed) : InBucket(k, i)'
    <3> SUFFICES ASSUME NEW k \in 1 .. Len(log), log[k].scope = "block"
                 PROVE  \E i \in 1 .. (n + 1) :
                            k \in replay'.pushed[i].first .. replay'.pushed[i].last
      BY <1>1, <2>3 DEF InBucket
    <3>1. CASE k <= sent
      <4>1. PICK i \in 1 .. n : InBucket(k, i)
        BY <1>1, <1>7, <3>1 DEF PublisherInv, WindowInv
      <4>2. replay'.pushed[i] = replay.pushed[i] /\ i \in 1 .. (n + 1)
        BY <1>1, <2>3
      <4> QED BY <4>1, <4>2 DEF InBucket
    <3>2. CASE k > sent
      BY <3>2, <2>4, <1>1
    <3> QED BY <3>1, <3>2, <1>1
  <2>10. WindowInv'
    BY <1>1, <1>7, <2>3, <2>7, <2>8, <2>9 DEF WindowInv
  <2>11. Grown
    BY <1>1, <2>3, <2>4 DEF Grown
  <2> QED BY <1>2, <2>10, <2>11 DEF PublisherInv
<1> QED BY <1>5, <1>6, <1>7

LEMMA SendLiveStep ==
    ASSUME PublisherInv, SendLive
    PROVE  PublisherInv' /\ Grown
<1>1. /\ stage = "send" /\ sent' = sent + 1 /\ log' = log /\ replay' = replay /\ mempool' = mempool
      /\ stage' = IF sent + 1 = Len(log) THEN "idle" ELSE "send"
  BY DEF SendLive
<1>2. /\ Len(log) \in Nat /\ sent \in Nat /\ sent < Len(log) /\ Len(replay.pushed) \in Nat
      /\ Numbered = Len(log) /\ Numbered' = Len(log)
  BY <1>1, PublisherNumbers DEF Numbered
<1>3. PublisherTypes'
  BY <1>1, <1>2 DEF PublisherInv, PublisherTypes
<1>4. LogInv' /\ BatchInv' /\ WindowInv'
  BY <1>1, <1>2 DEF PublisherInv, LogInv, BatchInv, WindowInv, InBucket
<1>5. Grown
  BY <1>1, <1>2 DEF Grown
<1> QED BY <1>3, <1>4, <1>5 DEF PublisherInv

LEMMA PublisherStep ==
    ASSUME PublisherInv, PublishBlock \/ PublishMempool \/ PushReplay \/ SendLive
    PROVE  PublisherInv' /\ Grown
BY PublishBlockStep, PublishMempoolStep, PushReplayStep, SendLiveStep

-----------------------------------------------------------------------------
(***************************************************************************)
(* A stream whose own state is left alone.                                 *)
(***************************************************************************)
Same(s) ==
    /\ task'[s] = task[s] /\ request'[s] = request[s] /\ cursor'[s] = cursor[s]
    /\ watermark'[s] = watermark[s] /\ revision'[s] = revision[s] /\ start'[s] = start[s]
    /\ initial'[s] = initial[s] /\ captured'[s] = captured[s] /\ offset'[s] = offset[s]
    /\ filter'[s] = filter[s] /\ held'[s] = held[s] /\ stream'[s] = stream[s]
    /\ read'[s] = read[s] /\ changes'[s] = changes[s] /\ pings'[s] = pings[s]

\* The values of a stream's variables.
LEMMA StreamNumbers ==
    ASSUME StreamTypes, NEW s \in Subscribers
    PROVE  /\ cursor[s] \in Nat /\ watermark[s] \in Nat /\ start[s] \in Nat /\ offset[s] \in Nat
           /\ revision[s] \in Nat /\ read[s] \in Nat /\ changes[s] \in Nat
           /\ captured[s] \subseteq Nat /\ Len(stream[s]) \in Nat /\ held[s] \in Messages
           /\ stream[s] \in Seq(Messages) /\ initial[s] \in Seq(Messages)
           /\ DOMAIN stream[s] = 1 .. Len(stream[s])
           /\ \A i \in 1 .. Len(stream[s]) : stream[s][i] \in Messages
           /\ Given(s) \subseteq Nat
<1>1. stream[s] \in Seq(Messages) /\ held[s] \in Messages
  BY DEF StreamTypes
<1>2. /\ Len(stream[s]) \in Nat /\ DOMAIN stream[s] = 1 .. Len(stream[s])
      /\ \A i \in 1 .. Len(stream[s]) : stream[s][i] \in Messages
  BY <1>1, LenProperties, ElementOfSeq
<1>3. Given(s) \subseteq Nat
  <2>1. \A m \in Messages : m.seq \in Nat
    BY DEF Messages
  <2>2. held[s].seq \in Nat /\ \A i \in 1 .. Len(stream[s]) : stream[s][i].seq \in Nat
    BY <1>1, <1>2, <2>1
  <2> QED BY <1>2, <2>2 DEF Given, Delivered
<1> QED BY <1>1, <1>2, <1>3 DEF StreamTypes

LEMMA Frame ==
    ASSUME PublisherInv, PublisherInv', Grown, StreamTypes,
           NEW s \in Subscribers, StreamInv(s), Same(s)
    PROVE  StreamInv(s)'
<1>1. Given(s)' = Given(s)
  BY DEF Same, Given, Delivered
<1>2. Order(s)' /\ Channel(s)' /\ Quiet(s)'
  BY <1>1 DEF StreamInv, Same, Order, Channel, Quiet
<1>3. /\ Len(log) \in Nat /\ Len(log') \in Nat /\ sent \in Nat /\ sent' \in Nat
      /\ Numbered \in Nat /\ Numbered' \in Nat /\ sent <= Numbered /\ Numbered <= Len(log)
      /\ Len(replay.pushed) \in Nat /\ Len(replay'.pushed) \in Nat
  <2>1. Len(log') \in Nat /\ sent' \in Nat /\ sent' <= Len(log') /\ Len(replay'.pushed) \in Nat
    BY LenProperties DEF PublisherInv, PublisherTypes, WindowInv, Sound, Typed
  <2>2. Numbered' \in Nat
    BY <2>1 DEF Numbered
  <2> QED BY <2>1, <2>2, PublisherNumbers
<1>4. /\ cursor[s] \in Nat /\ start[s] \in Nat /\ watermark[s] \in Nat /\ offset[s] \in Nat
      /\ captured[s] \subseteq Nat
  BY StreamNumbers
<1>5. cursor'[s] <= sent' /\ watermark'[s] <= Numbered'
  BY <1>3, <1>4 DEF StreamInv, Same, Grown
<1>6. \A n \in 1 .. Numbered : log'[n] = log[n]
  BY <1>3 DEF Grown
<1> SUFFICES ASSUME Active(s) PROVE Seam(s)' /\ Pending(s)' /\ Whole(s)'
  BY <1>2, <1>5 DEF StreamInv, Active, Same
<1>7. Seam(s) /\ Pending(s) /\ Whole(s)
  BY DEF StreamInv
<1>8. start[s] <= Numbered /\ start[s] <= Numbered'
  BY <1>3, <1>4, <1>7 DEF Seam, Grown
<1>9. Seam(s)'
  <2>1. \A n \in 1 .. start[s] : log'[n] = log[n]
    BY <1>3, <1>4, <1>6, <1>8
  <2> QED BY <1>1, <1>7, <1>8, <2>1 DEF Seam, Same, Larger
<1>10. \A i \in captured[s] : i \in 1 .. Len(replay.pushed) /\ replay'.pushed[i] = replay.pushed[i]
  BY <1>7 DEF Pending, Grown
<1>11. \A i : Front(s, i)' <=> Front(s, i)
  BY DEF Front, Same
<1>12. Pending(s)'
  <2>1. captured[s] \subseteq 1 .. Len(replay'.pushed)
    BY <1>3, <1>10 DEF Grown
  <2>2. ASSUME NEW i \in captured[s], NEW j \in i .. Len(replay'.pushed),
               replay'.pushed[j].first <= start[s], replay'.pushed[j].height >= request[s].fromHeight
        PROVE  j \in captured[s]
    <3>1. j \in 1 .. Len(replay'.pushed)
      BY <2>1, <2>2, <1>3, <1>4
    <3>2. CASE j \in 1 .. Len(replay.pushed)
      <4>1. replay'.pushed[j] = replay.pushed[j]
        BY <3>2 DEF Grown
      <4>2. i \in Nat
        BY <1>4
      <4>3. j \in i .. Len(replay.pushed)
        BY <3>2, <2>2, <4>2, <1>3
      <4> QED BY <4>1, <4>3, <2>2, <1>7 DEF Pending
    <3>3. CASE j \in (Len(replay.pushed) + 1) .. Len(replay'.pushed)
      <4>1. Numbered < replay'.pushed[j].first
        BY <3>3 DEF Grown
      <4>2. replay'.pushed[j].first \in Nat
        <5>1. replay'.pushed[j] \in BucketsOf({"finalized"})
          BY <3>1, ElementOfSeq DEF PublisherInv, WindowInv, Sound, Typed
        <5> QED BY <5>1 DEF BucketsOf
      <4> QED BY <4>1, <4>2, <2>2, <1>3, <1>4, <1>8, SMTT(30)
    <3> QED BY <3>1, <3>2, <3>3, <1>3
  <2>3. \A i \in captured[s] :
          /\ replay'.pushed[i].last <= watermark[s]
          /\ Front(s, i) => replay'.pushed[i].first + offset[s] <= replay'.pushed[i].last
          /\ \A g \in Given(s) : g < replay'.pushed[i].first + offset[s]
    BY <1>7, <1>10 DEF Pending
  <2>4. request'[s] = request[s] /\ captured'[s] = captured[s] /\ offset'[s] = offset[s]
        /\ watermark'[s] = watermark[s] /\ start'[s] = start[s]
    BY DEF Same
  <2>5. captured[s] = {} => offset[s] = 0
    BY <1>7 DEF Pending
  <2>6. request[s].fromHeight = NoHeight => captured[s] = {}
    BY <1>7 DEF Pending
  <2> QED BY <1>1, <1>11, <2>1, <2>2, <2>3, <2>4, <2>5, <2>6 DEF Pending
<1>13. Whole(s)'
  <2>1. \A n : ToCome(s, n)' <=> ToCome(s, n)
    BY <1>10, <1>11 DEF ToCome, InBucket, Same
  <2>2. \A n \in (start[s] + 1) .. cursor[s] : log'[n] = log[n]
    <3>1. cursor[s] <= sent
      BY DEF StreamInv
    <3>2. \A n \in (start[s] + 1) .. cursor[s] : n \in 1 .. Numbered
      BY <1>3, <1>4, <3>1
    <3> QED BY <3>2, <1>6
  <2>3. \A n \in 1 .. start[s] : log'[n] = log[n]
    BY <1>3, <1>4, <1>6, <1>8
  <2> QED BY <1>1, <1>7, <2>1, <2>2, <2>3 DEF Whole, Same, Matches, EventTypeOf
<1> QED BY <1>9, <1>12, <1>13

-----------------------------------------------------------------------------
(***************************************************************************)
(* What is put into a response channel.                                    *)
(***************************************************************************)
\* Appending to one stream.
LEMMA PutAppends ==
    ASSUME StreamTypes, NEW s \in Subscribers, NEW m \in Messages, Put(s, m)
    PROVE  /\ stream' \in [Subscribers -> Seq(Messages)]
           /\ \A t \in Subscribers \ {s} : stream'[t] = stream[t]
           /\ Len(stream[s]) \in Nat /\ Len(stream'[s]) = Len(stream[s]) + 1
           /\ DOMAIN stream'[s] = 1 .. (Len(stream[s]) + 1)
           /\ \A i \in 1 .. Len(stream[s]) : stream'[s][i] = stream[s][i]
           /\ stream'[s][Len(stream[s]) + 1] = m
<1>1. stream[s] \in Seq(Messages) /\ stream'[s] = Append(stream[s], m)
      /\ \A t \in Subscribers \ {s} : stream'[t] = stream[t]
  BY DEF StreamTypes, Put
<1>2. /\ Append(stream[s], m) \in Seq(Messages)
      /\ Len(stream[s]) \in Nat /\ Len(Append(stream[s], m)) = Len(stream[s]) + 1
      /\ \A i \in 1 .. Len(stream[s]) : Append(stream[s], m)[i] = stream[s][i]
      /\ Append(stream[s], m)[Len(stream[s]) + 1] = m
  BY <1>1, AppendProperties, LenProperties
<1>3. DOMAIN stream'[s] = 1 .. (Len(stream[s]) + 1)
  BY <1>1, <1>2, LenProperties
<1>4. stream' \in [Subscribers -> Seq(Messages)]
  BY <1>1, <1>2 DEF StreamTypes, Put
<1> QED BY <1>1, <1>2, <1>3, <1>4

\* A message of this stream's own: no published update more.
LEMMA PutUnpublished ==
    ASSUME StreamTypes, NEW s \in Subscribers, NEW m \in Messages, Put(s, m), ~Published(m),
           held'[s] = held[s], read'[s] = read[s], HasRoom(s), Order(s), Channel(s)
    PROVE  Given(s)' = Given(s) /\ Order(s)' /\ Channel(s)'
<1> DEFINE n == Len(stream[s])
<1>1. /\ n \in Nat /\ Len(stream'[s]) = n + 1 /\ DOMAIN stream'[s] = 1 .. (n + 1)
      /\ \A i \in 1 .. n : stream'[s][i] = stream[s][i]
      /\ stream'[s][n + 1] = m
      /\ DOMAIN stream[s] = 1 .. n /\ read[s] \in Nat
  BY PutAppends, StreamNumbers
<1>2. \A i \in 1 .. (n + 1) : i \in 1 .. n \/ i = n + 1
  BY <1>1
<1>3. \A i \in 1 .. (n + 1) : Published(stream'[s][i]) => i \in 1 .. n
  BY <1>1, <1>2
<1>4. \A i \in 1 .. n : i \in 1 .. (n + 1)
  BY <1>1
<1>5. Given(s)' = Given(s)
  <2>1. {i \in DOMAIN stream'[s] : Published(stream'[s][i])}
          = {i \in DOMAIN stream[s] : Published(stream[s][i])}
    BY <1>1, <1>3, <1>4
  <2>2. {stream'[s][i].seq : i \in {j \in DOMAIN stream[s] : Published(stream[s][j])}}
          = {stream[s][i].seq : i \in {j \in DOMAIN stream[s] : Published(stream[s][j])}}
    BY <1>1
  <2> QED BY <2>1, <2>2 DEF Given, Delivered
<1>6. Order(s)'
  BY <1>1, <1>3 DEF Order
<1>7. Channel(s)'
  BY <1>1, ServerAssumption DEF Channel, HasRoom
<1> QED BY <1>5, <1>6, <1>7

\* A published update above all those given: the next in order.
LEMMA PutPublished ==
    ASSUME StreamTypes, NEW s \in Subscribers, NEW m \in Messages, Put(s, m), Published(m),
           held'[s] = held[s], ~Published(held[s]), read'[s] = read[s], HasRoom(s), Order(s),
           Channel(s), \A g \in Given(s) : g < m.seq
    PROVE  Given(s)' = Given(s) \union {m.seq} /\ Order(s)' /\ Channel(s)'
<1> DEFINE n == Len(stream[s])
<1>1. /\ n \in Nat /\ Len(stream'[s]) = n + 1 /\ DOMAIN stream'[s] = 1 .. (n + 1)
      /\ \A i \in 1 .. n : stream'[s][i] = stream[s][i]
      /\ stream'[s][n + 1] = m
      /\ DOMAIN stream[s] = 1 .. n /\ read[s] \in Nat
  BY PutAppends, StreamNumbers
<1>2. \A i \in 1 .. (n + 1) : i \in 1 .. n \/ i = n + 1
  BY <1>1
<1>3. \A g : g \in Given(s)' <=> \E i \in 1 .. (n + 1) :
                                    Published(stream'[s][i]) /\ g = stream'[s][i].seq
  BY <1>1 DEF Given, Delivered
<1>4. \A g : g \in Given(s) <=> \E i \in 1 .. n : Published(stream[s][i]) /\ g = stream[s][i].seq
  BY <1>1 DEF Given, Delivered
<1>5. Given(s)' = Given(s) \union {m.seq}
  <2>1. \A g : g \in Given(s)' => g \in Given(s) \union {m.seq}
    BY <1>1, <1>2, <1>3, <1>4
  <2>2. \A g : g \in Given(s) => g \in Given(s)'
    <3>1. \A i \in 1 .. n : i \in 1 .. (n + 1)
      BY <1>1
    <3> QED BY <1>1, <1>3, <1>4, <3>1, SMTT(30)
  <2>3. m.seq \in Given(s)'
    <3>1. n + 1 \in 1 .. (n + 1)
      BY <1>1
    <3> QED BY <1>1, <1>3, <3>1
  <2> QED BY <2>1, <2>2, <2>3
<1>6. Order(s)'
  <2> SUFFICES ASSUME NEW i \in 1 .. (n + 1), NEW j \in 1 .. (n + 1), i < j,
                      Published(stream'[s][i]), Published(stream'[s][j])
               PROVE  stream'[s][i].seq < stream'[s][j].seq
    BY <1>1 DEF Order
  <2>1. i \in 1 .. n
    BY <1>1
  <2>2. CASE j \in 1 .. n
    BY <2>1, <2>2, <1>1 DEF Order
  <2>3. CASE j = n + 1
    <3>1. stream[s][i].seq \in Given(s)
      BY <2>1, <1>1, <1>4
    <3> QED BY <2>1, <2>3, <3>1, <1>1
  <2> QED BY <1>2, <2>2, <2>3
<1>7. Channel(s)'
  BY <1>1, ServerAssumption DEF Channel, HasRoom
<1> QED BY <1>5, <1>6, <1>7

\* The message that was waited with: it was counted as given already.
LEMMA PutHeld ==
    ASSUME StreamTypes, NEW s \in Subscribers, Put(s, held[s]), ~Published(held'[s]),
           read'[s] = read[s], HasRoom(s), Order(s), Channel(s)
    PROVE  Given(s)' = Given(s) /\ Order(s)' /\ Channel(s)'
<1> DEFINE n == Len(stream[s])
<1>1. /\ n \in Nat /\ Len(stream'[s]) = n + 1 /\ DOMAIN stream'[s] = 1 .. (n + 1)
      /\ \A i \in 1 .. n : stream'[s][i] = stream[s][i]
      /\ stream'[s][n + 1] = held[s]
      /\ DOMAIN stream[s] = 1 .. n /\ read[s] \in Nat
  BY PutAppends, StreamNumbers
<1>2. \A i \in 1 .. (n + 1) : i \in 1 .. n \/ i = n + 1
  BY <1>1
<1>3. \A g : g \in Given(s)' <=> \E i \in 1 .. (n + 1) :
                                    Published(stream'[s][i]) /\ g = stream'[s][i].seq
  BY <1>1 DEF Given, Delivered
<1>4. \A g : g \in Given(s) <=>
          \/ \E i \in 1 .. n : Published(stream[s][i]) /\ g = stream[s][i].seq
          \/ Published(held[s]) /\ g = held[s].seq
  BY <1>1 DEF Given, Delivered
<1>5. Given(s)' = Given(s)
  <2>1. \A g : g \in Given(s)' => g \in Given(s)
    BY <1>1, <1>2, <1>3, <1>4
  <2>2. \A g : g \in Given(s) => g \in Given(s)'
    <3>1. (\A i \in 1 .. n : i \in 1 .. (n + 1)) /\ n + 1 \in 1 .. (n + 1)
      BY <1>1
    <3> QED BY <1>1, <1>3, <1>4, <3>1
  <2> QED BY <2>1, <2>2
<1>6. Order(s)'
  <2> SUFFICES ASSUME NEW i \in 1 .. (n + 1), NEW j \in 1 .. (n + 1), i < j,
                      Published(stream'[s][i]), Published(stream'[s][j])
               PROVE  stream'[s][i].seq < stream'[s][j].seq
    BY <1>1 DEF Order
  <2>1. i \in 1 .. n
    BY <1>1
  <2>2. CASE j \in 1 .. n
    BY <2>1, <2>2, <1>1 DEF Order
  <2>3. CASE j = n + 1
    BY <2>1, <2>3, <1>1 DEF Order
  <2> QED BY <1>2, <2>2, <2>3
<1>7. Channel(s)'
  BY <1>1, ServerAssumption DEF Channel, HasRoom
<1> QED BY <1>5, <1>6, <1>7

\* Where the seam, the replay and what was followed are as they were.
LEMMA Unmoved ==
    ASSUME UNCHANGED publisher, NEW s \in Subscribers, Given(s)' = Given(s),
           cursor'[s] = cursor[s], watermark'[s] = watermark[s], start'[s] = start[s],
           captured'[s] = captured[s], offset'[s] = offset[s], request'[s] = request[s],
           revision'[s] = revision[s], Seam(s), Pending(s), Whole(s),
           \/ changes'[s] = changes[s] /\ filter'[s] = filter[s]
           \/ changes'[s] # 0,
           task'[s] \in {"replayed", "initial"} => cursor[s] <= start[s],
           task'[s] \in {"live", "reserve"} => captured[s] = {}
    PROVE  Seam(s)' /\ Pending(s)' /\ Whole(s)'
<1>1. log' = log /\ sent' = sent /\ stage' = stage /\ replay' = replay
  BY DEF publisher
<1>2. Seam(s)'
  BY <1>1 DEF Seam, Numbered
<1>3. \A i : Front(s, i)' <=> Front(s, i)
  BY DEF Front
<1>4. Pending(s)'
  BY <1>1, <1>3 DEF Pending
<1>5. \A n : ToCome(s, n)' <=> ToCome(s, n)
  BY <1>1, <1>3 DEF ToCome, InBucket
<1>6. Whole(s)'
  BY <1>1, <1>5 DEF Whole, Matches
<1> QED BY <1>2, <1>4, <1>6

-----------------------------------------------------------------------------
(***************************************************************************)
(* The steps of a stream, one lemma per action.                            *)
(***************************************************************************)
Stepped(s) ==
    /\ PublisherInv' /\ Grown /\ StreamTypes' /\ StreamInv(s)'
    /\ \A t \in Subscribers \ {s} : Same(t)

Subscribing(s) == s \in Subscribers /\ IInv

LEMMA SubscribeLiveStep ==
    ASSUME NEW s, Subscribing(s), SubscribeLive(s)
    PROVE  Stepped(s)
<1>1. s \in Subscribers /\ PublisherInv /\ StreamTypes /\ StreamInv(s)
  BY DEF Subscribing, IInv
<1>2. UNCHANGED publisher /\ UNCHANGED <<request, watermark, revision, start, initial, captured,
                                         offset, filter, held, stream, read, changes, pings>>
  BY DEF SubscribeLive, opening, channel, control
<1>3. /\ task[s] = "none" /\ task' = [task EXCEPT ![s] = "subscribed"]
      /\ cursor' = [cursor EXCEPT ![s] = sent]
  BY DEF SubscribeLive
<1>4. PublisherInv' /\ Grown
  BY <1>1, <1>2, PublisherStays
<1>5. StreamTypes'
  BY <1>1, <1>2, <1>3, PublisherNumbers DEF StreamTypes
<1>6. \A t \in Subscribers \ {s} : Same(t)
  BY <1>1, <1>2, <1>3 DEF Same, StreamTypes
<1>7. StreamInv(s)'
  <2>1. task'[s] = "subscribed" /\ cursor'[s] = sent /\ sent' = sent /\ Numbered' = Numbered
    BY <1>1, <1>2, <1>3 DEF StreamTypes, publisher, Numbered
  <2>2. Given(s)' = Given(s)
    BY <1>2 DEF Given, Delivered
  <2>3. Order(s)' /\ Channel(s)' /\ Quiet(s)'
    BY <1>1, <1>2, <1>3, <2>1, <2>2 DEF StreamInv, Order, Channel, Quiet
  <2> QED BY <1>1, <1>2, <2>1, <2>3, PublisherNumbers DEF StreamInv, Active
<1> QED BY <1>4, <1>5, <1>6, <1>7 DEF Stepped

LEMMA SnapshotMempoolStep ==
    ASSUME NEW s, Subscribing(s), SnapshotMempool(s)
    PROVE  Stepped(s)
<1>1. s \in Subscribers /\ PublisherInv /\ StreamTypes /\ StreamInv(s)
  BY DEF Subscribing, IInv
<1>2. UNCHANGED publisher /\ UNCHANGED <<request, cursor, watermark, start, captured, offset,
                                         filter, held, stream, read, changes, pings>>
  BY DEF SnapshotMempool, channel, control
<1> DEFINE rev == mempool.revision
           first == IF request[s].resume THEN <<Marker("reconnect", 0)>> ELSE <<>>
           snapshot == IF request[s].snapshot
                       THEN <<Marker("begin", rev)>> \o SnapshotUpdates(mempool.entries, rev)
                            \o <<Marker("end", rev)>>
                       ELSE <<>>
           Own == {m \in Messages : ~Published(m)}
<1>3. /\ task[s] = "replayed" /\ task' = [task EXCEPT ![s] = "initial"]
      /\ revision' = [revision EXCEPT ![s] = IF request[s].snapshot THEN rev ELSE 0]
      /\ initial' = [initial EXCEPT ![s] = first \o snapshot]
  BY DEF SnapshotMempool
<1>4. PublisherInv' /\ Grown
  BY <1>1, <1>2, PublisherStays
<1>5. rev \in Nat /\ mempool.entries \subseteq TxIds
  BY <1>1 DEF PublisherInv, PublisherTypes
<1>6. first \o snapshot \in Seq(Own)
  <2>1. Marker("reconnect", 0) \in Own /\ Marker("begin", rev) \in Own /\ Marker("end", rev) \in Own
    BY <1>5 DEF Marker, Message, Messages, Published
  <2>2. Message("snapshot", 0, 0, rev, "added", mempool.entries, 0) \in Own
    BY <1>5 DEF Message, Messages, Published
  <2> HIDE DEF Own
  <2>3. SnapshotUpdates(mempool.entries, rev) \in Seq(Own)
    BY <2>2 DEF SnapshotUpdates
  <2>4. <<Marker("begin", rev)>> \in Seq(Own) /\ <<Marker("end", rev)>> \in Seq(Own)
        /\ first \in Seq(Own)
    BY <2>1
  <2>5. <<Marker("begin", rev)>> \o SnapshotUpdates(mempool.entries, rev) \in Seq(Own)
    BY <2>3, <2>4, ConcatProperties
  <2>6. snapshot \in Seq(Own)
    BY <2>4, <2>5, ConcatProperties
  <2> QED BY <2>4, <2>6, ConcatProperties
<1>7. first \o snapshot \in Seq(Messages)
      /\ \A k \in 1 .. Len(first \o snapshot) : ~Published((first \o snapshot)[k])
  <2> DEFINE i == first \o snapshot
  <2>1. i \in Seq(Own)
    BY <1>6
  <2> HIDE DEF first, snapshot, i
  <2>2. Len(i) \in Nat /\ \A k \in 1 .. Len(i) : i[k] \in Own
    BY <2>1, LenProperties, ElementOfSeq
  <2>3. i \in Seq(Messages)
    BY <2>1
  <2> QED BY <2>2, <2>3 DEF i
<1> HIDE DEF first, snapshot
<1>8. StreamTypes'
  BY <1>1, <1>2, <1>3, <1>5, <1>7 DEF StreamTypes
<1>9. \A t \in Subscribers \ {s} : Same(t)
  BY <1>1, <1>2, <1>3 DEF Same, StreamTypes
<1>10. StreamInv(s)'
  <2>1. /\ task'[s] = "initial" /\ sent' = sent /\ Numbered' = Numbered
        /\ log' = log /\ replay' = replay
        /\ \A k \in 1 .. Len(initial'[s]) : ~Published(initial'[s][k])
    BY <1>1, <1>2, <1>3, <1>7 DEF StreamTypes, publisher, Numbered
  <2>2. Given(s)' = Given(s)
    BY <1>2 DEF Given, Delivered
  <2>3. Order(s)' /\ Channel(s)' /\ Quiet(s)'
    BY <1>1, <1>2, <1>3, <2>1, <2>2 DEF StreamInv, Order, Channel, Quiet
  <2>4. Seam(s) /\ Pending(s) /\ Whole(s)
    BY <1>1, <1>3 DEF StreamInv, Active
  <2>5. Seam(s)'
    BY <1>2, <1>3, <2>1, <2>2, <2>4 DEF Seam
  <2>6. Pending(s)'
    BY <1>2, <2>1, <2>2, <2>4 DEF Pending, Front
  <2>7. \A n \in (start[s] + 1) .. cursor[s] : FALSE
    BY <1>1, <1>3, <2>4, StreamNumbers DEF Seam
  <2>8. \A n : ToCome(s, n)' <=> ToCome(s, n)
    BY <1>2, <2>1 DEF ToCome, InBucket, Front
  <2>9. Whole(s)'
    BY <1>2, <2>1, <2>2, <2>4, <2>7, <2>8 DEF Whole, Matches
  <2> QED BY <1>1, <1>2, <2>1, <2>3, <2>5, <2>6, <2>9 DEF StreamInv
<1> QED BY <1>4, <1>8, <1>9, <1>10 DEF Stepped

\* Later buckets end later.
LEMMA BucketsInOrder ==
    ASSUME PublisherInv, NEW i \in 1 .. Len(replay.pushed), NEW j \in 1 .. Len(replay.pushed), i <= j
    PROVE  /\ replay.pushed[i].last <= replay.pushed[j].last
           /\ replay.pushed[i].first <= replay.pushed[j].first
<1>1. /\ replay.pushed[i].last \in Nat /\ replay.pushed[j].last \in Nat
      /\ replay.pushed[i].first \in Nat /\ replay.pushed[j].first \in Nat
      /\ i \in Int /\ j \in Int
  <2>1. replay.pushed[i] \in BucketsOf({"finalized"}) /\ replay.pushed[j] \in BucketsOf({"finalized"})
    BY PublisherNumbers
  <2>2. \A b \in BucketsOf({"finalized"}) : b.first \in Nat /\ b.last \in Nat
    BY DEF BucketsOf
  <2>3. i \in Int /\ j \in Int
    BY PublisherNumbers
  <2> QED BY <2>1, <2>2, <2>3
<1>2. CASE i = j
  BY <1>1, <1>2
<1>3. CASE i < j
  <2>1. /\ replay.pushed[i].last < replay.pushed[j].first
        /\ replay.pushed[j].first <= replay.pushed[j].last
        /\ replay.pushed[i].first <= replay.pushed[i].last
    BY <1>3 DEF PublisherInv, WindowInv
  <2> QED BY <1>1, <2>1
<1> QED BY <1>1, <1>2, <1>3

\* What a snapshot of the window gives a stream that has been given nothing yet.
LEMMA SnapshotReplayStep ==
    ASSUME NEW s, Subscribing(s), SnapshotReplay(s)
    PROVE  Stepped(s)
<1> DEFINE from == request[s].fromHeight
           verified == IF request[s].resume THEN VerifyCheckpoint(replay, from, "finalized")
                       ELSE "ok"
           refused == /\ task' = [task EXCEPT ![s] = "refused"]
                      /\ UNCHANGED <<watermark, start, captured>>
           n == Len(replay.pushed)
           w == Watermark(replay')
<1>1. s \in Subscribers /\ PublisherInv /\ StreamTypes /\ StreamInv(s)
  BY DEF Subscribing, IInv
<1>2. /\ UNCHANGED <<log, sent, stage, mempool>>
      /\ UNCHANGED <<request, cursor, revision, initial, offset, filter, held, stream, read,
                     changes, pings>>
  BY DEF SnapshotReplay, channel, control
<1>3. /\ task[s] = "subscribed"
      /\ \/ refused /\ UNCHANGED replay
         \/ refused /\ EvictsTo(replay, 0, replay')
         \/ /\ EvictsTo(replay, 0, replay')
            /\ from = NoHeight \/ HeightAvailable(replay', from)
            /\ task' = [task EXCEPT ![s] = "replayed"]
            /\ watermark' = [watermark EXCEPT ![s] = w]
            /\ start' = [start EXCEPT ![s] = Larger(cursor[s], w)]
            /\ captured' = [captured EXCEPT ![s] =
                             IF from = NoHeight THEN {} ELSE ReplayFrom(replay', from)]
  BY DEF SnapshotReplay
<1>4. UNCHANGED replay \/ EvictsTo(replay, 0, replay')
  BY <1>3
<1>5. PublisherInv' /\ Grown
  BY <1>1, <1>2, <1>4, PublisherStays, WindowEvicts DEF publisher
<1>6. /\ Sound(replay', {"finalized"}) /\ replay'.pushed = replay.pushed
      /\ n \in Nat /\ replay'.popped \in 0 .. n
  BY <1>1, <1>4, <1>5, EvictSound, PublisherNumbers DEF PublisherInv, WindowInv, Sound, Typed
<1>7. /\ Len(log) \in Nat /\ sent \in Nat /\ Numbered \in Nat /\ sent <= Numbered
      /\ Numbered' = Numbered /\ cursor[s] \in Nat /\ cursor[s] <= sent
      /\ \A i \in 1 .. n : /\ replay.pushed[i].first \in Nat /\ replay.pushed[i].last \in Nat
                           /\ replay.pushed[i].height \in Nat
  BY <1>1, <1>2, PublisherNumbers, StreamNumbers DEF Numbered, StreamInv, BucketsOf
<1>8. Retained(replay') \subseteq 1 .. n /\ Retained(replay') = (replay'.popped + 1) .. n
  BY <1>6 DEF Retained
<1>9. /\ w \in Nat /\ w <= Numbered
      /\ \A i \in Retained(replay') : replay.pushed[i].last <= w
  <2>1. CASE Retained(replay') = {}
    BY <2>1, <1>7 DEF Watermark
  <2>2. CASE Retained(replay') # {}
    <3>1. n \in 1 .. n
      BY <2>2, <1>6, <1>8
    <3>2. w = replay.pushed[n].last
      BY <2>2, <1>6 DEF Watermark, Newest
    <3>3. w \in Nat /\ w <= Numbered
      BY <3>1, <3>2, <1>1, <1>7 DEF PublisherInv, WindowInv
    <3>4. \A i \in 1 .. n : replay.pushed[i].last <= w
      BY <3>1, <3>2, <1>1, <1>6, BucketsInOrder
    <3> QED BY <3>3, <3>4, <1>8
  <2> QED BY <2>1, <2>2
<1>10. Given(s) = {} /\ captured[s] = {} /\ offset[s] = 0 /\ watermark[s] = 0 /\ held[s] = Nothing
       /\ Given(s)' = Given(s)
  <2>1. Given(s)' = Given(s)
    BY <1>2 DEF Given, Delivered
  <2> QED BY <1>1, <1>3, <2>1 DEF StreamInv, Quiet
<1>11. Order(s)' /\ Channel(s)'
  BY <1>1, <1>2 DEF StreamInv, Order, Channel
<1> HIDE DEF w
<1>12. CASE refused
  <2>1. StreamTypes'
    BY <1>1, <1>2, <1>12 DEF StreamTypes
  <2>2. \A t \in Subscribers \ {s} : Same(t)
    BY <1>1, <1>2, <1>12 DEF Same, StreamTypes
  <2>3. task'[s] = "refused"
    BY <1>1, <1>12 DEF StreamTypes
  <2>4. Quiet(s)'
    BY <1>1, <1>2, <1>10, <2>3 DEF Quiet, StreamInv
  <2>5. StreamInv(s)'
    BY <1>1, <1>2, <1>7, <1>11, <1>12, <2>3, <2>4 DEF StreamInv, Active
  <2> QED BY <1>5, <2>1, <2>2, <2>5 DEF Stepped
<1>13. CASE /\ from = NoHeight \/ HeightAvailable(replay', from)
            /\ task' = [task EXCEPT ![s] = "replayed"]
            /\ watermark' = [watermark EXCEPT ![s] = w]
            /\ start' = [start EXCEPT ![s] = Larger(cursor[s], w)]
            /\ captured' = [captured EXCEPT ![s] =
                             IF from = NoHeight THEN {} ELSE ReplayFrom(replay', from)]
  <2> DEFINE taken == IF from = NoHeight THEN {} ELSE ReplayFrom(replay', from)
  <2>1. taken \subseteq 1 .. n /\ taken \subseteq Retained(replay')
    BY <1>8 DEF ReplayFrom
  <2>2. Larger(cursor[s], w) \in Nat /\ cursor[s] <= Larger(cursor[s], w)
        /\ w <= Larger(cursor[s], w) /\ Larger(cursor[s], w) <= Numbered
    BY <1>7, <1>9 DEF Larger
  <2>3. /\ task'[s] = "replayed" /\ watermark'[s] = w /\ start'[s] = Larger(cursor[s], w)
        /\ captured'[s] = taken
    BY <1>1, <1>13 DEF StreamTypes
  <2>4. StreamTypes'
    <3>1. taken \in SUBSET Nat
      BY <2>1, <1>6
    <3> QED BY <1>1, <1>2, <1>9, <1>13, <2>2, <3>1 DEF StreamTypes
  <2>5. \A t \in Subscribers \ {s} : Same(t)
    BY <1>1, <1>2, <1>4, <1>13 DEF Same, StreamTypes
  <2>6. Quiet(s)'
    BY <1>1, <1>2, <1>10, <2>3 DEF Quiet, StreamInv
  <2>7. ASSUME from # NoHeight, NEW k \in 1 .. start'[s], log[k].scope = "block"
        PROVE  k <= w
    <3>1. Retained(replay') # {}
      <4>1. DOMAIN replay'.heightCounts # {}
        BY <2>7, <1>13 DEF HeightAvailable
      <4> QED BY <4>1, <1>6 DEF Sound, HeightCountsExact
    <3>2. PICK r \in Retained(replay') : TRUE
      BY <3>1
    <3>3. n \in Retained(replay')
      BY <3>2, <1>6, <1>8
    <3>4. HeightCapacity # 0
      BY <3>3, <1>8, <1>1 DEF PublisherInv, WindowInv
    <3>5. k \in 1 .. Numbered
      BY <2>2, <2>3, <1>7
    <3>6. PICK i \in 1 .. n : InBucket(k, i)
      BY <3>4, <3>5, <2>7, <1>1 DEF PublisherInv, WindowInv
    <3>7. k <= replay.pushed[i].last
      BY <3>6, <1>7 DEF InBucket
    <3>8. n \in 1 .. n
      BY <3>3, <1>8
    <3>9. replay.pushed[i].last <= replay.pushed[n].last
      BY <3>6, <3>8, <1>1, BucketsInOrder
    <3>10. replay.pushed[n].last <= w /\ replay.pushed[n].last \in Nat
      BY <3>3, <3>8, <1>7, <1>9
    <3>11. k \in Nat /\ replay.pushed[i].last \in Nat
      BY <3>5, <3>6, <1>7
    <3> QED BY <3>7, <3>9, <3>10, <3>11, <1>9
  <2>8. Seam(s)'
    BY <1>2, <1>7, <1>9, <1>10, <2>2, <2>3, <2>7 DEF Seam, Larger
  <2>9. Pending(s)'
    <3>1. ASSUME NEW i \in taken, NEW j \in i .. n, replay.pushed[j].height >= from
          PROVE  j \in taken
      BY <3>1, <2>1, <1>6, <1>8 DEF ReplayFrom
    <3>2. \A i \in taken : /\ replay.pushed[i].last <= w
                           /\ replay.pushed[i].first + 0 <= replay.pushed[i].last
      BY <2>1, <1>1, <1>6, <1>7, <1>9 DEF PublisherInv, WindowInv
    <3>3. from = NoHeight => taken = {}
      OBVIOUS
    <3> HIDE DEF taken
    <3> QED BY <1>2, <1>6, <1>10, <2>1, <2>3, <3>1, <3>2, <3>3 DEF Pending, Front
  <2>10. Whole(s)'
    <3>1. \A k \in (start'[s] + 1) .. cursor'[s] : FALSE
      BY <1>2, <1>7, <2>2, <2>3
    <3> QED BY <3>1, <1>10 DEF Whole
  <2>11. StreamInv(s)'
    BY <1>2, <1>7, <1>9, <1>11, <2>3, <2>6, <2>8, <2>9, <2>10 DEF StreamInv
  <2> QED BY <1>5, <2>4, <2>5, <2>11 DEF Stepped
<1> QED BY <1>3, <1>12, <1>13

LEMMA SendInitialStep ==
    ASSUME NEW s, Subscribing(s), SendInitial(s)
    PROVE  Stepped(s)
<1>1. s \in Subscribers /\ PublisherInv /\ StreamTypes /\ StreamInv(s)
  BY DEF Subscribing, IInv
<1>2. UNCHANGED publisher /\ UNCHANGED <<task, request, cursor, watermark, revision, start, captured,
                                         offset, filter, held, read, changes, pings>>
  BY DEF SendInitial, receiver, control
<1>3. /\ task[s] = "initial" /\ initial[s] # <<>> /\ Offer(s, Head(initial[s]))
      /\ initial' = [initial EXCEPT ![s] = Tail(@)]
  BY DEF SendInitial
<1>4. PublisherInv' /\ Grown
  BY <1>1, <1>2, PublisherStays
<1>5. /\ initial[s] \in Seq(Messages) /\ Head(initial[s]) \in Messages
      /\ Head(initial[s]) = initial[s][1] /\ 1 \in 1 .. Len(initial[s])
      /\ Tail(initial[s]) \in Seq(Messages) /\ Len(initial[s]) \in Nat
      /\ Len(Tail(initial[s])) = Len(initial[s]) - 1
      /\ \A k \in 1 .. Len(Tail(initial[s])) : Tail(initial[s])[k] = initial[s][k + 1]
  BY <1>1, <1>3, StreamNumbers, HeadTailProperties, EmptySeq, LenProperties
<1>6. \A k \in 1 .. Len(initial[s]) : ~Published(initial[s][k])
  BY <1>1 DEF StreamInv, Quiet
<1>7. ~Published(Head(initial[s]))
  BY <1>5, <1>6
<1>8. \A k \in 1 .. Len(Tail(initial[s])) : ~Published(Tail(initial[s])[k])
  BY <1>5, <1>6
<1>9. /\ Given(s)' = Given(s) /\ Order(s)' /\ Channel(s)'
      /\ stream' \in [Subscribers -> Seq(Messages)]
      /\ \A t \in Subscribers \ {s} : stream'[t] = stream[t]
  <2>1. CASE HasRoom(s) /\ Put(s, Head(initial[s]))
    BY <2>1, <1>1, <1>2, <1>5, <1>7, PutUnpublished, PutAppends DEF StreamInv
  <2>2. CASE stream' = stream
    BY <2>2, <1>1, <1>2 DEF Given, Delivered, StreamInv, Order, Channel, StreamTypes
  <2> QED BY <2>1, <2>2, <1>3 DEF Offer
<1>10. StreamTypes'
  BY <1>1, <1>2, <1>3, <1>5, <1>9 DEF StreamTypes
<1>11. \A t \in Subscribers \ {s} : Same(t)
  BY <1>1, <1>2, <1>3, <1>9 DEF Same, StreamTypes
<1>12. StreamInv(s)'
  <2>1. initial'[s] = Tail(initial[s]) /\ sent' = sent /\ Numbered' = Numbered
    BY <1>1, <1>2, <1>3 DEF StreamTypes, publisher, Numbered
  <2>2. Quiet(s)'
    BY <1>1, <1>2, <1>3, <1>8, <2>1 DEF StreamInv, Quiet
  <2>3. Seam(s) /\ Pending(s) /\ Whole(s)
    BY <1>1, <1>3 DEF StreamInv, Active
  <2>4. cursor[s] <= start[s]
    BY <1>3, <2>3 DEF Seam
  <2>5. Seam(s)' /\ Pending(s)' /\ Whole(s)'
    BY <1>1, <1>2, <1>3, <1>9, <2>3, <2>4, Unmoved
  <2> QED BY <1>1, <1>2, <1>9, <2>1, <2>2, <2>5 DEF StreamInv
<1> QED BY <1>4, <1>10, <1>11, <1>12 DEF Stepped

LEMMA GoLiveStep ==
    ASSUME NEW s, Subscribing(s), GoLive(s)
    PROVE  Stepped(s)
<1>1. s \in Subscribers /\ PublisherInv /\ StreamTypes /\ StreamInv(s)
  BY DEF Subscribing, IInv
<1>2. UNCHANGED publisher /\ UNCHANGED <<request, cursor, watermark, revision, start, initial,
                                         captured, offset, filter, held, stream, read, changes, pings>>
  BY DEF GoLive, receiver, opening, channel, control
<1>3. task[s] = "initial" /\ captured[s] = {} /\ task' = [task EXCEPT ![s] = "live"]
  BY DEF GoLive
<1>4. PublisherInv' /\ Grown
  BY <1>1, <1>2, PublisherStays
<1>5. StreamTypes'
  BY <1>1, <1>2, <1>3 DEF StreamTypes
<1>6. \A t \in Subscribers \ {s} : Same(t)
  BY <1>1, <1>2, <1>3 DEF Same, StreamTypes
<1>7. StreamInv(s)'
  <2>1. task'[s] = "live" /\ sent' = sent /\ Numbered' = Numbered
    BY <1>1, <1>2, <1>3 DEF StreamTypes, publisher, Numbered
  <2>2. Given(s)' = Given(s)
    BY <1>2 DEF Given, Delivered
  <2>3. Order(s)' /\ Channel(s)' /\ Quiet(s)'
    BY <1>1, <1>2, <1>3, <2>1, <2>2 DEF StreamInv, Order, Channel, Quiet
  <2>4. Seam(s) /\ Pending(s) /\ Whole(s)
    BY <1>1, <1>3 DEF StreamInv, Active
  <2>5. Seam(s)' /\ Pending(s)' /\ Whole(s)'
    BY <1>1, <1>2, <1>3, <2>1, <2>2, <2>4, Unmoved
  <2> QED BY <1>1, <1>2, <2>1, <2>3, <2>5 DEF StreamInv
<1> QED BY <1>4, <1>5, <1>6, <1>7 DEF Stepped

\* The message waited with goes into the channel.
LEMMA SendHeldStep ==
    ASSUME NEW s, Subscribing(s), SendHeld(s)
    PROVE  Stepped(s)
<1>1. s \in Subscribers /\ PublisherInv /\ StreamTypes /\ StreamInv(s)
  BY DEF Subscribing, IInv
<1>2. UNCHANGED publisher /\ UNCHANGED <<request, cursor, watermark, revision, start, initial,
                                         captured, offset, filter, read, changes, pings>>
  BY DEF SendHeld, receiver, opening, control
<1>3. /\ task[s] = "reserve" /\ HasRoom(s) /\ Put(s, held[s])
      /\ held' = [held EXCEPT ![s] = Nothing]
      /\ task' = [task EXCEPT ![s] = IF held[s].scope = "invalid_filter" THEN "closed" ELSE "live"]
  BY DEF SendHeld
<1>4. PublisherInv' /\ Grown
  BY <1>1, <1>2, PublisherStays
<1>5. /\ held'[s] = Nothing /\ task'[s] \in {"live", "closed"}
      /\ Nothing \in Messages /\ ~Published(Nothing) /\ held[s] \in Messages
  BY <1>1, <1>3 DEF StreamTypes, Nothing, Marker, Message, Messages, Published
<1>6. Given(s)' = Given(s) /\ Order(s)' /\ Channel(s)'
  BY <1>1, <1>2, <1>3, <1>5, PutHeld DEF StreamInv
<1>7. /\ stream' \in [Subscribers -> Seq(Messages)]
      /\ \A t \in Subscribers \ {s} : stream'[t] = stream[t]
  BY <1>1, <1>3, <1>5, PutAppends
<1>8. StreamTypes'
  BY <1>1, <1>2, <1>3, <1>5, <1>7 DEF StreamTypes
<1>9. \A t \in Subscribers \ {s} : Same(t)
  BY <1>1, <1>2, <1>3, <1>7 DEF Same, StreamTypes
<1>10. StreamInv(s)'
  <2>1. sent' = sent /\ Numbered' = Numbered
    BY <1>2 DEF publisher, Numbered
  <2>2. Quiet(s)'
    BY <1>1, <1>2, <1>5 DEF StreamInv, Quiet
  <2>3. Seam(s) /\ Pending(s) /\ Whole(s) /\ captured[s] = {}
    BY <1>1, <1>3 DEF StreamInv, Active, Seam
  <2>4. Seam(s)' /\ Pending(s)' /\ Whole(s)'
    BY <1>1, <1>2, <1>5, <1>6, <2>3, Unmoved
  <2> QED BY <1>1, <1>2, <1>6, <2>1, <2>2, <2>4 DEF StreamInv
<1> QED BY <1>4, <1>8, <1>9, <1>10 DEF Stepped

LEMMA LaggedStep ==
    ASSUME NEW s, Subscribing(s), Lagged(s)
    PROVE  Stepped(s)
<1>1. s \in Subscribers /\ PublisherInv /\ StreamTypes /\ StreamInv(s)
  BY DEF Subscribing, IInv
<1>2. UNCHANGED publisher /\ UNCHANGED <<request, cursor, watermark, revision, start, initial,
                                         captured, offset, filter, held, read, changes, pings>>
  BY DEF Lagged, receiver, opening, control
<1>3. /\ task[s] = "live" /\ task' = [task EXCEPT ![s] = "closed"]
      /\ (HasRoom(s) /\ Put(s, Marker("lagged", 0))) \/ stream' = stream
  BY DEF Lagged
<1>4. PublisherInv' /\ Grown
  BY <1>1, <1>2, PublisherStays
<1>5. Marker("lagged", 0) \in Messages /\ ~Published(Marker("lagged", 0))
  BY DEF Marker, Message, Messages, Published
<1>6. /\ Given(s)' = Given(s) /\ Order(s)' /\ Channel(s)'
      /\ stream' \in [Subscribers -> Seq(Messages)]
      /\ \A t \in Subscribers \ {s} : stream'[t] = stream[t]
  <2>1. CASE HasRoom(s) /\ Put(s, Marker("lagged", 0))
    BY <2>1, <1>1, <1>2, <1>5, PutUnpublished, PutAppends DEF StreamInv
  <2>2. CASE stream' = stream
    BY <2>2, <1>1, <1>2 DEF Given, Delivered, StreamInv, Order, Channel, StreamTypes
  <2> QED BY <2>1, <2>2, <1>3
<1>7. StreamTypes'
  BY <1>1, <1>2, <1>3, <1>6 DEF StreamTypes
<1>8. \A t \in Subscribers \ {s} : Same(t)
  BY <1>1, <1>2, <1>3, <1>6 DEF Same, StreamTypes
<1>9. StreamInv(s)'
  <2>1. task'[s] = "closed" /\ sent' = sent /\ Numbered' = Numbered
    BY <1>1, <1>2, <1>3 DEF StreamTypes, publisher, Numbered
  <2>2. Quiet(s)'
    BY <1>1, <1>2, <2>1 DEF StreamInv, Quiet
  <2> QED BY <1>1, <1>2, <1>6, <2>1, <2>2 DEF StreamInv, Active
<1> QED BY <1>4, <1>7, <1>8, <1>9 DEF Stepped

\* The next update of the replay: above all given so far, and nothing that matches is
\* left out between.
LEMMA SendReplayStep ==
    ASSUME NEW s, Subscribing(s), SendReplay(s)
    PROVE  Stepped(s)
<1>1. s \in Subscribers /\ PublisherInv /\ StreamTypes /\ StreamInv(s)
  BY DEF Subscribing, IInv
<1>2. UNCHANGED publisher /\ UNCHANGED <<task, request, cursor, watermark, revision, start, initial,
                                         filter, held, read, changes, pings>>
  BY DEF SendReplay, receiver, control
<1>3. PICK i \in captured[s] :
        LET n == replay.pushed[i].first + offset[s]
            last == n = replay.pushed[i].last
        IN
        /\ \A j \in captured[s] : i <= j
        /\ Offer(s, log[n])
        /\ captured' = [captured EXCEPT ![s] = IF last THEN @ \ {i} ELSE @]
        /\ offset' = [offset EXCEPT ![s] = IF last THEN 0 ELSE @ + 1]
  BY DEF SendReplay
<1> DEFINE b == replay.pushed[i]
           n == b.first + offset[s]
           m == log[n]
<1>4. task[s] = "initial"
  BY DEF SendReplay
<1>5. Seam(s) /\ Pending(s) /\ Whole(s) /\ held[s] = Nothing
  BY <1>1, <1>4 DEF StreamInv, Active, Quiet
<1>6. /\ captured'[s] = IF n = b.last THEN captured[s] \ {i} ELSE captured[s]
      /\ offset'[s] = IF n = b.last THEN 0 ELSE offset[s] + 1
  BY <1>1, <1>3 DEF StreamTypes
<1>7. /\ Len(log) \in Nat /\ Numbered \in Nat /\ Numbered <= Len(log) /\ Len(replay.pushed) \in Nat
      /\ cursor[s] \in Nat /\ start[s] \in Nat /\ watermark[s] \in Nat /\ offset[s] \in Nat
      /\ captured[s] \subseteq Nat /\ Given(s) \subseteq Nat
      /\ captured[s] \subseteq 1 .. Len(replay.pushed)
      /\ watermark[s] <= Numbered
      /\ log' = log /\ replay' = replay /\ sent' = sent /\ Numbered' = Numbered
  BY <1>1, <1>2, <1>5, PublisherNumbers, StreamNumbers
  DEF StreamInv, Pending, publisher, Numbered
<1>8. \A j \in 1 .. Len(replay.pushed) :
        /\ replay.pushed[j].first \in Nat /\ replay.pushed[j].last \in Nat
        /\ 1 <= replay.pushed[j].first /\ replay.pushed[j].first <= replay.pushed[j].last
        /\ replay.pushed[j].last <= Numbered
  <2>1. \A c \in BucketsOf({"finalized"}) : c.first \in Nat /\ c.last \in Nat
    BY DEF BucketsOf
  <2>2. \A j \in 1 .. Len(replay.pushed) :
          replay.pushed[j].first \in Nat /\ replay.pushed[j].last \in Nat
    BY <2>1, <1>1, PublisherNumbers
  <2> QED BY <2>2, <1>1 DEF PublisherInv, WindowInv
<1>9. /\ Front(s, i) /\ b.last <= watermark[s] /\ n <= b.last
      /\ \A g \in Given(s) : g < n
  BY <1>3, <1>5 DEF Front, Pending
<1>10. /\ n \in Nat /\ n >= 1 /\ n \in 1 .. Len(log) /\ InBucket(n, i)
       /\ i \in 1 .. Len(replay.pushed)
       /\ b.first \in Nat /\ b.last \in Nat /\ b.first <= n
  <2>1. i \in 1 .. Len(replay.pushed) /\ offset[s] \in Nat
    BY <1>7
  <2>2. /\ b.first \in Nat /\ b.last \in Nat /\ 1 <= b.first /\ b.last <= Numbered
    BY <1>8, <2>1
  <2>3. n \in Nat /\ b.first <= n
    BY <2>1, <2>2
  <2> HIDE DEF n, b
  <2>4. n \in b.first .. b.last /\ n \in 1 .. Len(log) /\ n >= 1
    BY <1>7, <1>9, <2>2, <2>3
  <2> QED BY <2>1, <2>2, <2>3, <2>4 DEF InBucket, b
<1>11. m \in Messages /\ m.seq = n /\ m.scope = "block" /\ Published(m)
  <2>1. m \in Messages
    BY <1>1, <1>10, PublisherNumbers
  <2>2. m.seq = n
    BY <1>1, <1>10 DEF PublisherInv, LogInv
  <2>3. i \in 1 .. Len(replay.pushed) /\ n \in b.first .. b.last
    BY <1>7, <1>10 DEF InBucket
  <2>4. m.scope = "block"
    BY <1>1, <2>3 DEF PublisherInv, WindowInv
  <2> QED BY <2>1, <2>2, <2>4 DEF Published
<1>12. PublisherInv' /\ Grown
  BY <1>1, <1>2, PublisherStays
<1>13. ~Published(held[s])
  BY <1>5 DEF Nothing, Marker, Message, Published
<1>14. Offer(s, m)
  BY <1>3
<1> HIDE DEF m, n, b
<1>15. /\ Order(s)' /\ Channel(s)'
       /\ stream' \in [Subscribers -> Seq(Messages)]
       /\ \A t \in Subscribers \ {s} : stream'[t] = stream[t]
       /\ Given(s)' = Given(s) \union (IF Matches(filter[s], m) THEN {n} ELSE {})
  <2>1. CASE Matches(filter[s], m)
    <3>1. HasRoom(s) /\ Put(s, m)
      BY <2>1, <1>14 DEF Offer
    <3> QED BY <2>1, <3>1, <1>1, <1>2, <1>9, <1>11, <1>13, PutPublished, PutAppends DEF StreamInv
  <2>2. CASE ~Matches(filter[s], m)
    <3>1. stream' = stream
      BY <2>2, <1>11, <1>14 DEF Offer
    <3> QED BY <2>2, <3>1, <1>1, <1>2 DEF Given, Delivered, StreamInv, Order, Channel, StreamTypes
  <2> QED BY <2>1, <2>2
<1>16. StreamTypes'
  <2>1. captured'[s] \in SUBSET Nat /\ offset'[s] \in Nat
    BY <1>6, <1>7
  <2>2. captured' = [captured EXCEPT ![s] = captured'[s]] /\ offset' = [offset EXCEPT ![s] = offset'[s]]
    BY <1>1, <1>3 DEF StreamTypes
  <2> QED BY <1>1, <1>2, <1>15, <2>1, <2>2 DEF StreamTypes
<1>17. \A t \in Subscribers \ {s} : Same(t)
  BY <1>1, <1>2, <1>3, <1>15 DEF Same, StreamTypes
<1>18. \A g \in Given(s)' : g \in Nat /\ g <= n
  BY <1>7, <1>9, <1>10, <1>15
<1>19. \A j \in captured[s] : /\ j \in 1 .. Len(replay.pushed) /\ j \in Nat /\ i \in Nat
                              /\ j = i \/ (i < j /\ b.last < replay.pushed[j].first)
  <2> TAKE j \in captured[s]
  <2>1. j \in 1 .. Len(replay.pushed) /\ i \in 1 .. Len(replay.pushed) /\ i <= j
    BY <1>3, <1>7
  <2>2. j = i \/ i < j
    BY <2>1
  <2> QED BY <2>1, <2>2, <1>1 DEF PublisherInv, WindowInv, b
<1>20. captured'[s] \subseteq captured[s]
  BY <1>6
<1>21. Seam(s)'
  <2>1. n <= watermark[s]
    BY <1>7, <1>9, <1>10
  <2>2. \A g \in Given(s)' : 1 <= g /\ g <= watermark[s]
    BY <1>5, <1>10, <1>15, <2>1 DEF Seam
  <2> QED BY <1>2, <1>4, <1>5, <1>7, <2>2 DEF Seam
<1>22. Pending(s)'
  <2>1. ASSUME NEW j \in captured'[s]
        PROVE  /\ replay.pushed[j].last <= watermark[s]
               /\ Front(s, j)' => replay.pushed[j].first + offset'[s] <= replay.pushed[j].last
               /\ \A g \in Given(s)' : g < replay.pushed[j].first + offset'[s]
    <3>1. j \in captured[s] /\ replay.pushed[j].last <= watermark[s]
      BY <2>1, <1>5, <1>20 DEF Pending
    <3>2. CASE j = i
      <4>1. n # b.last /\ offset'[s] = offset[s] + 1
        BY <2>1, <3>2, <1>6
      <4>2. replay.pushed[j].first + offset'[s] = n + 1
        <5>1. b.first \in Nat /\ n = b.first + offset[s]
          BY <1>10 DEF n, b
        <5>2. replay.pushed[j].first = b.first
          BY <3>2 DEF b
        <5>3. offset[s] \in Nat /\ offset'[s] = offset[s] + 1
          BY <4>1, <1>7
        <5> QED BY <5>1, <5>2, <5>3
      <4>3. n < b.last
        <5>1. b.last \in Nat
          BY <1>10
        <5> QED BY <4>1, <5>1, <1>9, <1>10
      <4>4. n + 1 <= replay.pushed[j].last
        BY <3>2, <4>3, <1>10 DEF b
      <4> QED BY <3>1, <4>2, <4>4, <1>10, <1>18
    <3>3. CASE j # i
      <4>1. i < j /\ b.last < replay.pushed[j].first
        BY <3>1, <3>3, <1>19
      <4>2. \A g \in Given(s)' : g < replay.pushed[j].first
        <5>1. b.last \in Nat /\ replay.pushed[j].first \in Nat
          BY <3>1, <1>8, <1>10, <1>19
        <5> QED BY <4>1, <5>1, <1>9, <1>10, <1>18
      <4>3. Front(s, j)' => offset'[s] = 0
        <5>1. CASE n = b.last
          BY <5>1, <1>6
        <5>2. CASE n # b.last
          BY <5>2, <3>1, <4>1, <1>6, <1>19 DEF Front
        <5> QED BY <5>1, <5>2
      <4>4. offset'[s] \in Nat /\ replay.pushed[j].first \in Nat /\ replay.pushed[j].last \in Nat
            /\ replay.pushed[j].first <= replay.pushed[j].last
        <5>1. j \in 1 .. Len(replay.pushed)
          BY <3>1, <1>7
        <5>2. offset[s] \in Nat
          BY <1>7
        <5> QED BY <5>1, <5>2, <1>6, <1>8
      <4> QED BY <3>1, <4>2, <4>3, <4>4, <1>18
    <3> QED BY <3>2, <3>3
  <2>2. ASSUME NEW j \in captured'[s], NEW k \in j .. Len(replay.pushed),
               replay.pushed[k].first <= start[s], replay.pushed[k].height >= request[s].fromHeight
        PROVE  k \in captured'[s]
    <3>1. j \in captured[s] /\ k \in captured[s]
      BY <2>2, <1>5, <1>20 DEF Pending
    <3>2. CASE n = b.last
      <4>1. j # i /\ i < j
        BY <3>1, <3>2, <2>2, <1>6, <1>19
      <4>2. k # i
        BY <4>1, <3>1, <1>7, <1>19
      <4> QED BY <3>1, <3>2, <4>2, <1>6
    <3>3. CASE n # b.last
      BY <3>1, <3>3, <1>6
    <3> QED BY <3>2, <3>3
  <2>3. captured'[s] = {} => offset'[s] = 0
    BY <1>6
  <2>4. request[s].fromHeight = NoHeight => captured'[s] = {}
    BY <1>5 DEF Pending
  <2> QED BY <1>2, <1>7, <1>20, <2>1, <2>2, <2>3, <2>4 DEF Pending
<1>23. Whole(s)'
  <2>1. \A k \in (start[s] + 1) .. cursor[s] : FALSE
    BY <1>4, <1>5, <1>7 DEF Seam
  <2>2. ASSUME NEW k \in Nat, ToCome(s, k), k # n PROVE ToCome(s, k)'
    <3>1. PICK j \in captured[s] :
            InBucket(k, j) /\ (Front(s, j) => k >= replay.pushed[j].first + offset[s])
      BY <2>2 DEF ToCome
    <3>2. /\ j \in 1 .. Len(replay.pushed)
          /\ replay.pushed[j].first \in Nat /\ replay.pushed[j].last \in Nat
          /\ replay.pushed[j].first <= k /\ k <= replay.pushed[j].last
      BY <3>1, <1>8, <1>19 DEF InBucket
    <3>3. CASE j = i
      <4>1. k >= n /\ k > n
        BY <3>1, <3>3, <2>2, <1>9, <1>10 DEF n, b
      <4>2. n # b.last
        BY <3>2, <3>3, <4>1, <1>10 DEF b
      <4>3. captured'[s] = captured[s] /\ offset'[s] = offset[s] + 1
        BY <4>2, <1>6
      <4>4. k >= replay.pushed[j].first + offset'[s]
        <5>1. n = replay.pushed[j].first + offset[s] /\ offset[s] \in Nat
          BY <3>3, <1>7 DEF n, b
        <5> QED BY <3>2, <4>1, <4>3, <5>1
      <4> QED BY <3>1, <4>3, <4>4, <1>7 DEF ToCome, InBucket
    <3>4. CASE j # i
      <4>1. i < j /\ j \in captured'[s]
        BY <3>1, <3>4, <1>6, <1>19
      <4>2. Front(s, j)' => offset'[s] = 0
        <5>1. CASE n = b.last
          BY <5>1, <1>6
        <5>2. CASE n # b.last
          BY <5>2, <4>1, <1>6, <1>19 DEF Front
        <5> QED BY <5>1, <5>2
      <4>3. Front(s, j)' => k >= replay.pushed[j].first + offset'[s]
        BY <3>2, <4>2
      <4> QED BY <3>1, <4>1, <4>3, <1>7 DEF ToCome, InBucket
    <3> QED BY <3>3, <3>4
  <2>3. ASSUME NEW k \in 1 .. start[s], n < k, log[k].scope = "block",
               log[k].height >= request[s].fromHeight
        PROVE  ToCome(s, k)
    <3>1. k \in 1 .. Numbered /\ k \in Nat
      BY <2>3, <1>5, <1>7 DEF Seam
    <3>2. HeightCapacity # 0
      BY <1>1, <1>7, <1>19 DEF PublisherInv, WindowInv
    <3>3. PICK j \in 1 .. Len(replay.pushed) : InBucket(k, j)
      BY <1>1, <2>3, <3>1, <3>2 DEF PublisherInv, WindowInv
    <3>4. /\ replay.pushed[j].first <= k /\ k <= replay.pushed[j].last
          /\ replay.pushed[j].first \in Nat /\ replay.pushed[j].last \in Nat
      BY <3>1, <3>3, <1>8 DEF InBucket
    <3>5. i \in 1 .. Len(replay.pushed) /\ b.first \in Nat /\ b.first <= n
      BY <1>10
    <3>6. ~(j < i)
      <4> SUFFICES ASSUME j < i PROVE FALSE
        OBVIOUS
      <4>1. replay.pushed[j].last < b.first
        BY <3>5, <1>1 DEF PublisherInv, WindowInv, b
      <4> QED BY <4>1, <3>1, <3>4, <3>5, <2>3, <1>10
    <3>7. j \in i .. Len(replay.pushed)
      BY <3>5, <3>6, <1>7
    <3>8. log[k].height = replay.pushed[j].height
      BY <3>3, <1>1 DEF PublisherInv, WindowInv, InBucket
    <3>9. replay.pushed[j].first <= start[s]
      BY <2>3, <3>4, <1>7
    <3>10. j \in captured[s]
      BY <2>3, <3>7, <3>8, <3>9, <1>5 DEF Pending
    <3>11. Front(s, j) => j = i
      BY <3>7, <1>3, <1>7 DEF Front
    <3>12. Front(s, j) => k >= replay.pushed[j].first + offset[s]
      BY <3>1, <3>11, <2>3, <1>10 DEF n, b
    <3> QED BY <3>3, <3>10, <3>12 DEF ToCome
  <2>4. ASSUME changes[s] = 0, request[s].fromHeight # NoHeight, NEW k \in 1 .. start[s],
               Matches(filter[s], log[k]), log[k].scope = "block",
               log[k].height >= request[s].fromHeight, NEW g \in Given(s)', g < k
        PROVE  k \in Given(s)' \/ ToCome(s, k)'
    <3>1. k \in Given(s) \/ ToCome(s, k)
      <4>1. CASE g \in Given(s)
        BY <2>4, <4>1, <1>5 DEF Whole
      <4>2. CASE g = n
        BY <2>3, <2>4, <4>2
      <4> QED BY <4>1, <4>2, <1>15
    <3>2. CASE k = n
      BY <3>2, <2>4, <1>15 DEF m
    <3>3. CASE k # n /\ ToCome(s, k)
      BY <3>3, <2>2, <1>7
    <3>4. CASE k \in Given(s)
      BY <3>4, <1>15
    <3> QED BY <3>1, <3>2, <3>3, <3>4
  <2> QED BY <1>2, <1>7, <2>1, <2>4 DEF Whole, Matches
<1>24. StreamInv(s)'
  <2>1. Quiet(s)'
    BY <1>1, <1>2, <1>4 DEF StreamInv, Quiet
  <2> QED BY <1>1, <1>2, <1>7, <1>15, <1>21, <1>22, <1>23, <2>1 DEF StreamInv
<1> QED BY <1>12, <1>16, <1>17, <1>24 DEF Stepped

\* The next update of the ring.
LEMMA ReceiveLiveStep ==
    ASSUME NEW s, Subscribing(s), ReceiveLive(s)
    PROVE  Stepped(s)
<1> DEFINE n == cursor[s] + 1
           m == log[n]
           known == request[s].snapshot /\ m.scope = "mempool" /\ m.rev <= revision[s]
           wanted == ~known /\ Matches(filter[s], m)
<1>1. s \in Subscribers /\ PublisherInv /\ StreamTypes /\ StreamInv(s)
  BY DEF Subscribing, IInv
<1>2. UNCHANGED publisher /\ UNCHANGED <<request, revision, start, initial, captured, offset, filter,
                                         stream, read, changes, pings>>
  BY DEF ReceiveLive, opening, channel, control
<1>3. /\ task[s] = "live" /\ cursor[s] < sent /\ cursor' = [cursor EXCEPT ![s] = n]
      /\ \/ m.seq <= watermark[s] /\ UNCHANGED <<watermark, held, task>>
         \/ /\ ~(m.seq <= watermark[s]) /\ watermark' = [watermark EXCEPT ![s] = m.seq]
            /\ \/ ~wanted /\ UNCHANGED <<held, task>>
               \/ /\ wanted /\ held' = [held EXCEPT ![s] = m]
                  /\ task' = [task EXCEPT ![s] = "reserve"]
  BY DEF ReceiveLive
<1>4. PublisherInv' /\ Grown
  BY <1>1, <1>2, PublisherStays
<1>5. Seam(s) /\ Pending(s) /\ Whole(s) /\ held[s] = Nothing /\ captured[s] = {} /\ offset[s] = 0
  BY <1>1, <1>3 DEF StreamInv, Active, Quiet, Seam, Pending
<1>6. /\ Len(log) \in Nat /\ sent \in Nat /\ Numbered \in Nat /\ sent <= Numbered
      /\ Numbered <= Len(log) /\ cursor[s] \in Nat /\ start[s] \in Nat /\ watermark[s] \in Nat
      /\ Given(s) \subseteq Nat /\ watermark[s] <= Numbered /\ start[s] <= Numbered
      /\ log' = log /\ replay' = replay /\ sent' = sent /\ Numbered' = Numbered
  BY <1>1, <1>2, <1>5, PublisherNumbers, StreamNumbers DEF StreamInv, Seam, publisher, Numbered
<1>7. n \in Nat /\ n <= sent /\ n \in 1 .. Len(log) /\ n <= Numbered
  BY <1>3, <1>6
<1>8. m \in Messages /\ m.seq = n /\ Published(m)
  BY <1>1, <1>7, PublisherNumbers DEF PublisherInv, LogInv, Published
<1> HIDE DEF m
<1>9. cursor'[s] = n
  BY <1>1, <1>3 DEF StreamTypes
<1>10. StreamTypes'
  <2>1. cursor' \in [Subscribers -> Nat]
    BY <1>1, <1>3, <1>7 DEF StreamTypes
  <2>2. watermark' \in [Subscribers -> Nat]
    BY <1>1, <1>3, <1>7, <1>8 DEF StreamTypes
  <2>3. held' \in [Subscribers -> Messages]
    BY <1>1, <1>3, <1>8 DEF StreamTypes
  <2>4. task' \in [Subscribers -> {"none", "subscribed", "replayed", "refused", "initial",
                                   "live", "reserve", "closed"}]
    BY <1>1, <1>3 DEF StreamTypes
  <2> QED BY <1>1, <1>2, <2>1, <2>2, <2>3, <2>4 DEF StreamTypes
<1>11. \A t \in Subscribers \ {s} : Same(t)
  BY <1>1, <1>2, <1>3 DEF Same, StreamTypes
<1>12. ~Published(held[s])
  BY <1>5 DEF Nothing, Marker, Message, Published
<1>13. CASE m.seq <= watermark[s] /\ UNCHANGED <<watermark, held, task>>
  <2>1. Given(s)' = Given(s)
    BY <1>2, <1>13 DEF Given, Delivered
  <2>2. Order(s)' /\ Channel(s)' /\ Quiet(s)'
    BY <1>1, <1>2, <1>13, <2>1 DEF StreamInv, Order, Channel, Quiet
  <2>3. n <= watermark[s] /\ n <= start[s]
    BY <1>5, <1>6, <1>7, <1>8, <1>13 DEF Seam, Larger
  <2>4. Seam(s)'
    BY <1>2, <1>3, <1>5, <1>6, <1>9, <1>13, <2>1, <2>3 DEF Seam, Larger
  <2>5. Pending(s)'
    BY <1>2, <1>5, <1>6, <1>13, <2>1 DEF Pending, Front
  <2>6. \A k \in (start[s] + 1) .. n : FALSE
    BY <2>3, <1>6, <1>7
  <2>7. \A k : ToCome(s, k)' <=> ToCome(s, k)
    BY <1>2, <1>6 DEF ToCome, InBucket, Front
  <2>8. Whole(s)'
    BY <1>2, <1>5, <1>6, <1>9, <2>1, <2>6, <2>7 DEF Whole, Matches
  <2> QED BY <1>2, <1>3, <1>4, <1>6, <1>7, <1>9, <1>10, <1>11, <1>13, <2>2, <2>4, <2>5, <2>8
          DEF Stepped, StreamInv
<1>14. CASE ~(m.seq <= watermark[s]) /\ watermark' = [watermark EXCEPT ![s] = m.seq]
  <2>1. watermark'[s] = n /\ watermark[s] < n
    BY <1>1, <1>6, <1>7, <1>8, <1>14 DEF StreamTypes
  <2>2. /\ Given(s)' = Given(s) \union (IF wanted THEN {n} ELSE {})
        /\ Order(s)' /\ Channel(s)' /\ Quiet(s)' /\ task'[s] \in {"live", "reserve"}
    <3>1. CASE ~wanted /\ UNCHANGED <<held, task>>
      <4>1. Given(s)' = Given(s)
        BY <1>2, <3>1 DEF Given, Delivered
      <4> QED BY <1>1, <1>2, <1>3, <3>1, <4>1 DEF StreamInv, Order, Channel, Quiet
    <3>2. CASE /\ wanted /\ held' = [held EXCEPT ![s] = m]
               /\ task' = [task EXCEPT ![s] = "reserve"]
      <4>1. held'[s] = m /\ task'[s] = "reserve"
        BY <1>1, <3>2 DEF StreamTypes
      <4>2. Given(s)' = Given(s) \union {n}
        BY <1>2, <1>8, <1>12, <4>1 DEF Given, Delivered
      <4>3. \A i \in 1 .. Len(stream[s]) :
              Published(stream[s][i]) => stream[s][i].seq < n
        <5> TAKE i \in 1 .. Len(stream[s])
        <5>1. Published(stream[s][i]) => stream[s][i].seq \in Given(s)
          BY <1>1, StreamNumbers DEF Given, Delivered
        <5> QED BY <5>1, <1>5, <1>6, <1>7, <2>1 DEF Seam
      <4>4. Order(s)'
        BY <1>1, <1>2, <1>8, <4>1, <4>3 DEF StreamInv, Order
      <4>5. Channel(s)' /\ Quiet(s)'
        BY <1>1, <1>2, <4>1 DEF StreamInv, Channel, Quiet
      <4> QED BY <3>2, <4>1, <4>2, <4>4, <4>5
    <3> QED BY <1>3, <1>14, <3>1, <3>2
  <2>3. \A g \in Given(s)' : 1 <= g /\ g <= n
    BY <1>5, <1>6, <1>7, <2>1, <2>2 DEF Seam
  <2>4. Seam(s)'
    <3>1. n <= Larger(start[s], n)
      BY <1>6, <1>7 DEF Larger
    <3>2. request[s].fromHeight # NoHeight =>
            \A k \in 1 .. start[s] : log[k].scope = "block" => k <= n
      BY <1>5, <1>6, <1>7, <2>1 DEF Seam
    <3> QED BY <1>2, <1>5, <1>6, <1>9, <2>1, <2>2, <2>3, <3>1, <3>2 DEF Seam
  <2>5. Pending(s)'
    BY <1>2, <1>5, <1>6 DEF Pending
  <2>6. ASSUME changes[s] = 0, NEW k \in (start[s] + 1) .. n, Matches(filter[s], log[k]),
               request[s].snapshot /\ log[k].scope = "mempool" => log[k].rev > revision[s]
        PROVE  k \in Given(s)'
    <3>1. CASE k = n
      <4>1. log[k] = m
        BY <3>1 DEF m
      <4>2. m.rev \in Nat /\ revision[s] \in Nat
        BY <1>1, <1>8, StreamNumbers DEF Messages
      <4>3. wanted
        BY <4>1, <4>2, <2>6
      <4> QED BY <3>1, <4>3, <2>2
    <3>2. CASE k # n
      <4>1. k \in (start[s] + 1) .. cursor[s]
        BY <3>2, <1>6
      <4> QED BY <4>1, <2>2, <2>6, <1>5 DEF Whole
    <3> QED BY <3>1, <3>2
  <2>7. ASSUME changes[s] = 0, request[s].fromHeight # NoHeight, NEW k \in 1 .. start[s],
               Matches(filter[s], log[k]), log[k].scope = "block",
               log[k].height >= request[s].fromHeight, NEW g \in Given(s)', g < k
        PROVE  k \in Given(s)'
    <3>1. k <= watermark[s]
      BY <2>7, <1>5 DEF Seam
    <3>2. g \in Given(s)
      BY <3>1, <2>1, <2>2, <2>7, <1>6, <1>7
    <3>3. ~ToCome(s, k)
      BY <1>5 DEF ToCome
    <3> QED BY <3>2, <3>3, <2>2, <2>7, <1>5 DEF Whole
  <2>8. Whole(s)'
    BY <1>2, <1>6, <1>9, <2>6, <2>7 DEF Whole, Matches
  <2> QED BY <1>2, <1>4, <1>6, <1>7, <1>9, <1>10, <1>11, <2>1, <2>2, <2>4, <2>5, <2>8
          DEF Stepped, StreamInv
<1> QED BY <1>3, <1>13, <1>14

LEMMA Increment ==
    ASSUME NEW f \in [Subscribers -> Nat], NEW s \in Subscribers, NEW f2,
           f2 = [f EXCEPT ![s] = @ + 1]
    PROVE  f2 \in [Subscribers -> Nat]
OBVIOUS

\* Filter replacements, pings and the end of the call.
LEMMA ReplaceFilterStep ==
    ASSUME NEW s, Subscribing(s), ReplaceFilter(s)
    PROVE  Stepped(s)
<1>1. s \in Subscribers /\ PublisherInv /\ StreamTypes /\ StreamInv(s)
  BY DEF Subscribing, IInv
<1>2. UNCHANGED publisher /\ UNCHANGED <<task, request, cursor, watermark, revision, start, initial,
                                         captured, offset, held, stream, read, pings>>
  BY DEF ReplaceFilter, receiver, opening, channel
<1>3. PICK f \in Filters : filter' = [filter EXCEPT ![s] = f]
  BY DEF ReplaceFilter
<1>4. task[s] = "live" /\ changes' = [changes EXCEPT ![s] = @ + 1]
  BY DEF ReplaceFilter
<1>5. PublisherInv' /\ Grown
  BY <1>1, <1>2, PublisherStays
<1>6. f \in SUBSET {"block", "mempool"} /\ changes[s] \in Nat /\ changes'[s] = changes[s] + 1
  BY <1>1, <1>4, ServerAssumption DEF StreamTypes
<1>7. StreamTypes'
  <2>1. changes' \in [Subscribers -> Nat]
    BY <1>1, <1>4, Increment DEF StreamTypes
  <2> QED BY <1>1, <1>2, <1>3, <1>6, <2>1 DEF StreamTypes
<1>8. \A t \in Subscribers \ {s} : Same(t)
  BY <1>1, <1>2, <1>3, <1>4 DEF Same, StreamTypes
<1>9. StreamInv(s)'
  <2>1. sent' = sent /\ Numbered' = Numbered /\ Given(s)' = Given(s)
    BY <1>2 DEF publisher, Numbered, Given, Delivered
  <2>2. Order(s)' /\ Channel(s)' /\ Quiet(s)'
    BY <1>1, <1>2, <2>1 DEF StreamInv, Order, Channel, Quiet
  <2>3. Seam(s) /\ Pending(s) /\ Whole(s) /\ captured[s] = {} /\ changes'[s] # 0
    BY <1>1, <1>4, <1>6 DEF StreamInv, Active, Seam
  <2>4. Seam(s)' /\ Pending(s)' /\ Whole(s)'
    BY <1>1, <1>2, <1>4, <2>1, <2>3, Unmoved
  <2> QED BY <1>1, <1>2, <2>1, <2>2, <2>4 DEF StreamInv
<1> QED BY <1>5, <1>7, <1>8, <1>9 DEF Stepped

\* A message of the stream's own is waited with: a pong or a status.
LEMMA HoldStep ==
    ASSUME NEW s, Subscribing(s), AnswerPing(s) \/ RejectFilter(s)
    PROVE  Stepped(s)
<1>1. s \in Subscribers /\ PublisherInv /\ StreamTypes /\ StreamInv(s)
  BY DEF Subscribing, IInv
<1>2. UNCHANGED publisher /\ UNCHANGED <<request, cursor, watermark, revision, start, initial,
                                         captured, offset, filter, stream, read>>
  BY DEF AnswerPing, RejectFilter, receiver, opening, channel
<1>3. PICK scope \in {"pong", "invalid_filter"} :
        /\ task[s] = "live" /\ task' = [task EXCEPT ![s] = "reserve"]
        /\ held' = [held EXCEPT ![s] = Marker(scope, 0)]
  BY DEF AnswerPing, RejectFilter
<1>4. \/ changes' = changes /\ pings' = [pings EXCEPT ![s] = @ + 1]
      \/ pings' = pings /\ changes' = [changes EXCEPT ![s] = @ + 1]
  BY DEF AnswerPing, RejectFilter
<1>5. PublisherInv' /\ Grown
  BY <1>1, <1>2, PublisherStays
<1>6. /\ Marker(scope, 0) \in Messages /\ ~Published(Marker(scope, 0)) /\ ~Published(Nothing)
      /\ held[s] = Nothing /\ held'[s] = Marker(scope, 0) /\ task'[s] = "reserve"
  BY <1>1, <1>3
  DEF StreamInv, StreamTypes, Quiet, Nothing, Marker, Message, Messages, Published
<1>7. changes[s] \in Nat /\ (changes'[s] = changes[s] \/ changes'[s] = changes[s] + 1)
  BY <1>1, <1>4 DEF StreamTypes
<1>8. StreamTypes'
  <2>1. changes' \in [Subscribers -> Nat] /\ pings' \in [Subscribers -> Nat]
    BY <1>1, <1>4, Increment DEF StreamTypes
  <2> QED BY <1>1, <1>2, <1>3, <1>6, <2>1 DEF StreamTypes
<1>9. \A t \in Subscribers \ {s} : Same(t)
  BY <1>1, <1>2, <1>3, <1>4 DEF Same, StreamTypes
<1>10. StreamInv(s)'
  <2>1. sent' = sent /\ Numbered' = Numbered /\ Given(s)' = Given(s)
    BY <1>2, <1>6 DEF publisher, Numbered, Given, Delivered
  <2>2. Order(s)' /\ Channel(s)' /\ Quiet(s)'
    BY <1>1, <1>2, <1>6, <2>1 DEF StreamInv, Order, Channel, Quiet
  <2>3. Seam(s) /\ Pending(s) /\ Whole(s) /\ captured[s] = {}
        /\ (changes'[s] = changes[s] \/ changes'[s] # 0)
    BY <1>1, <1>3, <1>7 DEF StreamInv, Active, Seam
  <2>4. Seam(s)' /\ Pending(s)' /\ Whole(s)'
    BY <1>1, <1>2, <1>6, <2>1, <2>3, Unmoved
  <2> QED BY <1>1, <1>2, <2>1, <2>2, <2>4 DEF StreamInv
<1> QED BY <1>5, <1>8, <1>9, <1>10 DEF Stepped

LEMMA SendPingStep ==
    ASSUME NEW s, Subscribing(s), SendPing(s)
    PROVE  Stepped(s)
<1>1. s \in Subscribers /\ PublisherInv /\ StreamTypes /\ StreamInv(s)
  BY DEF Subscribing, IInv
<1>2. UNCHANGED publisher /\ UNCHANGED <<task, request, cursor, watermark, revision, start, initial,
                                         captured, offset, filter, held, read, changes>>
  BY DEF SendPing, receiver, opening
<1>3. /\ task[s] = "live" /\ pings' = [pings EXCEPT ![s] = @ + 1]
      /\ (HasRoom(s) /\ Put(s, Marker("ping", 0))) \/ stream' = stream
  BY DEF SendPing
<1>4. PublisherInv' /\ Grown
  BY <1>1, <1>2, PublisherStays
<1>5. Marker("ping", 0) \in Messages /\ ~Published(Marker("ping", 0))
  BY DEF Marker, Message, Messages, Published
<1>6. /\ Given(s)' = Given(s) /\ Order(s)' /\ Channel(s)'
      /\ stream' \in [Subscribers -> Seq(Messages)]
      /\ \A t \in Subscribers \ {s} : stream'[t] = stream[t]
  <2>1. CASE HasRoom(s) /\ Put(s, Marker("ping", 0))
    BY <2>1, <1>1, <1>2, <1>5, PutUnpublished, PutAppends DEF StreamInv
  <2>2. CASE stream' = stream
    BY <2>2, <1>1, <1>2 DEF Given, Delivered, StreamInv, Order, Channel, StreamTypes
  <2> QED BY <2>1, <2>2, <1>3
<1>7. StreamTypes'
  <2>1. pings' \in [Subscribers -> Nat]
    BY <1>1, <1>3, Increment DEF StreamTypes
  <2> QED BY <1>1, <1>2, <1>6, <2>1 DEF StreamTypes
<1>8. \A t \in Subscribers \ {s} : Same(t)
  BY <1>1, <1>2, <1>3, <1>6 DEF Same, StreamTypes
<1>9. StreamInv(s)'
  <2>1. sent' = sent /\ Numbered' = Numbered
    BY <1>2 DEF publisher, Numbered
  <2>2. Quiet(s)'
    BY <1>1, <1>2, <1>3 DEF StreamInv, Quiet
  <2>3. Seam(s) /\ Pending(s) /\ Whole(s) /\ captured[s] = {}
    BY <1>1, <1>3 DEF StreamInv, Active, Seam
  <2>4. Seam(s)' /\ Pending(s)' /\ Whole(s)'
    BY <1>1, <1>2, <1>3, <1>6, <2>3, Unmoved
  <2> QED BY <1>1, <1>2, <1>6, <2>1, <2>2, <2>4 DEF StreamInv
<1> QED BY <1>4, <1>7, <1>8, <1>9 DEF Stepped

LEMMA CancelledStep ==
    ASSUME NEW s, Subscribing(s), Cancelled(s)
    PROVE  Stepped(s)
<1>1. s \in Subscribers /\ PublisherInv /\ StreamTypes /\ StreamInv(s)
  BY DEF Subscribing, IInv
<1>2. UNCHANGED publisher /\ UNCHANGED <<request, cursor, watermark, revision, start, initial,
                                         captured, offset, filter, held, stream, read, changes, pings>>
  BY DEF Cancelled, receiver, opening, channel, control
<1>3. task' = [task EXCEPT ![s] = "closed"] /\ task[s] \notin {"none", "subscribed", "replayed"}
  BY DEF Cancelled
<1>4. PublisherInv' /\ Grown
  BY <1>1, <1>2, PublisherStays
<1>5. StreamTypes'
  BY <1>1, <1>2, <1>3 DEF StreamTypes
<1>6. \A t \in Subscribers \ {s} : Same(t)
  BY <1>1, <1>2, <1>3 DEF Same, StreamTypes
<1>7. StreamInv(s)'
  <2>1. task'[s] = "closed" /\ sent' = sent /\ Numbered' = Numbered /\ Given(s)' = Given(s)
    BY <1>1, <1>2, <1>3 DEF StreamTypes, publisher, Numbered, Given, Delivered
  <2>2. Order(s)' /\ Channel(s)' /\ Quiet(s)'
    BY <1>1, <1>2, <2>1 DEF StreamInv, Order, Channel, Quiet
  <2> QED BY <1>1, <1>2, <2>1, <2>2 DEF StreamInv, Active
<1> QED BY <1>4, <1>5, <1>6, <1>7 DEF Stepped

LEMMA ClientReadStep ==
    ASSUME NEW s, Subscribing(s), ClientRead(s)
    PROVE  Stepped(s)
<1>1. s \in Subscribers /\ PublisherInv /\ StreamTypes /\ StreamInv(s)
  BY DEF Subscribing, IInv
<1>2. UNCHANGED publisher /\ UNCHANGED <<task, request, cursor, watermark, revision, start, initial,
                                         captured, offset, filter, held, stream, changes, pings>>
  BY DEF ClientRead, receiver, opening, control
<1>3. read[s] < Len(stream[s]) /\ read' = [read EXCEPT ![s] = @ + 1]
  BY DEF ClientRead
<1>4. PublisherInv' /\ Grown
  BY <1>1, <1>2, PublisherStays
<1>5. read[s] \in Nat /\ Len(stream[s]) \in Nat /\ read'[s] = read[s] + 1
  BY <1>1, <1>3, StreamNumbers DEF StreamTypes
<1>6. StreamTypes'
  <2>1. read' \in [Subscribers -> Nat]
    BY <1>1, <1>3, Increment DEF StreamTypes
  <2> QED BY <1>1, <1>2, <2>1 DEF StreamTypes
<1>7. \A t \in Subscribers \ {s} : Same(t)
  BY <1>1, <1>2, <1>3 DEF Same, StreamTypes
<1>8. StreamInv(s)'
  <2>1. sent' = sent /\ Numbered' = Numbered /\ Given(s)' = Given(s)
    BY <1>2 DEF publisher, Numbered, Given, Delivered
  <2>2. Order(s)' /\ Quiet(s)'
    BY <1>1, <1>2, <2>1 DEF StreamInv, Order, Quiet
  <2>3. Channel(s)'
    BY <1>1, <1>2, <1>3, <1>5, ServerAssumption DEF StreamInv, Channel
  <2>4. ASSUME Active(s) PROVE Seam(s)' /\ Pending(s)' /\ Whole(s)'
    <3>1. Seam(s) /\ Pending(s) /\ Whole(s)
      BY <2>4, <1>1 DEF StreamInv
    <3> QED BY <1>1, <1>2, <2>1, <3>1, Unmoved DEF Seam
  <2> QED BY <1>1, <1>2, <2>1, <2>2, <2>3, <2>4 DEF StreamInv, Active
<1> QED BY <1>4, <1>6, <1>7, <1>8 DEF Stepped

-----------------------------------------------------------------------------
(***************************************************************************)
(* The inductive invariant, and what follows from it.                      *)
(***************************************************************************)
LEMMA Inductive_Init == Init => IInv
<1> SUFFICES ASSUME Init PROVE IInv
  OBVIOUS
<1> USE DEF Init
<1>1. Len(log) = 0 /\ Numbered = 0 /\ log \in Seq(Messages)
  BY DEF Numbered
<1>2. /\ Sound(replay, {"finalized"}) /\ replay.pushed = <<>> /\ Len(replay.pushed) = 0
  BY EmptySound DEF EmptyReplay
<1>3. PublisherInv
  <2>1. PublisherTypes
    BY <1>1 DEF PublisherTypes
  <2>2. LogInv /\ BatchInv
    BY <1>1 DEF LogInv, BatchInv
  <2>3. WindowInv
    BY <1>1, <1>2 DEF WindowInv
  <2> QED BY <2>1, <2>2, <2>3 DEF PublisherInv
<1>4. Nothing \in Messages /\ ~Published(Nothing)
  BY DEF Nothing, Marker, Message, Messages, Published
<1>5. StreamTypes
  <2>1. filter \in [Subscribers -> SUBSET {"block", "mempool"}]
    BY ServerAssumption
  <2>2. held \in [Subscribers -> Messages]
    BY <1>4
  <2>3. <<>> \in Seq(Messages)
    OBVIOUS
  <2> QED BY <2>1, <2>2, <2>3 DEF StreamTypes
<1>6. ASSUME NEW s \in Subscribers PROVE StreamInv(s)
  <2>1. stream[s] = <<>> /\ held[s] = Nothing /\ initial[s] = <<>> /\ read[s] = 0
        /\ cursor[s] = 0 /\ watermark[s] = 0 /\ task[s] = "none" /\ captured[s] = {}
        /\ offset[s] = 0
    OBVIOUS
  <2>2. Given(s) = {}
    BY <2>1, <1>4 DEF Given, Delivered
  <2>3. Order(s) /\ Channel(s) /\ Quiet(s)
    BY <2>1, <2>2, <1>4, ServerAssumption DEF Order, Channel, Quiet
  <2> QED BY <2>1, <2>3, <1>1 DEF StreamInv, Active
<1> QED BY <1>3, <1>5, <1>6 DEF IInv

LEMMA Inductive_Next == IInv /\ [Next]_vars => IInv'
<1> SUFFICES ASSUME IInv, [Next]_vars PROVE IInv'
  OBVIOUS
<1>1. PublisherInv /\ StreamTypes /\ \A s \in Subscribers : StreamInv(s)
  BY DEF IInv
<1>2. CASE Publisher
  <2>1. PublisherInv' /\ Grown
    BY <1>1, <1>2, PublisherStep DEF Publisher
  <2>2. UNCHANGED <<task, request, cursor, watermark, revision, start, initial, captured, offset,
                    filter, held, stream, read, changes, pings>>
    BY <1>2 DEF Publisher, receiver, opening, channel, control
  <2>3. StreamTypes' /\ \A s \in Subscribers : Same(s)
    BY <1>1, <2>2 DEF StreamTypes, Same
  <2> QED BY <1>1, <2>1, <2>3, Frame DEF IInv
<1>3. CASE UNCHANGED vars
  <2>1. PublisherInv' /\ Grown
    BY <1>1, <1>3, PublisherStays DEF vars
  <2>2. UNCHANGED <<task, request, cursor, watermark, revision, start, initial, captured, offset,
                    filter, held, stream, read, changes, pings>>
    BY <1>3 DEF vars, receiver, opening, channel, control
  <2>3. StreamTypes' /\ \A s \in Subscribers : Same(s)
    BY <1>1, <2>2 DEF StreamTypes, Same
  <2> QED BY <1>1, <2>1, <2>3, Frame DEF IInv
<1>4. ASSUME NEW s \in Subscribers, ServerTask(s) \/ Control(s) \/ ClientRead(s)
      PROVE  IInv'
  <2>1. Subscribing(s)
    BY DEF Subscribing
  <2>2. Stepped(s)
    BY <2>1, <1>4, SubscribeLiveStep, SnapshotReplayStep, SnapshotMempoolStep, SendInitialStep,
       SendReplayStep, GoLiveStep, ReceiveLiveStep, SendHeldStep, LaggedStep, ReplaceFilterStep,
       HoldStep, SendPingStep, CancelledStep, ClientReadStep
    DEF ServerTask, Control
  <2>3. ASSUME NEW t \in Subscribers \ {s} PROVE StreamInv(t)'
    BY <1>1, <2>2, Frame DEF Stepped
  <2> QED BY <2>2, <2>3 DEF Stepped, IInv
<1> QED BY <1>2, <1>3, <1>4 DEF Next

LEMMA Inductive == Spec => []IInv
BY Inductive_Init, Inductive_Next, PTL DEF Spec

\* The state of publisher and streams is of its types: in particular no channel ever
\* holds more than its capacity, and no receiver is ahead of the ring.
THEOREM ServerTypeCorrect == Spec => []TypeOK
<1>1. IInv => TypeOK
  <2> SUFFICES ASSUME IInv PROVE TypeOK
    OBVIOUS
  <2>1. PublisherInv /\ PublisherTypes /\ StreamTypes /\ \A s \in Subscribers : StreamInv(s)
    BY DEF IInv, PublisherInv
  <2>2. \A s \in Subscribers : cursor[s] \in 0 .. sent /\ watermark[s] \in 0 .. Len(log)
    BY <2>1, StreamNumbers, PublisherNumbers DEF StreamInv
  <2>3. cursor \in [Subscribers -> 0 .. sent] /\ watermark \in [Subscribers -> 0 .. Len(log)]
    BY <2>1, <2>2 DEF StreamTypes
  <2>4. \A s \in Subscribers : /\ read[s] \in 0 .. Len(stream[s])
                               /\ Len(stream[s]) - read[s] <= ClientCapacity
    BY <2>1, StreamNumbers DEF StreamInv, Channel
  <2> QED BY <2>1, <2>3, <2>4 DEF TypeOK, PublisherTypes, StreamTypes
<1> QED BY <1>1, Inductive, PTL

\* Every stream, whatever its request and however its snapshots fall between the
\* publisher's steps, gets its updates in the order of their numbers and none twice.
THEOREM StreamsInOrder == Spec => []DeliveredInOrder
<1>1. IInv => DeliveredInOrder
  <2> SUFFICES ASSUME IInv PROVE DeliveredInOrder
    OBVIOUS
  <2>1. \A s \in Subscribers : Order(s) /\ DOMAIN stream[s] = 1 .. Len(stream[s])
    BY StreamNumbers DEF IInv, StreamInv
  <2> QED BY <2>1 DEF DeliveredInOrder, Order
<1> QED BY <1>1, Inductive, PTL

\* A stream that has not been ended and whose filter has not been replaced has been
\* given everything that it asked for, across the seam between replay and ring.
THEOREM StreamsLoseNothing == Spec => []NothingLost
<1>1. IInv => NothingLost
  <2> SUFFICES ASSUME IInv, NEW s \in Subscribers, Settled(s), NEW n \in 1 .. Reached(s),
                      Matches(filter[s], log[n]),
                      IF n > start[s]
                      THEN request[s].snapshot /\ log[n].scope = "mempool"
                             => log[n].rev > revision[s]
                      ELSE /\ request[s].fromHeight # NoHeight
                           /\ log[n].scope = "block" /\ log[n].height >= request[s].fromHeight
                           /\ \E g \in Given(s) : g < n
               PROVE  n \in Given(s)
    BY DEF NothingLost
  <2>1. StreamInv(s) /\ StreamTypes /\ Active(s) /\ task[s] \in {"live", "reserve"} /\ changes[s] = 0
    BY DEF IInv, Settled, Active
  <2>2. Seam(s) /\ Whole(s) /\ captured[s] = {}
    BY <2>1 DEF StreamInv, Seam
  <2>3. cursor[s] \in Nat /\ watermark[s] \in Nat /\ start[s] \in Nat
    BY <2>1, StreamNumbers
  <2>4. CASE n > start[s]
    <3>1. n \in (start[s] + 1) .. cursor[s]
      BY <2>2, <2>3, <2>4 DEF Seam, Reached, Larger
    <3> QED BY <3>1, <2>1, <2>2, <2>4 DEF Whole
  <2>5. CASE ~(n > start[s])
    <3>1. n \in 1 .. start[s] /\ ~ToCome(s, n)
      BY <2>2, <2>3, <2>5 DEF Reached, Larger, ToCome
    <3> QED BY <3>1, <2>1, <2>2, <2>5 DEF Whole
  <2> QED BY <2>4, <2>5
<1> QED BY <1>1, Inductive, PTL

-----------------------------------------------------------------------------
(***************************************************************************)
(* Whole events.  The buckets of the window each hold one block event and  *)
(* its newest bucket is always kept, so what a stream follows live begins  *)
(* between two events; and of a bucket it is given all or nothing.         *)
(***************************************************************************)
\* The limits of the replay window admit one block event: two updates in one batch.
HoldsABlock == HeightCapacity >= 1 /\ EventCapacity >= 2 /\ ByteCapacity >= 1

EventsInv ==
    /\ \A n \in 1 .. (Len(log) - 1) :
        log[n].event = log[n + 1].event => log[n].scope = log[n + 1].scope
    /\ stage = "replay" /\ log[sent + 1].scope = "block" => Len(log) = sent + 2

\* The event that ends at n is over: n + 1 is of another one.
Ends(n) == n < Len(log) => log[n].event # log[n + 1].event

KeptInv ==
    /\ \A i \in 1 .. Len(replay.pushed) :
        /\ replay.pushed[i].insertedAt = 0
        /\ EventsThrough(replay, i) = EventsThrough(replay, i - 1) + 2
        /\ BytesThrough(replay, i) = BytesThrough(replay, i - 1) + 1
        /\ Ends(replay.pushed[i].last)
    /\ Len(replay.pushed) # 0 => replay.popped < Len(replay.pushed)

WholeEvents == EventsInv /\ KeptInv

\* An event that is over stays over.
EndsStay == \A n \in 1 .. Len(log) : Ends(n) => Ends(n)'

LEMMA NewestFits ==
    ASSUME HoldsABlock, PublisherInv, KeptInv, Len(replay.pushed) # 0
    PROVE  Fits(replay, Len(replay.pushed), 0)
<1> DEFINE n == Len(replay.pushed)
<1>1. n \in 1 .. n /\ n \in Nat
  BY PublisherNumbers
<1>2. /\ EventsThrough(replay, n) \in Nat /\ EventsThrough(replay, n - 1) \in Nat
      /\ BytesThrough(replay, n) \in Nat /\ BytesThrough(replay, n - 1) \in Nat
  BY <1>1, TotalsAreNat DEF PublisherInv, WindowInv, Sound
<1>3. /\ EventsThrough(replay, n) - EventsThrough(replay, n - 1) = 2
      /\ BytesThrough(replay, n) - BytesThrough(replay, n - 1) = 1
      /\ replay.pushed[n].insertedAt = 0
  BY <1>1, <1>2 DEF KeptInv
<1> QED BY <1>3, LimitsAssumption DEF Fits, HoldsABlock

\* An eviction, by a snapshot or by the push of a mempool batch.
LEMMA EvictionKeeps ==
    ASSUME HoldsABlock, PublisherInv, KeptInv, UNCHANGED log, EvictsTo(replay, 0, replay')
    PROVE  KeptInv'
<1>1. /\ Sound(replay, {"finalized"}) /\ replay'.pushed = replay.pushed
  BY EvictSound DEF PublisherInv, WindowInv
<1>2. \A i : EventsThrough(replay, i)' = EventsThrough(replay, i)
             /\ BytesThrough(replay, i)' = BytesThrough(replay, i)
  BY <1>1 DEF EventsThrough, BytesThrough
<1>3. Len(replay.pushed) # 0 => replay'.popped < Len(replay.pushed)
  <2> SUFFICES ASSUME Len(replay.pushed) # 0 PROVE replay'.popped < Len(replay'.pushed)
    BY <1>1
  <2>1. Fits(replay, Len(replay.pushed), 0) /\ replay.popped < Len(replay.pushed)
    BY NewestFits DEF KeptInv
  <2> QED BY <1>1, <2>1, NewestKept DEF HoldsABlock
<1> QED BY <1>1, <1>2, <1>3 DEF KeptInv, Ends

\* The updates of a new event follow those of the last one.
LEMMA PublishingEvents ==
    ASSUME PublisherInv, WholeEvents, stage = "idle", stage' = "replay", UNCHANGED <<sent, replay>>,
           NEW new \in Seq(Messages), log' = log \o new, Len(new) > 0,
           \A k \in 1 .. Len(new) : /\ new[k].scope = new[1].scope
                                    /\ new[k].event = LastEvent + 1,
           new[1].scope = "block" => Len(new) = 2
    PROVE  WholeEvents' /\ EndsStay
<1>1. /\ Len(log) \in Nat /\ sent = Len(log) /\ Numbered = Len(log) /\ Len(new) \in Nat
      /\ LastEvent \in Nat
  BY PublisherNumbers, LastEventIsNat, LenProperties DEF PublisherInv, PublisherTypes, Numbered
<1>2. /\ Len(log') = Len(log) + Len(new)
      /\ \A n \in 1 .. Len(log') : log'[n] = IF n <= Len(log) THEN log[n] ELSE new[n - Len(log)]
  BY ConcatProperties DEF PublisherInv, PublisherTypes
<1>3. \A n \in 1 .. Len(log) : log'[n] = log[n]
  BY <1>1, <1>2
<1>4. \A n \in (Len(log) + 1) .. Len(log') :
        log'[n].scope = new[1].scope /\ log'[n].event = LastEvent + 1
  BY <1>1, <1>2
<1>5. Len(log) # 0 => log[Len(log)].event = LastEvent
  BY DEF LastEvent
<1>6. EndsStay
  <2> SUFFICES ASSUME NEW n \in 1 .. Len(log), Ends(n) PROVE log'[n].event # log'[n + 1].event
    BY DEF Ends, EndsStay
  <2>1. CASE n = Len(log)
    <3>1. log'[n].event = LastEvent
      BY <2>1, <1>1, <1>3, <1>5
    <3>2. log'[n + 1].event = LastEvent + 1
      BY <2>1, <1>1, <1>2, <1>4
    <3> QED BY <3>1, <3>2, <1>1
  <2>2. CASE n < Len(log)
    <3>1. n + 1 \in 1 .. Len(log)
      BY <2>2, <1>1
    <3> QED BY <2>2, <3>1, <1>3 DEF Ends
  <2> QED BY <2>1, <2>2, <1>1
<1>7. EventsInv'
  <2>1. ASSUME NEW n \in 1 .. (Len(log') - 1), log'[n].event = log'[n + 1].event
        PROVE  log'[n].scope = log'[n + 1].scope
    <3>1. CASE n < Len(log)
      <4>1. n \in 1 .. (Len(log) - 1) /\ n \in 1 .. Len(log) /\ n + 1 \in 1 .. Len(log)
        BY <3>1, <1>1
      <4> QED BY <4>1, <2>1, <1>3 DEF WholeEvents, EventsInv
    <3>2. CASE n = Len(log)
      <4>1. Ends(n)'
        <5>1. n \in 1 .. Len(log) /\ Ends(n)
          BY <3>2, <1>1 DEF Ends
        <5> QED BY <5>1, <1>6 DEF EndsStay
      <4> QED BY <4>1, <2>1, <1>1, <1>2 DEF Ends
    <3>3. CASE n > Len(log)
      <4>1. n \in (Len(log) + 1) .. Len(log') /\ n + 1 \in (Len(log) + 1) .. Len(log')
        BY <3>3, <1>1, <1>2
      <4> QED BY <4>1, <1>4
    <3> QED BY <3>1, <3>2, <3>3, <1>1
  <2>2. log'[sent + 1].scope = "block" => Len(log') = sent + 2
    <3>1. sent + 1 \in (Len(log) + 1) .. Len(log')
      BY <1>1, <1>2
    <3>2. log'[sent + 1].scope = new[1].scope
      BY <3>1, <1>4
    <3> QED BY <3>2, <1>1, <1>2
  <2> QED BY <2>1, <2>2 DEF EventsInv
<1>8. KeptInv'
  <2>1. \A i \in 1 .. Len(replay.pushed) : replay.pushed[i].last \in 1 .. Len(log)
    BY <1>1, PublisherNumbers DEF PublisherInv, WindowInv, BucketsOf
  <2>2. \A i \in 1 .. Len(replay.pushed) : Ends(replay.pushed[i].last)'
    BY <2>1, <1>6 DEF WholeEvents, KeptInv, EndsStay
  <2> QED BY <2>2 DEF WholeEvents, KeptInv, EventsThrough, BytesThrough
<1> QED BY <1>6, <1>7, <1>8 DEF WholeEvents

LEMMA PublishBlockEvents ==
    ASSUME PublisherInv, WholeEvents, PublishBlock
    PROVE  WholeEvents' /\ EndsStay
<1>1. PICK height \in Heights : log' = log \o BlockUpdates(Len(log), LastEvent + 1, height)
  BY DEF PublishBlock
<1> DEFINE m(k) == Message("block", Len(log) + k, height, 0, "none", {}, LastEvent + 1)
           new == <<m(1), m(2)>>
<1>2. Len(log) \in Nat /\ LastEvent + 1 \in Nat
  BY PublisherNumbers, LastEventIsNat DEF PublisherInv, PublisherTypes
<1>3. m(1) \in Messages /\ m(2) \in Messages
  BY <1>2, ServerAssumption DEF Message, Messages
<1>4. /\ m(1).scope = "block" /\ m(2).scope = "block"
      /\ m(1).event = LastEvent + 1 /\ m(2).event = LastEvent + 1
  BY DEF Message
<1>5. log' = log \o new
  BY <1>1 DEF BlockUpdates
<1> HIDE DEF m
<1>6. new \in Seq(Messages) /\ Len(new) = 2 /\ new[1] = m(1) /\ new[2] = m(2)
  BY <1>3
<1>7. \A k \in 1 .. Len(new) : k = 1 \/ k = 2
  BY <1>6
<1>8. \A k \in 1 .. Len(new) : new[k].scope = new[1].scope /\ new[k].event = LastEvent + 1
  BY <1>4, <1>6, <1>7
<1> HIDE DEF new
<1>9. stage = "idle" /\ stage' = "replay" /\ UNCHANGED <<sent, replay>> /\ Len(new) > 0
  BY <1>6 DEF PublishBlock
<1> QED BY <1>5, <1>6, <1>8, <1>9, PublishingEvents

LEMMA PublishMempoolEvents ==
    ASSUME PublisherInv, WholeEvents, PublishMempool
    PROVE  WholeEvents' /\ EndsStay
<1>1. PICK action \in {"added", "removed"}, id \in TxIds :
        log' = log \o MempoolUpdates(Len(log), LastEvent + 1, mempool.revision + 1, action, id)
  BY DEF PublishMempool
<1> DEFINE m(k) == Message("mempool", Len(log) + k, 0, mempool.revision + 1, action, {id},
                           LastEvent + 1)
           new == IF action = "added" THEN <<m(1), m(2)>> ELSE <<m(1)>>
<1>2. Len(log) \in Nat /\ LastEvent + 1 \in Nat /\ mempool.revision + 1 \in Nat
  BY PublisherNumbers, LastEventIsNat DEF PublisherInv, PublisherTypes
<1>3. m(1) \in Messages /\ m(2) \in Messages
  BY <1>2 DEF Message, Messages
<1>4. /\ m(1).scope = "mempool" /\ m(2).scope = "mempool"
      /\ m(1).event = LastEvent + 1 /\ m(2).event = LastEvent + 1
  BY DEF Message
<1>5. log' = log \o new
  BY <1>1 DEF MempoolUpdates
<1> HIDE DEF m
<1>6. /\ new \in Seq(Messages) /\ Len(new) \in {1, 2} /\ new[1] = m(1)
      /\ Len(new) = 2 => new[2] = m(2)
  BY <1>3
<1>7. \A k \in 1 .. Len(new) : k = 1 \/ (k = 2 /\ Len(new) = 2)
  BY <1>6
<1>8. /\ \A k \in 1 .. Len(new) : new[k].scope = new[1].scope /\ new[k].event = LastEvent + 1
      /\ new[1].scope # "block"
  BY <1>4, <1>6, <1>7
<1> HIDE DEF new
<1>9. stage = "idle" /\ stage' = "replay" /\ UNCHANGED <<sent, replay>> /\ Len(new) > 0
  BY <1>6 DEF PublishMempool
<1> QED BY <1>5, <1>6, <1>8, <1>9, PublishingEvents

LEMMA PushReplayEvents ==
    ASSUME HoldsABlock, PublisherInv, WholeEvents, PushReplay
    PROVE  WholeEvents' /\ EndsStay
<1> DEFINE m == log[sent + 1]
           b == Batch(m.height, "finalized", sent + 1, Len(log), 1)
           p == PushBack(replay, b, 0)
           n == Len(replay.pushed)
<1>1. /\ stage = "replay" /\ stage' = "send" /\ log' = log /\ sent' = sent
      /\ Len(log) \in Nat /\ sent \in Nat /\ sent < Len(log) /\ n \in Nat
      /\ m \in Messages
      /\ HeightCapacity # 0
  BY PublisherNumbers, LimitsAssumption DEF PushReplay, HoldsABlock
<1>2. EventsInv'
  BY <1>1 DEF WholeEvents, EventsInv
<1>3. CASE m.scope # "block"
  <2>1. EvictsTo(replay, 0, replay')
    BY <1>1, <1>3 DEF PushReplay, HeightlessPushesTo
  <2> QED BY <1>1, <1>2, <2>1, EvictionKeeps DEF WholeEvents, EndsStay, Ends
<1>4. CASE m.scope = "block"
  <2>1. EvictsTo(p, 0, replay')
    BY <1>1, <1>4 DEF PushReplay, PushesTo
  <2>2. /\ IsBatch(b, {"finalized"}) /\ b.item = "finalized"
        /\ b.first = sent + 1 /\ b.last = Len(log) /\ b.bytes = 1
    BY <1>1 DEF Batch, IsBatch, Messages
  <2>3. Events(b) = 2
    BY <1>1, <1>4, <2>2 DEF WholeEvents, EventsInv, Events
  <2>4. p.pushed = Append(replay.pushed, Bucket(replay, b, 0)) /\ p.popped = replay.popped
    BY DEF PushBack
  <2>5. /\ Bucket(replay, b, 0).insertedAt = 0 /\ Bucket(replay, b, 0).last = Len(log)
        /\ Bucket(replay, b, 0).eventsThrough = EventsThrough(replay, n) + 2
        /\ Bucket(replay, b, 0).bytesThrough = BytesThrough(replay, n) + 1
    BY <2>2, <2>3 DEF Bucket
  <2>6. Sound(p, {"finalized"})
    BY <2>2, PushSound DEF PublisherInv, WindowInv
  <2>7. replay.pushed \in Seq(BucketsOf({"finalized"})) /\ replay.popped \in 0 .. n
    BY DEF PublisherInv, WindowInv, Sound, Typed
  <2>8. p.pushed \in Seq(BucketsOf({"finalized"}))
    BY <2>6 DEF Sound, Typed
  <2> HIDE DEF b, p
  <2>9. Len(p.pushed) = n + 1 /\ p.pushed[n + 1] = Bucket(replay, b, 0)
        /\ \A i \in 1 .. n : p.pushed[i] = replay.pushed[i]
    BY <2>4, <2>7, <2>8
  <2>10. /\ \A i \in 0 .. n : EventsThrough(p, i) = EventsThrough(replay, i)
                              /\ BytesThrough(p, i) = BytesThrough(replay, i)
         /\ EventsThrough(p, n + 1) = EventsThrough(replay, n) + 2
         /\ BytesThrough(p, n + 1) = BytesThrough(replay, n) + 1
    BY <1>1, <2>5, <2>9 DEF EventsThrough, BytesThrough
  <2>11. /\ EventsThrough(replay, n) \in Nat /\ BytesThrough(replay, n) \in Nat
    BY <1>1, TotalsAreNat DEF PublisherInv, WindowInv, Sound
  <2>12. Fits(p, n + 1, 0)
    <3>1. /\ EventsThrough(p, n + 1) - EventsThrough(p, (n + 1) - 1) = 2
          /\ BytesThrough(p, n + 1) - BytesThrough(p, (n + 1) - 1) = 1
      BY <1>1, <2>10, <2>11, SMTT(30)
    <3> QED BY <3>1, <2>5, <2>9, LimitsAssumption DEF Fits, HoldsABlock
  <2>13. replay'.popped < Len(replay'.pushed) /\ replay'.pushed = p.pushed
    <3>1. p.popped < Len(p.pushed)
      BY <1>1, <2>4, <2>7, <2>9
    <3> QED BY <1>1, <2>1, <2>6, <2>9, <2>12, <3>1, NewestKept, EvictSound
  <2>14. \A i \in 0 .. (n + 1) : EventsThrough(replay, i)' = EventsThrough(p, i)
                                 /\ BytesThrough(replay, i)' = BytesThrough(p, i)
    BY <2>13 DEF EventsThrough, BytesThrough
  <2>15. ASSUME NEW i \in 1 .. (n + 1)
         PROVE  /\ replay'.pushed[i].insertedAt = 0
                /\ EventsThrough(replay, i)' = EventsThrough(replay, i - 1)' + 2
                /\ BytesThrough(replay, i)' = BytesThrough(replay, i - 1)' + 1
                /\ Ends(replay.pushed[i].last)'
    <3>1. i \in 0 .. (n + 1) /\ i - 1 \in 0 .. (n + 1) /\ i - 1 \in 0 .. n
      BY <1>1
    <3>2. CASE i \in 1 .. n
      <4>1. i \in 0 .. n
        BY <3>2
      <4>2. /\ replay.pushed[i].insertedAt = 0
            /\ EventsThrough(replay, i) = EventsThrough(replay, i - 1) + 2
            /\ BytesThrough(replay, i) = BytesThrough(replay, i - 1) + 1
            /\ Ends(replay.pushed[i].last)
        BY <3>2 DEF WholeEvents, KeptInv
      <4>3. replay'.pushed[i] = replay.pushed[i]
        BY <2>9, <2>13, <3>2
      <4>4. Ends(replay.pushed[i].last)'
        BY <1>1, <4>2, <4>3 DEF Ends
      <4> QED BY <2>10, <2>14, <3>1, <4>1, <4>2, <4>3, <4>4
    <3>3. CASE i = n + 1
      <4>1. i - 1 = n
        BY <3>3, <1>1
      <4> QED BY <1>1, <2>5, <2>9, <2>10, <2>13, <2>14, <3>1, <3>3, <4>1 DEF Ends
    <3> QED BY <3>2, <3>3, <1>1
  <2>16. KeptInv'
    BY <2>9, <2>13, <2>15 DEF KeptInv
  <2> QED BY <1>1, <1>2, <2>16 DEF WholeEvents, EndsStay, Ends
<1> QED BY <1>3, <1>4

LEMMA SendLiveEvents ==
    ASSUME PublisherInv, WholeEvents, SendLive
    PROVE  WholeEvents' /\ EndsStay
<1>1. stage' # "replay" /\ log' = log /\ replay' = replay
  BY DEF SendLive
<1> QED BY <1>1 DEF WholeEvents, EventsInv, KeptInv, Ends, EndsStay, EventsThrough, BytesThrough

\* Every step of the server: streams leave the log alone, and only evict.
LEMMA EventsStep ==
    ASSUME HoldsABlock, PublisherInv, WholeEvents, [Next]_vars
    PROVE  WholeEvents' /\ EndsStay
<1>1. CASE UNCHANGED publisher
  BY <1>1 DEF publisher, WholeEvents, EventsInv, KeptInv, Ends, EndsStay, EventsThrough, BytesThrough
<1>2. CASE Publisher
  BY <1>2, PublishBlockEvents, PublishMempoolEvents, PushReplayEvents, SendLiveEvents DEF Publisher
<1>3. ASSUME NEW s \in Subscribers, SnapshotReplay(s)
      PROVE  WholeEvents' /\ EndsStay
  <2>1. UNCHANGED <<log, sent, stage>> /\ (UNCHANGED replay \/ EvictsTo(replay, 0, replay'))
    BY <1>3 DEF SnapshotReplay
  <2>2. KeptInv'
    <3>1. CASE UNCHANGED replay
      BY <2>1, <3>1 DEF WholeEvents, KeptInv, Ends, EventsThrough, BytesThrough
    <3>2. CASE EvictsTo(replay, 0, replay')
      BY <2>1, <3>2, EvictionKeeps DEF WholeEvents
    <3> QED BY <2>1, <3>1, <3>2
  <2> QED BY <2>1, <2>2 DEF WholeEvents, EventsInv, Ends, EndsStay
<1>4. ASSUME NEW s \in Subscribers, ServerTask(s) \/ Control(s) \/ ClientRead(s), ~SnapshotReplay(s)
      PROVE  UNCHANGED publisher
  BY <1>4 DEF ServerTask, Control, SubscribeLive, SnapshotMempool, SendInitial, SendReplay, GoLive,
              ReceiveLive, SendHeld, Lagged, ReplaceFilter, AnswerPing, SendPing, RejectFilter,
              Cancelled, ClientRead
<1>5. CASE UNCHANGED vars
  BY <1>1, <1>5 DEF vars
<1> QED BY <1>1, <1>2, <1>3, <1>4, <1>5 DEF Next

-----------------------------------------------------------------------------
\* What is left of bucket i: all of it, but for the updates of the front bucket sent.
Left(s, i, k) ==
    i \in captured[s] /\ (Front(s, i) => k >= replay.pushed[i].first + offset[s])

\* No block event lies across the start of what a stream follows live, and of no
\* bucket is a part given and a part left out.
Unsplit(s) ==
    /\ start[s] <= Reached(s)
    /\ start[s] \in 1 .. Len(log) /\ log[start[s]].scope = "block" => Ends(start[s])
    /\ changes[s] = 0 =>
        /\ \A g \in Given(s) : Matches(filter[s], log[g])
        /\ \A i \in 1 .. Len(replay.pushed) : \A n, k :
            InBucket(n, i) /\ InBucket(k, i) /\ n <= start[s] /\ n \in Given(s)
                => k \in Given(s) \/ Left(s, i, k)
        /\ \A i \in captured[s] : \A k :
            /\ Front(s, i) /\ InBucket(k, i) /\ k < replay.pushed[i].first + offset[s]
            /\ Matches(filter[s], log[k])
            => k \in Given(s)

\* What a stream's own steps give it: nothing, but for the replay and the ring.
LEMMA GivenStays ==
    ASSUME IInv, NEW s \in Subscribers,
           \/ SubscribeLive(s) \/ SnapshotReplay(s) \/ SnapshotMempool(s) \/ SendInitial(s)
           \/ GoLive(s) \/ SendHeld(s) \/ Lagged(s) \/ Control(s) \/ ClientRead(s)
    PROVE  Given(s)' = Given(s)
<1>1. StreamTypes /\ StreamInv(s)
  BY DEF IInv
<1>2. CASE UNCHANGED <<stream, held>>
  BY <1>2 DEF Given, Delivered
<1>3. CASE SendInitial(s)
  <2>1. /\ task[s] = "initial" /\ initial[s] # <<>> /\ Offer(s, Head(initial[s]))
        /\ UNCHANGED <<held, read>>
    BY <1>3 DEF SendInitial
  <2>2. /\ Head(initial[s]) \in Messages /\ Head(initial[s]) = initial[s][1]
        /\ 1 \in 1 .. Len(initial[s])
    BY <1>1, <2>1, StreamNumbers, HeadTailProperties, EmptySeq, LenProperties
  <2>3. ~Published(Head(initial[s]))
    BY <1>1, <2>2 DEF StreamInv, Quiet
  <2>4. CASE HasRoom(s) /\ Put(s, Head(initial[s]))
    BY <1>1, <2>1, <2>2, <2>3, <2>4, PutUnpublished DEF StreamInv
  <2> QED BY <2>1, <2>4, <1>2 DEF Offer
<1>4. CASE SendHeld(s)
  <2>1. HasRoom(s) /\ Put(s, held[s]) /\ held' = [held EXCEPT ![s] = Nothing] /\ read' = read
    BY <1>4 DEF SendHeld
  <2>2. ~Published(held'[s])
    BY <1>1, <2>1 DEF StreamTypes, Nothing, Marker, Message, Published
  <2> QED BY <1>1, <2>1, <2>2, PutHeld DEF StreamInv
<1>5. CASE Lagged(s) \/ SendPing(s)
  <2>1. PICK scope \in {"lagged", "ping"} :
          /\ (HasRoom(s) /\ Put(s, Marker(scope, 0))) \/ stream' = stream
          /\ UNCHANGED <<held, read>>
    BY <1>5 DEF Lagged, SendPing
  <2>2. Marker(scope, 0) \in Messages /\ ~Published(Marker(scope, 0))
    BY DEF Marker, Message, Messages, Published
  <2>3. CASE HasRoom(s) /\ Put(s, Marker(scope, 0))
    BY <1>1, <2>1, <2>2, <2>3, PutUnpublished DEF StreamInv
  <2> QED BY <2>1, <2>3, <1>2
<1>6. CASE AnswerPing(s) \/ RejectFilter(s)
  <2>1. PICK scope \in {"pong", "invalid_filter"} :
          task[s] = "live" /\ stream' = stream /\ held' = [held EXCEPT ![s] = Marker(scope, 0)]
    BY <1>6 DEF AnswerPing, RejectFilter, channel
  <2>2. ~Published(held'[s]) /\ ~Published(held[s])
    BY <1>1, <2>1 DEF StreamInv, StreamTypes, Quiet, Nothing, Marker, Message, Published
  <2> QED BY <2>1, <2>2 DEF Given, Delivered
<1> QED
  BY <1>2, <1>3, <1>4, <1>5, <1>6
  DEF Control, SubscribeLive, SnapshotReplay, SnapshotMempool, GoLive, ReplaceFilter, Cancelled,
      ClientRead, channel

\* A stream whose own state is left alone.
LEMMA UnsplitFrame ==
    ASSUME IInv, PublisherInv', Grown, EndsStay, NEW s \in Subscribers, Active(s), Unsplit(s), Same(s)
    PROVE  Unsplit(s)'
<1>1. Given(s)' = Given(s)
  BY DEF Same, Given, Delivered
<1>2. /\ PublisherInv /\ StreamTypes /\ Seam(s) /\ Pending(s)
      /\ Len(log) \in Nat /\ Numbered \in Nat /\ Numbered <= Len(log)
      /\ Len(replay.pushed) \in Nat
      /\ start[s] \in Nat /\ start[s] <= Numbered /\ watermark[s] <= Numbered
      /\ watermark[s] \in Nat /\ captured[s] \subseteq 1 .. Len(replay.pushed)
  BY PublisherNumbers, StreamNumbers DEF IInv, StreamInv, Seam, Pending
<1>3. \A n \in 1 .. Len(log) : log'[n] = log[n]
  BY DEF Grown
<1>4. \A i \in 1 .. Len(replay.pushed) : replay'.pushed[i] = replay.pushed[i]
  BY DEF Grown
<1>5. \A i : Front(s, i)' <=> Front(s, i)
  BY DEF Front, Same
<1>6. \A i \in 1 .. Len(replay.pushed) : \A n :
        /\ InBucket(n, i)' <=> InBucket(n, i)
        /\ Left(s, i, n)' <=> Left(s, i, n)
  BY <1>4, <1>5 DEF InBucket, Left, Same
<1>7. Given(s) \subseteq 1 .. Len(log)
  <2>1. \A g \in Given(s) : g \in Nat /\ 1 <= g /\ g <= watermark[s]
    BY <1>2, StreamNumbers DEF Seam
  <2> QED BY <1>2, <2>1
<1>8. \A i \in 1 .. Len(replay.pushed) : \A k : InBucket(k, i) => k \in 1 .. Len(log)
  <2> TAKE i \in 1 .. Len(replay.pushed)
  <2>1. /\ replay.pushed[i].first \in Nat /\ replay.pushed[i].last \in Nat
        /\ 1 <= replay.pushed[i].first /\ replay.pushed[i].last <= Numbered
    BY <1>2, PublisherNumbers DEF PublisherInv, WindowInv, BucketsOf
  <2> QED BY <1>2, <2>1 DEF InBucket
<1>9. start[s] \in 1 .. Len(log') /\ log'[start[s]].scope = "block" => Ends(start[s])'
  <2> SUFFICES ASSUME start[s] \in 1 .. Len(log'), log'[start[s]].scope = "block"
               PROVE  Ends(start[s])'
    OBVIOUS
  <2>1. start[s] \in 1 .. Len(log)
    BY <1>2
  <2>2. Ends(start[s])
    BY <2>1, <1>3 DEF Unsplit
  <2>3. start'[s] = start[s]
    BY DEF Same
  <2> QED BY <2>1, <2>2, <2>3 DEF EndsStay, Ends
<1>10. ASSUME changes[s] = 0, NEW i \in 1 .. Len(replay'.pushed), NEW n, NEW k,
              InBucket(n, i)', InBucket(k, i)', n <= start[s], n \in Given(s)
       PROVE  k \in Given(s) \/ Left(s, i, k)'
  <2>1. CASE i \in 1 .. Len(replay.pushed)
    BY <1>6, <1>10, <2>1 DEF Unsplit
  <2>2. CASE i \in (Len(replay.pushed) + 1) .. Len(replay'.pushed)
    <3>1. Numbered < replay'.pushed[i].first
      BY <2>2 DEF Grown
    <3>2. n \in Int /\ replay'.pushed[i].first <= n
      BY <1>7, <1>10 DEF InBucket
    <3>3. replay'.pushed[i].first \in Nat
      <4>1. replay'.pushed[i] \in BucketsOf({"finalized"})
        BY <1>10, ElementOfSeq DEF PublisherInv, WindowInv, Sound, Typed
      <4> QED BY <4>1 DEF BucketsOf
    <3> QED BY <1>2, <1>10, <3>1, <3>2, <3>3
  <2> QED BY <1>2, <2>1, <2>2 DEF Grown
<1>11. ASSUME changes[s] = 0, NEW i \in captured[s], NEW k,
              Front(s, i), InBucket(k, i)', k < replay'.pushed[i].first + offset[s],
              Matches(filter[s], log'[k])
       PROVE  k \in Given(s)
  <2>1. i \in 1 .. Len(replay.pushed) /\ InBucket(k, i) /\ k \in 1 .. Len(log)
    BY <1>2, <1>6, <1>8, <1>11
  <2> QED BY <1>3, <1>4, <1>11, <2>1 DEF Unsplit
<1>12. \A g \in Given(s) : log'[g] = log[g]
  BY <1>3, <1>7
<1>13. start[s] <= Reached(s)'
  BY DEF Unsplit, Reached, Larger, Same
<1>14. /\ changes'[s] = changes[s] /\ filter'[s] = filter[s] /\ start'[s] = start[s]
       /\ captured'[s] = captured[s] /\ offset'[s] = offset[s]
  BY DEF Same
<1>15. changes[s] = 0 => \A g \in Given(s) : Matches(filter[s], log'[g])
  BY <1>12 DEF Unsplit
<1> QED BY <1>1, <1>5, <1>9, <1>10, <1>11, <1>13, <1>14, <1>15 DEF Unsplit, Matches, EventTypeOf

\* Where what a stream was given, its replay and its start are as they were.
LEMMA UnsplitStays ==
    ASSUME log' = log, replay'.pushed = replay.pushed, NEW s \in Subscribers, Given(s)' = Given(s),
           start'[s] = start[s], captured'[s] = captured[s], offset'[s] = offset[s],
           cursor'[s] = cursor[s], watermark'[s] = watermark[s],
           changes'[s] # 0 \/ (changes'[s] = changes[s] /\ filter'[s] = filter[s]), Unsplit(s)
    PROVE  Unsplit(s)'
<1>1. \A i : Front(s, i)' <=> Front(s, i)
  BY DEF Front
<1>2. \A i, k : /\ InBucket(k, i)' <=> InBucket(k, i)
                /\ Left(s, i, k)' <=> Left(s, i, k)
  BY <1>1 DEF InBucket, Left
<1> QED BY <1>1, <1>2 DEF Unsplit, Ends, Reached, Larger, Matches

\* The replay goes on with the front bucket's next update.
LEMMA SendReplayGives ==
    ASSUME IInv, NEW s \in Subscribers, SendReplay(s)
    PROVE  \E i \in captured[s] :
            LET b == replay.pushed[i]
                n == b.first + offset[s]
            IN
            /\ i \in 1 .. Len(replay.pushed) /\ Front(s, i) /\ InBucket(n, i)
            /\ captured'[s] = IF n = b.last THEN captured[s] \ {i} ELSE captured[s]
            /\ offset'[s] = IF n = b.last THEN 0 ELSE offset[s] + 1
            /\ Given(s)' = Given(s) \union (IF Matches(filter[s], log[n]) THEN {n} ELSE {})
<1>1. PublisherInv /\ StreamTypes /\ StreamInv(s)
  BY DEF IInv
<1>2. UNCHANGED <<held, read>> /\ task[s] = "initial"
  BY DEF SendReplay
<1>3. PICK i \in captured[s] :
        LET n == replay.pushed[i].first + offset[s]
            last == n = replay.pushed[i].last
        IN
        /\ \A j \in captured[s] : i <= j
        /\ Offer(s, log[n])
        /\ captured' = [captured EXCEPT ![s] = IF last THEN @ \ {i} ELSE @]
        /\ offset' = [offset EXCEPT ![s] = IF last THEN 0 ELSE @ + 1]
  BY DEF SendReplay
<1> DEFINE b == replay.pushed[i]
           n == b.first + offset[s]
           m == log[n]
<1>4. Pending(s) /\ held[s] = Nothing
  BY <1>1, <1>2 DEF StreamInv, Active, Quiet
<1>5. /\ captured'[s] = IF n = b.last THEN captured[s] \ {i} ELSE captured[s]
      /\ offset'[s] = IF n = b.last THEN 0 ELSE offset[s] + 1
      /\ Front(s, i) /\ Offer(s, m)
  BY <1>1, <1>3 DEF StreamTypes, Front
<1>6. i \in 1 .. Len(replay.pushed) /\ n <= b.last /\ \A g \in Given(s) : g < n
  BY <1>4, <1>5 DEF Pending
<1>7. /\ b.first \in Nat /\ b.last \in Nat /\ 1 <= b.first /\ b.last <= Len(log)
      /\ Len(log) \in Nat /\ offset[s] \in Nat
  <2>1. b \in BucketsOf({"finalized"}) /\ 1 <= b.first /\ b.last <= Numbered
        /\ Numbered \in Nat /\ Numbered <= Len(log) /\ Len(log) \in Nat /\ offset[s] \in Nat
    BY <1>1, <1>6, PublisherNumbers, StreamNumbers DEF PublisherInv, WindowInv
  <2> QED BY <2>1 DEF BucketsOf
<1> HIDE DEF b
<1>8. n \in 1 .. Len(log) /\ n \in b.first .. b.last
  BY <1>6, <1>7
<1>9. m \in Messages /\ m.seq = n /\ m.scope = "block" /\ Published(m)
  BY <1>1, <1>6, <1>8, PublisherNumbers DEF PublisherInv, LogInv, WindowInv, Published, b
<1>10. ~Published(held[s])
  BY <1>4 DEF Nothing, Marker, Message, Published
<1> HIDE DEF m, n
<1>11. Given(s)' = Given(s) \union (IF Matches(filter[s], m) THEN {n} ELSE {})
  <2>1. CASE Matches(filter[s], m)
    <3>1. HasRoom(s) /\ Put(s, m)
      BY <2>1, <1>5 DEF Offer
    <3> QED BY <2>1, <3>1, <1>1, <1>2, <1>6, <1>9, <1>10, PutPublished DEF StreamInv
  <2>2. CASE ~Matches(filter[s], m)
    <3>1. stream' = stream
      BY <2>2, <1>5, <1>9 DEF Offer
    <3> QED BY <2>2, <3>1, <1>2 DEF Given, Delivered
  <2> QED BY <2>1, <2>2
<1> QED BY <1>5, <1>6, <1>8, <1>11 DEF m, n, b, InBucket

LEMMA SendReplayUnsplit ==
    ASSUME IInv, NEW s \in Subscribers, SendReplay(s), Unsplit(s)
    PROVE  Unsplit(s)'
<1> DEFINE b(j) == replay.pushed[j]
<1>1. PICK i \in captured[s] :
        LET n == b(i).first + offset[s] IN
        /\ i \in 1 .. Len(replay.pushed) /\ Front(s, i) /\ InBucket(n, i)
        /\ captured'[s] = IF n = b(i).last THEN captured[s] \ {i} ELSE captured[s]
        /\ offset'[s] = IF n = b(i).last THEN 0 ELSE offset[s] + 1
        /\ Given(s)' = Given(s) \union (IF Matches(filter[s], log[n]) THEN {n} ELSE {})
  BY SendReplayGives
<1> DEFINE n == b(i).first + offset[s]
<1>2. /\ log' = log /\ replay' = replay /\ start'[s] = start[s] /\ cursor'[s] = cursor[s]
      /\ watermark'[s] = watermark[s] /\ changes'[s] = changes[s] /\ filter'[s] = filter[s]
      /\ task[s] = "initial"
  BY DEF SendReplay, publisher, receiver, control
<1>3. PublisherInv /\ StreamTypes /\ captured[s] \subseteq 1 .. Len(replay.pushed)
      /\ offset[s] \in Nat /\ Len(replay.pushed) \in Nat
  BY <1>2, PublisherNumbers, StreamNumbers DEF IInv, StreamInv, Active, Pending
<1>4. \A j \in 1 .. Len(replay.pushed) :
        /\ j \in Nat /\ b(j).first \in Nat /\ b(j).last \in Nat
        /\ \A k : InBucket(k, j) => k \in Nat /\ b(j).first <= k /\ k <= b(j).last
                                    /\ log[k].scope = "block"
  <2> TAKE j \in 1 .. Len(replay.pushed)
  <2>1. b(j).first \in Nat /\ b(j).last \in Nat
    BY <1>3, PublisherNumbers DEF BucketsOf
  <2> QED BY <1>3, <2>1 DEF InBucket, PublisherInv, WindowInv
<1>5. \A j \in 1 .. Len(replay.pushed) : \A k : InBucket(k, i) /\ InBucket(k, j) => j = i
  <2> SUFFICES ASSUME NEW j \in 1 .. Len(replay.pushed), NEW k, InBucket(k, i), InBucket(k, j), j # i
               PROVE  FALSE
    OBVIOUS
  <2>1. i < j \/ j < i
    BY <1>1, <1>4
  <2>2. b(i).last < b(j).first \/ b(j).last < b(i).first
    BY <1>1, <1>3, <2>1 DEF PublisherInv, WindowInv
  <2> QED BY <1>1, <1>4, <2>2, SMTT(30)
<1>6. \A j, k : InBucket(k, j)' <=> InBucket(k, j)
  BY <1>2 DEF InBucket
<1>7. \A j, k \in 1 .. Len(replay.pushed) : \A x, y :
        InBucket(x, j) /\ InBucket(y, k)
            => (Matches(filter[s], log[x]) <=> Matches(filter[s], log[y]))
  BY <1>4 DEF Matches, EventTypeOf
<1> HIDE DEF b
\* The rest of the front bucket, and the buckets behind it, are still to come.
<1>8. ASSUME NEW j \in captured[s], NEW k, InBucket(k, j), Left(s, j, k), j # i \/ k > n
      PROVE  Left(s, j, k)'
  <2>1. j \in 1 .. Len(replay.pushed)
    BY <1>3
  <2>2. j \in captured'[s]
    BY <1>1, <1>4, <1>8, <2>1
  <2>3. ASSUME Front(s, j)' PROVE k >= b(j).first + offset'[s]
    <3>1. CASE n = b(i).last
      BY <3>1, <1>1, <1>4, <1>8, <2>1
    <3>2. CASE n # b(i).last
      <4>1. j = i
        BY <1>1, <1>4, <2>1, <2>3, <3>2 DEF Front
      <4> QED BY <1>1, <1>3, <1>4, <1>8, <2>1, <3>2, <4>1
    <3> QED BY <3>1, <3>2
  <2> QED BY <1>2, <2>2, <2>3 DEF Left, b
<1> SUFFICES ASSUME changes[s] = 0
             PROVE  /\ \A g \in Given(s)' : Matches(filter[s], log[g])
                    /\ \A j \in 1 .. Len(replay.pushed) : \A x, k :
                        InBucket(x, j) /\ InBucket(k, j) /\ x <= start[s] /\ x \in Given(s)'
                            => k \in Given(s)' \/ Left(s, j, k)'
                    /\ \A j \in captured'[s] : \A k :
                        /\ Front(s, j)' /\ InBucket(k, j) /\ k < b(j).first + offset'[s]
                        /\ Matches(filter[s], log[k])
                        => k \in Given(s)'
  BY <1>2, <1>6 DEF Unsplit, Ends, Reached, Larger, Matches, b
<1>9. \A g \in Given(s)' : Matches(filter[s], log[g])
  BY <1>1 DEF Unsplit
<1>10. ASSUME NEW j \in 1 .. Len(replay.pushed), NEW x, NEW k,
              InBucket(x, j), InBucket(k, j), x <= start[s], x \in Given(s)'
       PROVE  k \in Given(s)' \/ Left(s, j, k)'
  <2>1. Matches(filter[s], log[x]) /\ Matches(filter[s], log[k])
    BY <1>7, <1>9, <1>10
  <2>2. CASE j = i
    <3>1. CASE k < n
      <4>1. k \in Given(s)
        BY <1>1, <1>10, <2>1, <2>2, <3>1 DEF Unsplit, b
      <4> QED BY <4>1, <1>1
    <3>2. CASE k = n
      BY <1>1, <2>1, <3>2
    <3>3. CASE k > n
      <4>1. Left(s, j, k)
        BY <1>1, <1>3, <1>4, <1>10, <2>2, <3>3 DEF Left, b
      <4> QED BY <1>8, <1>10, <2>2, <3>3, <4>1
    <3> QED BY <1>1, <1>3, <1>4, <1>10, <3>1, <3>2, <3>3
  <2>3. CASE j # i
    <3>1. x \in Given(s)
      BY <1>1, <1>5, <1>10, <2>3
    <3>2. k \in Given(s) \/ Left(s, j, k)
      BY <1>10, <3>1 DEF Unsplit
    <3>3. CASE k \in Given(s)
      BY <1>1, <3>3
    <3>4. CASE Left(s, j, k)
      <4>1. j \in captured[s]
        BY <3>4 DEF Left
      <4> QED BY <1>8, <1>10, <2>3, <3>4, <4>1
    <3> QED BY <3>2, <3>3, <3>4
  <2> QED BY <2>2, <2>3
<1>11. ASSUME NEW j \in captured'[s], NEW k, Front(s, j)', InBucket(k, j),
              k < b(j).first + offset'[s], Matches(filter[s], log[k])
       PROVE  k \in Given(s)'
  <2>1. j \in 1 .. Len(replay.pushed) /\ j \in captured[s]
    BY <1>1, <1>3, <1>11
  <2>2. n # b(i).last
    BY <1>1, <1>4, <1>11, <2>1
  <2>3. j = i
    BY <1>1, <1>4, <1>11, <2>1, <2>2 DEF Front
  <2>4. CASE k < n
    <3>1. k \in Given(s)
      BY <1>1, <1>11, <2>3, <2>4 DEF Unsplit, b
    <3> QED BY <3>1, <1>1
  <2>5. CASE k = n
    BY <1>1, <1>11, <2>5
  <2> QED BY <1>1, <1>3, <1>4, <1>11, <2>1, <2>2, <2>3, <2>4, <2>5
<1> QED BY <1>9, <1>10, <1>11

\* A stream starts to follow live after the newest block event in the window, or
\* further on, where its receiver stands among mempool updates.
LEMMA SnapshotUnsplit ==
    ASSUME HoldsABlock, IInv, WholeEvents', WholeEvents, IInv', NEW s \in Subscribers,
           SnapshotReplay(s), Active(s)'
    PROVE  Unsplit(s)'
<1> DEFINE w == Watermark(replay')
           n == Len(replay.pushed)
<1>1. /\ task[s] = "subscribed" /\ EvictsTo(replay, 0, replay')
      /\ watermark' = [watermark EXCEPT ![s] = w]
      /\ start' = [start EXCEPT ![s] = Larger(cursor[s], w)]
      /\ UNCHANGED <<log, sent, stage, mempool, cursor, offset, filter, held, stream, changes>>
  <2>1. \/ task' = [task EXCEPT ![s] = "refused"]
        \/ /\ EvictsTo(replay, 0, replay') /\ watermark' = [watermark EXCEPT ![s] = w]
           /\ start' = [start EXCEPT ![s] = Larger(cursor[s], w)]
    BY DEF SnapshotReplay
  <2>2. task' # [task EXCEPT ![s] = "refused"]
    BY DEF Active, IInv, StreamTypes
  <2> QED BY <2>1, <2>2 DEF SnapshotReplay, channel, control
<1>2. /\ PublisherInv /\ StreamTypes /\ StreamInv(s) /\ replay'.pushed = replay.pushed
      /\ Len(log) \in Nat /\ Numbered \in Nat /\ Numbered <= Len(log) /\ sent <= Numbered
      /\ sent \in Nat /\ n \in Nat /\ cursor[s] \in Nat /\ cursor[s] <= sent
  BY <1>1, PublisherNumbers, StreamNumbers, EvictSound
  DEF IInv, StreamInv, PublisherInv, WindowInv
<1>3. /\ Given(s)' = {} /\ offset'[s] = 0 /\ cursor'[s] = cursor[s]
      /\ watermark'[s] = w /\ start'[s] = Larger(cursor[s], w)
  <2>1. Given(s) = {} /\ offset[s] = 0
    BY <1>1, <1>2 DEF StreamInv, Quiet
  <2>2. Given(s)' = Given(s)
    BY <1>1 DEF Given, Delivered
  <2> QED BY <1>1, <1>2, <2>1, <2>2 DEF StreamTypes
<1>4. \A i \in 1 .. n : replay.pushed[i].first \in Nat /\ replay.pushed[i].last \in Nat
  BY <1>2, PublisherNumbers DEF BucketsOf
<1>5. n # 0 => w = replay.pushed[n].last
  <2> SUFFICES ASSUME n # 0 PROVE w = replay.pushed[n].last
    OBVIOUS
  <2>1. replay'.popped < Len(replay'.pushed)
    BY <1>2 DEF WholeEvents, KeptInv
  <2>2. replay'.popped \in Nat
    BY <1>1, <1>2, EvictSound, SMTT(30) DEF PublisherInv, WindowInv, Sound, Typed
  <2>3. n \in Retained(replay')
    BY <1>2, <2>1, <2>2 DEF Retained
  <2> QED BY <1>2, <2>3 DEF Watermark, Newest
<1>6. n = 0 => w = 0
  <2> SUFFICES ASSUME n = 0 PROVE w = 0
    OBVIOUS
  <2>1. replay'.popped \in Nat
    BY <1>1, <1>2, EvictSound DEF PublisherInv, WindowInv, Sound, Typed
  <2> QED BY <1>2, <2>1 DEF Retained, Watermark
<1> HIDE DEF w
<1>7. w \in Nat
  BY <1>2, <1>4, <1>5, <1>6
<1>8. start'[s] <= Reached(s)'
  BY <1>2, <1>3, <1>7 DEF Reached, Larger
<1>9. ASSUME start'[s] \in 1 .. Len(log'), log'[start'[s]].scope = "block"
      PROVE  Ends(start[s])'
  <2>1. n # 0 /\ start'[s] = w
    <3>1. start'[s] \in 1 .. Numbered \/ start'[s] = w
      BY <1>2, <1>3, <1>9 DEF Larger
    <3>2. CASE start'[s] = w
      BY <1>2, <1>6, <1>9, <3>2
    <3>3. CASE start'[s] \in 1 .. Numbered
      <4>1. PICK i \in 1 .. n : InBucket(start'[s], i)
        BY <1>1, <1>2, <1>9, <3>3 DEF PublisherInv, WindowInv, HoldsABlock
      <4>2. start'[s] <= replay.pushed[i].last /\ n \in 1 .. n /\ n # 0
        BY <1>2, <1>4, <4>1 DEF InBucket
      <4>3. replay.pushed[i].last <= replay.pushed[n].last
        BY <1>2, <4>1, <4>2, BucketsInOrder
      <4>4. start'[s] <= w
        BY <1>4, <1>5, <4>1, <4>2, <4>3, <3>3
      <4> QED BY <1>2, <1>3, <1>7, <4>2, <4>4 DEF Larger
    <3> QED BY <3>1, <3>2, <3>3
  <2>2. Ends(replay.pushed[n].last)
    BY <1>2, <2>1 DEF WholeEvents, KeptInv
  <2> QED BY <1>1, <1>5, <2>1, <2>2 DEF Ends
<1>10. \A i, k : InBucket(k, i)' => (k < replay'.pushed[i].first + offset'[s] => FALSE)
          \/ i \notin 1 .. n
  BY <1>2, <1>3, <1>4 DEF InBucket
<1>11. captured'[s] \subseteq 1 .. n
  BY <1>2 DEF IInv, StreamInv, Pending
<1> QED BY <1>3, <1>8, <1>9, <1>10, <1>11 DEF Unsplit

\* What a stream follows live is numbered above its start.
LEMMA ReceiveLiveUnsplit ==
    ASSUME IInv, NEW s \in Subscribers, ReceiveLive(s), Unsplit(s)
    PROVE  Unsplit(s)'
<1> DEFINE n == cursor[s] + 1
           m == log[n]
<1>1. PublisherInv /\ StreamTypes /\ StreamInv(s)
  BY DEF IInv
<1>2. /\ task[s] = "live" /\ cursor[s] < sent /\ cursor' = [cursor EXCEPT ![s] = n]
      /\ \/ UNCHANGED <<watermark, held>>
         \/ /\ ~(m.seq <= watermark[s]) /\ watermark' = [watermark EXCEPT ![s] = m.seq]
            /\ \/ UNCHANGED held
               \/ Matches(filter[s], m) /\ held' = [held EXCEPT ![s] = m]
      /\ UNCHANGED <<log, replay, start, captured, offset, filter, stream, changes>>
  BY DEF ReceiveLive, publisher, opening, channel, control
<1>3. /\ cursor[s] \in Nat /\ watermark[s] \in Nat /\ start[s] \in Nat /\ n \in 1 .. Len(log)
      /\ sent \in Nat /\ Len(log) \in Nat
  BY <1>1, <1>2, PublisherNumbers, StreamNumbers
<1>4. m.seq = n /\ m \in Messages /\ Published(m)
  BY <1>1, <1>3, PublisherNumbers DEF PublisherInv, LogInv, Published
<1>5. captured[s] = {} /\ ~Published(held[s])
  BY <1>1, <1>2 DEF StreamInv, Active, Seam, Quiet, Nothing, Marker, Message, Published
<1> HIDE DEF m
<1>6. /\ cursor'[s] = n
      /\ \/ watermark'[s] = watermark[s] /\ held'[s] = held[s]
         \/ /\ n > watermark[s] /\ watermark'[s] = n
            /\ held'[s] = held[s] \/ (Matches(filter[s], m) /\ held'[s] = m)
  BY <1>1, <1>2, <1>3, <1>4 DEF StreamTypes
<1>7. Reached(s)' \in Nat /\ Reached(s) <= Reached(s)'
  BY <1>3, <1>6 DEF Reached, Larger
<1>8. \/ Given(s)' = Given(s)
      \/ /\ n > start[s] /\ Matches(filter[s], m) /\ Given(s)' = Given(s) \union {n}
  <2>1. CASE held'[s] = held[s]
    BY <1>2, <2>1 DEF Given, Delivered
  <2>2. CASE n > watermark[s] /\ Matches(filter[s], m) /\ held'[s] = m
    <3>1. Given(s)' = Given(s) \union {n}
      BY <1>2, <1>4, <1>5, <2>2 DEF Given, Delivered
    <3>2. n > start[s]
      BY <1>3, <2>2 DEF Unsplit, Reached, Larger
    <3> QED BY <2>2, <3>1, <3>2
  <2> QED BY <1>6, <2>1, <2>2
<1>9. start'[s] <= Reached(s)'
  BY <1>2, <1>3, <1>7 DEF Unsplit, Reached, Larger
<1>10. \A i, k : /\ InBucket(k, i)' <=> InBucket(k, i)
                 /\ ~Left(s, i, k) /\ ~Left(s, i, k)'
  BY <1>2, <1>5 DEF InBucket, Left
<1>11. captured'[s] = {} /\ start'[s] = start[s] /\ changes'[s] = changes[s]
       /\ filter'[s] = filter[s] /\ log' = log /\ replay' = replay
  BY <1>2, <1>5
<1>12. Given(s) \subseteq Given(s)'
  BY <1>8
<1>13. \A x \in Given(s)' : x <= start[s] => x \in Given(s)
  BY <1>3, <1>8
<1>14. changes[s] = 0 => \A g \in Given(s)' : Matches(filter[s], log[g])
  BY <1>8 DEF Unsplit, m
<1>15. changes[s] = 0 => \A i \in 1 .. Len(replay.pushed) : \A x, k :
          InBucket(x, i) /\ InBucket(k, i) /\ x <= start[s] /\ x \in Given(s)' => k \in Given(s)'
  BY <1>10, <1>12, <1>13 DEF Unsplit
<1>16. start[s] \in 1 .. Len(log) /\ log[start[s]].scope = "block" => Ends(start[s])'
  BY <1>11 DEF Unsplit, Ends
<1> QED BY <1>9, <1>10, <1>11, <1>14, <1>15, <1>16 DEF Unsplit, Matches

UnsplitInv == WholeEvents /\ \A s \in Subscribers : Active(s) => Unsplit(s)

LEMMA UnsplitInductive_Init == Init => UnsplitInv
<1> SUFFICES ASSUME Init PROVE UnsplitInv
  OBVIOUS
<1> USE DEF Init
<1>1. Len(log) = 0 /\ stage = "idle" /\ replay.pushed = <<>> /\ Len(replay.pushed) = 0
  BY DEF EmptyReplay
<1>2. WholeEvents
  BY <1>1 DEF WholeEvents, EventsInv, KeptInv
<1> QED BY <1>2 DEF UnsplitInv, Active

LEMMA UnsplitInductive_Next ==
    ASSUME HoldsABlock, IInv, IInv', UnsplitInv, [Next]_vars
    PROVE  UnsplitInv'
<1>1. WholeEvents' /\ EndsStay /\ PublisherInv'
  BY EventsStep DEF IInv, UnsplitInv
<1>2. ASSUME Grown, NEW s \in Subscribers, Same(s), Active(s)'
      PROVE  Unsplit(s)'
  <2>1. Active(s)
    BY <1>2 DEF Active, Same
  <2> QED BY <1>1, <1>2, <2>1, UnsplitFrame DEF UnsplitInv
<1>3. CASE Publisher
  <2>1. Grown
    BY <1>3, PublisherStep DEF Publisher, IInv
  <2>2. \A s \in Subscribers : Same(s)
    BY <1>3 DEF Publisher, receiver, opening, channel, control, Same
  <2> QED BY <1>1, <1>2, <2>1, <2>2 DEF UnsplitInv
<1>4. CASE UNCHANGED vars
  <2>1. Grown
    BY <1>4, PublisherStays DEF vars, IInv
  <2>2. \A s \in Subscribers : Same(s)
    BY <1>4 DEF vars, receiver, opening, channel, control, Same
  <2> QED BY <1>1, <1>2, <2>1, <2>2 DEF UnsplitInv
<1>5. ASSUME NEW s \in Subscribers, ServerTask(s) \/ Control(s) \/ ClientRead(s)
      PROVE  UnsplitInv'
  <2>1. Stepped(s)
    BY <1>5, SubscribeLiveStep, SnapshotReplayStep, SnapshotMempoolStep, SendInitialStep,
       SendReplayStep, GoLiveStep, ReceiveLiveStep, SendHeldStep, LaggedStep, ReplaceFilterStep,
       HoldStep, SendPingStep, CancelledStep, ClientReadStep
    DEF ServerTask, Control, Subscribing
  <2>2. ASSUME NEW t \in Subscribers \ {s}, Active(t)' PROVE Unsplit(t)'
    BY <1>2, <2>1, <2>2 DEF Stepped
  <2>3. ASSUME Active(s)' PROVE Unsplit(s)'
    <3>1. CASE SnapshotReplay(s)
      BY <1>1, <2>3, <3>1, SnapshotUnsplit DEF UnsplitInv
    <3>2. CASE SendReplay(s)
      <4>1. Active(s)
        BY <3>2 DEF SendReplay, Active
      <4> QED BY <3>2, <4>1, SendReplayUnsplit DEF UnsplitInv
    <3>3. CASE ReceiveLive(s)
      <4>1. Active(s)
        BY <3>3 DEF ReceiveLive, Active
      <4> QED BY <3>3, <4>1, ReceiveLiveUnsplit DEF UnsplitInv
    <3>4. CASE SubscribeLive(s)
      BY <2>3, <3>4 DEF SubscribeLive, Active, IInv, StreamTypes
    <3>5. CASE \/ SnapshotMempool(s) \/ SendInitial(s) \/ GoLive(s) \/ SendHeld(s) \/ Lagged(s)
               \/ Control(s) \/ ClientRead(s)
      <4>1. /\ Given(s)' = Given(s)
            /\ UNCHANGED <<log, replay, start, captured, offset, cursor, watermark>>
        BY <3>5, GivenStays
        DEF SnapshotMempool, SendInitial, GoLive, SendHeld, Lagged, Control, ReplaceFilter,
            AnswerPing, SendPing, RejectFilter, Cancelled, ClientRead, publisher, receiver, opening
      <4>2. Active(s)
        <5>1. ~Active(s) => ClientRead(s) /\ task' = task
          BY <3>5 DEF Active, SnapshotMempool, SendInitial, GoLive, SendHeld, Lagged, Control,
                      ReplaceFilter, AnswerPing, SendPing, RejectFilter, Cancelled, ClientRead
        <5> QED BY <2>3, <5>1 DEF Active
      <4>3. changes'[s] # 0 \/ (changes'[s] = changes[s] /\ filter'[s] = filter[s])
        <5>1. CASE ReplaceFilter(s) \/ RejectFilter(s)
          <6>1. changes' = [changes EXCEPT ![s] = @ + 1] /\ changes \in [Subscribers -> Nat]
            BY <5>1 DEF ReplaceFilter, RejectFilter, IInv, StreamTypes
          <6> QED BY <6>1
        <5> QED BY <3>5, <5>1
            DEF SnapshotMempool, SendInitial, GoLive, SendHeld, Lagged, Control, AnswerPing,
                SendPing, Cancelled, ClientRead, control
      <4> QED BY <4>1, <4>2, <4>3, UnsplitStays DEF UnsplitInv
    <3> QED BY <1>5, <3>1, <3>2, <3>3, <3>4, <3>5 DEF ServerTask
  <2> QED BY <1>1, <2>2, <2>3 DEF UnsplitInv
<1> QED BY <1>3, <1>4, <1>5 DEF Next

\* If the replay window is on and its limits admit a block event, a stream gets all the
\* updates of one block event or none: the push into the window before the first send
\* makes up for the sends that a new subscriber comes in between.
THEOREM StreamsGetWholeBlocks == HoldsABlock => (Spec => []BlockEventsWhole)
<1> SUFFICES ASSUME HoldsABlock PROVE Spec => []BlockEventsWhole
  OBVIOUS
<1>1. Spec => []UnsplitInv
  <2>1. IInv /\ IInv' /\ UnsplitInv /\ [Next]_vars => UnsplitInv'
    BY UnsplitInductive_Next
  <2> QED BY <2>1, UnsplitInductive_Init, Inductive, PTL DEF Spec
<1>2. IInv /\ UnsplitInv => BlockEventsWhole
  <2> SUFFICES ASSUME IInv, UnsplitInv, NEW s \in Subscribers, Settled(s),
                      NEW n \in 1 .. (Reached(s) - 1), log[n].scope = "block",
                      log[n].event = log[n + 1].event
               PROVE  n \in Given(s) <=> n + 1 \in Given(s)
    BY DEF BlockEventsWhole
  <2>1. /\ PublisherInv /\ StreamTypes /\ StreamInv(s) /\ Active(s) /\ Unsplit(s)
        /\ task[s] \in {"live", "reserve"} /\ changes[s] = 0
    BY DEF IInv, UnsplitInv, Settled, Active
  <2>2. Seam(s) /\ Whole(s) /\ captured[s] = {}
    BY <2>1 DEF StreamInv, Seam
  <2>3. /\ cursor[s] \in Nat /\ watermark[s] \in Nat /\ start[s] \in Nat /\ sent \in Nat
        /\ Len(log) \in Nat /\ Numbered \in Nat /\ sent <= Numbered /\ Numbered <= Len(log)
        /\ cursor[s] <= sent /\ watermark[s] <= Numbered
    BY <2>1, StreamNumbers, PublisherNumbers DEF StreamInv
  <2>4. n \in 1 .. (Len(log) - 1) /\ n \in 1 .. Numbered /\ n + 1 \in 1 .. Numbered /\ n \in Nat
    BY <2>3 DEF Reached, Larger
  <2>5. log[n + 1].scope = "block"
    BY <2>4 DEF UnsplitInv, WholeEvents, EventsInv
  <2>6. Matches(filter[s], log[n]) <=> Matches(filter[s], log[n + 1])
    BY <2>5 DEF Matches, EventTypeOf
  <2>7. CASE n > start[s]
    <3>1. n \in (start[s] + 1) .. cursor[s] /\ n + 1 \in (start[s] + 1) .. cursor[s]
      BY <2>2, <2>3, <2>7 DEF Seam, Reached, Larger
    <3>2. \A k \in {n, n + 1} : k \in Given(s) <=> Matches(filter[s], log[k])
      BY <2>1, <2>2, <2>5, <3>1 DEF Whole, Unsplit
    <3> QED BY <2>6, <3>2
  <2>8. CASE n = start[s]
    BY <2>1, <2>3, <2>4, <2>8 DEF Unsplit, Ends
  <2>9. CASE n < start[s]
    <3>1. HeightCapacity # 0
      BY DEF HoldsABlock
    <3>2. PICK i \in 1 .. Len(replay.pushed) : InBucket(n, i)
      BY <2>1, <2>4, <3>1 DEF PublisherInv, WindowInv
    <3>3. /\ replay.pushed[i].first \in Nat /\ replay.pushed[i].last \in Nat
          /\ replay.pushed[i].last <= Numbered
      BY <2>1, PublisherNumbers DEF BucketsOf, PublisherInv, WindowInv
    <3>4. Ends(replay.pushed[i].last)
      BY DEF UnsplitInv, WholeEvents, KeptInv
    <3>5. n # replay.pushed[i].last
      BY <2>3, <2>4, <3>4 DEF Ends
    <3>6. InBucket(n + 1, i)
      BY <2>4, <3>2, <3>3, <3>5 DEF InBucket
    <3>7. \A k : ~Left(s, i, k)
      BY <2>2 DEF Left
    <3>8. n <= start[s] /\ n + 1 <= start[s]
      BY <2>3, <2>4, <2>9
    <3> QED BY <2>1, <3>2, <3>6, <3>7, <3>8 DEF Unsplit
  <2> QED BY <2>3, <2>4, <2>7, <2>8, <2>9
<1> QED BY <1>1, <1>2, Inductive, PTL

-----------------------------------------------------------------------------
(***************************************************************************)
(* The mempool of a client: what it has applied, and what is on the way to *)
(* it, is always what the first n updates leave, for an n at which the     *)
(* revision of its snapshot divides the deltas skipped from those given.   *)
(***************************************************************************)
\* What a message makes of the set it is applied to.
Applied(S, m) == IF m.action = "added" THEN S \union m.ids ELSE S \ m.ids

LEMMA SurvivingEmpty == Surviving(<<>>) = {}
BY DEF Surviving

LEMMA SurvivingAppend ==
    ASSUME NEW q \in Seq(Messages), NEW m \in Messages
    PROVE  Surviving(Append(q, m)) = Applied(Surviving(q), m)
<1> DEFINE n == Len(q)
           r == Append(q, m)
<1>1. /\ n \in Nat /\ DOMAIN q = 1 .. n
      /\ Len(r) = n + 1 /\ DOMAIN r = 1 .. (n + 1)
      /\ \A i \in 1 .. n : r[i] = q[i]
      /\ r[n + 1] = m
      /\ r \in Seq(Messages)
  BY AppendProperties, LenProperties
<1>2. \A i \in 1 .. (n + 1) : i \in 1 .. n \/ i = n + 1
  BY <1>1
<1>3. \A i \in 1 .. n : i \in 1 .. (n + 1) /\ n + 1 > i
  BY <1>1
<1>4. m.ids \subseteq TxIds
  BY DEF Messages
<1> HIDE DEF r
<1>5. ASSUME NEW id \in TxIds
      PROVE  id \in Surviving(r) <=> id \in Applied(Surviving(q), m)
  <2>1. CASE id \in m.ids
    <3>1. id \in Applied(Surviving(q), m) <=> m.action = "added"
      BY <2>1 DEF Applied
    <3>2. ASSUME NEW i \in 1 .. (n + 1), \A j \in 1 .. (n + 1) : j > i => id \notin r[j].ids
          PROVE  i = n + 1
      BY <1>1, <1>2, <1>3, <2>1, <3>2
    <3>3. id \in Surviving(r) => m.action = "added"
      BY <1>1, <3>2 DEF Surviving
    <3>4. ASSUME m.action = "added" PROVE id \in Surviving(r)
      <4>1. n + 1 \in 1 .. (n + 1) /\ \A j \in 1 .. (n + 1) : ~(j > n + 1)
        BY <1>1
      <4> QED BY <1>1, <2>1, <3>4, <4>1 DEF Surviving
    <3> QED BY <3>1, <3>3, <3>4
  <2>2. CASE id \notin m.ids
    <3>1. id \in Applied(Surviving(q), m) <=> id \in Surviving(q)
      BY <2>2 DEF Applied
    <3>2. ASSUME id \in Surviving(q) PROVE id \in Surviving(r)
      <4>1. PICK i \in 1 .. n : /\ id \in q[i].ids /\ q[i].action = "added"
                                /\ \A j \in 1 .. n : j > i => id \notin q[j].ids
        BY <1>1, <3>2 DEF Surviving
      <4>2. \A j \in 1 .. (n + 1) : j > i => id \notin r[j].ids
        BY <1>1, <1>2, <2>2, <4>1
      <4>3. i \in 1 .. (n + 1) /\ id \in r[i].ids /\ r[i].action = "added"
        BY <1>1, <1>3, <4>1
      <4> QED BY <1>1, <4>2, <4>3 DEF Surviving
    <3>3. ASSUME id \in Surviving(r) PROVE id \in Surviving(q)
      <4>1. PICK i \in 1 .. (n + 1) : /\ id \in r[i].ids /\ r[i].action = "added"
                                      /\ \A j \in 1 .. (n + 1) : j > i => id \notin r[j].ids
        BY <1>1, <3>3 DEF Surviving
      <4>2. i \in 1 .. n
        BY <1>1, <1>2, <2>2, <4>1
      <4>3. \A j \in 1 .. n : j > i => id \notin q[j].ids
        BY <1>1, <1>3, <4>1
      <4>4. id \in q[i].ids /\ q[i].action = "added"
        BY <1>1, <4>1, <4>2
      <4> QED BY <1>1, <4>2, <4>3, <4>4 DEF Surviving
    <3> QED BY <3>1, <3>2, <3>3
  <2> QED BY <2>1, <2>2
<1>6. Surviving(r) \subseteq TxIds /\ Surviving(q) \subseteq TxIds
  BY DEF Surviving
<1>7. Applied(Surviving(q), m) \subseteq TxIds
  BY <1>4, <1>6 DEF Applied
<1> QED BY <1>5, <1>6, <1>7 DEF r

\* Messages that name no transactions change nothing.
LEMMA IdlessApplied ==
    ASSUME NEW S, NEW m, m.ids = {}
    PROVE  Applied(S, m) = S
BY DEF Applied

LEMMA Pairs ==
    ASSUME NEW x \in Seq(Messages), NEW y \in Seq(Messages), NEW b \in Messages,
           Len(x) = 1, Len(y) = 2, y[1] = x[1], y[2] = b
    PROVE  Append(x, b) = y
<1>1. /\ Append(x, b) \in Seq(Messages) /\ Len(Append(x, b)) = Len(x) + 1
      /\ \A i \in 1 .. Len(x) : Append(x, b)[i] = x[i]
      /\ Append(x, b)[Len(x) + 1] = b
  BY AppendProperties
<1>2. Len(Append(x, b)) = 2 /\ Append(x, b)[1] = x[1] /\ Append(x, b)[2] = b
  BY <1>1
<1>3. \A i \in 1 .. 2 : i = 1 \/ i = 2
  OBVIOUS
<1> QED BY <1>1, <1>2, <1>3, SeqEqual

\* A sequence of one or two messages more.
LEMMA SurvivingMore ==
    ASSUME NEW q \in Seq(Messages), NEW a \in Messages, NEW b \in Messages
    PROVE  /\ q \o <<a>> \in Seq(Messages)
           /\ Surviving(q \o <<a>>) = Applied(Surviving(q), a)
           /\ Surviving(q \o <<a, b>>) = Applied(Applied(Surviving(q), a), b)
<1>1. Append(q, a) = q \o <<a>> /\ Append(q, a) \in Seq(Messages)
  BY AppendIsConcat, AppendProperties
<1>2. Append(q \o <<a>>, b) = (q \o <<a>>) \o <<b>>
  BY <1>1, AppendIsConcat
<1>3. (q \o <<a>>) \o <<b>> = q \o (<<a>> \o <<b>>) /\ <<a>> \o <<b>> = <<a, b>>
  <2>1. <<a>> \in Seq(Messages) /\ <<b>> \in Seq(Messages)
    OBVIOUS
  <2>2. (q \o <<a>>) \o <<b>> = q \o (<<a>> \o <<b>>)
    BY <2>1, ConcatAssociative
  <2>3. <<a>> \o <<b>> = Append(<<a>>, b)
    BY <2>1, AppendIsConcat
  <2>4. Append(<<a>>, b) = <<a, b>>
    <3>1. /\ <<a>> \in Seq(Messages) /\ Len(<<a>>) = 1 /\ <<a>>[1] = a
          /\ <<a, b>> \in Seq(Messages) /\ Len(<<a, b>>) = 2
          /\ <<a, b>>[1] = a /\ <<a, b>>[2] = b
      OBVIOUS
    <3> QED BY ONLY <3>1, b \in Messages, Pairs
  <2> QED BY <2>2, <2>3, <2>4
<1>4. Surviving(q \o <<a>>) = Applied(Surviving(q), a)
  BY <1>1, SurvivingAppend
<1>5. Surviving(Append(q \o <<a>>, b)) = Applied(Surviving(q \o <<a>>), b)
  BY <1>1, SurvivingAppend
<1> QED BY <1>1, <1>2, <1>3, <1>4, <1>5

\* A prefix of one update more, and one that two logs share.
LEMMA PrefixGrows ==
    ASSUME NEW q \in Seq(Messages), NEW n \in 0 .. (Len(q) - 1)
    PROVE  Surviving(SubSeq(q, 1, n + 1)) = Applied(Surviving(SubSeq(q, 1, n)), q[n + 1])
<1>1. Len(q) \in Nat /\ n + 1 \in 1 .. Len(q) /\ 1 \in 1 .. Len(q) /\ (n + 1) - 1 = n
  BY LenProperties
<1>2. q[n + 1] \in Messages
  BY <1>1, ElementOfSeq
<1>3. SubSeq(q, 1, n + 1) = SubSeq(q, 1, n) \o <<q[n + 1]>>
  BY <1>1, SubSeqRecursiveSecond
<1>4. SubSeq(q, 1, n) \in Seq(Messages)
  <2>1. CASE n = 0
    BY <2>1, SubSeqEmpty
  <2>2. CASE n # 0
    BY <1>1, <2>2, SubSeqProperties
  <2> QED BY <2>1, <2>2
<1> QED BY <1>2, <1>3, <1>4, SurvivingMore

LEMMA PrefixStays ==
    ASSUME NEW q \in Seq(Messages), NEW r \in Seq(Messages), NEW n \in Nat,
           n <= Len(q), n <= Len(r), \A i \in 1 .. n : q[i] = r[i]
    PROVE  SubSeq(q, 1, n) = SubSeq(r, 1, n)
<1>1. CASE n = 0
  BY <1>1, SubSeqEmpty
<1>2. CASE n # 0
  <2>1. 1 \in 1 .. Len(q) /\ n \in 1 .. Len(q) /\ 1 \in 1 .. Len(r) /\ n \in 1 .. Len(r)
    BY <1>2, LenProperties
  <2>2. /\ SubSeq(q, 1, n) \in Seq(Messages) /\ SubSeq(r, 1, n) \in Seq(Messages)
        /\ Len(SubSeq(q, 1, n)) = n /\ Len(SubSeq(r, 1, n)) = n
        /\ \A i \in 1 .. n : SubSeq(q, 1, n)[i] = q[i] /\ SubSeq(r, 1, n)[i] = r[i]
    <3>1. /\ SubSeq(q, 1, n) \in Seq(Messages) /\ SubSeq(r, 1, n) \in Seq(Messages)
          /\ Len(SubSeq(q, 1, n)) = IF 1 <= n THEN n - 1 + 1 ELSE 0
          /\ Len(SubSeq(r, 1, n)) = IF 1 <= n THEN n - 1 + 1 ELSE 0
          /\ \A i \in 1 .. n - 1 + 1 : SubSeq(q, 1, n)[i] = q[1 + i - 1]
          /\ \A i \in 1 .. n - 1 + 1 : SubSeq(r, 1, n)[i] = r[1 + i - 1]
      BY <2>1, SubSeqProperties
    <3>2. n - 1 + 1 = n /\ 1 <= n /\ \A i \in 1 .. n : 1 + i - 1 = i
      BY <1>2
    <3> QED BY <3>1, <3>2
  <2> QED BY <2>2, SeqEqual
<1> QED BY <1>1, <1>2

-----------------------------------------------------------------------------
\* The entries are what the updates published so far leave; the updates of an event to
\* come have a revision above all there are.
MempoolInv ==
    /\ mempool.entries = Surviving(log)
    /\ \A n \in 1 .. Len(log) :
        log[n].rev <= mempool.revision /\ (log[n].scope = "block" => log[n].ids = {})

MempoolGrown ==
    /\ mempool.revision <= mempool'.revision
    /\ \A n \in (Len(log) + 1) .. Len(log') :
        log'[n].scope = "mempool" => log'[n].rev > mempool.revision

LEMMA PublishingMempool ==
    ASSUME PublisherInv, MempoolInv, NEW new \in Seq(Messages), log' = log \o new,
           mempool'.entries = Surviving(log \o new),
           mempool'.revision \in Nat, mempool.revision <= mempool'.revision,
           \A k \in 1 .. Len(new) :
            /\ new[k].rev <= mempool'.revision
            /\ new[k].scope = "block" => new[k].ids = {}
            /\ new[k].scope = "mempool" => new[k].rev > mempool.revision
    PROVE  MempoolInv' /\ MempoolGrown
<1>1. Len(log) \in Nat /\ Len(new) \in Nat /\ log \in Seq(Messages) /\ mempool.revision \in Nat
  BY LenProperties DEF PublisherInv, PublisherTypes
<1>2. /\ Len(log') = Len(log) + Len(new)
      /\ \A n \in 1 .. Len(log') : log'[n] = IF n <= Len(log) THEN log[n] ELSE new[n - Len(log)]
  BY <1>1, ConcatProperties
<1>3. \A n \in 1 .. Len(log) : log'[n] = log[n] /\ log[n].rev \in Nat
  <2>1. \A n \in 1 .. Len(log) : log'[n] = log[n]
    BY <1>1, <1>2
  <2>2. \A n \in 1 .. Len(log) : log[n] \in Messages
    BY <1>1, ElementOfSeq
  <2> QED BY <2>1, <2>2 DEF Messages
<1>4. \A n \in (Len(log) + 1) .. Len(log') :
        log'[n] = new[n - Len(log)] /\ n - Len(log) \in 1 .. Len(new)
  BY <1>1, <1>2
<1>5. \A n \in 1 .. Len(log) :
        log'[n].rev <= mempool'.revision /\ (log'[n].scope = "block" => log'[n].ids = {})
  BY <1>1, <1>3 DEF MempoolInv
<1>6. \A n \in (Len(log) + 1) .. Len(log') :
        log'[n].rev <= mempool'.revision /\ (log'[n].scope = "block" => log'[n].ids = {})
  BY <1>4
<1>7. \A n \in 1 .. Len(log') : n \in 1 .. Len(log) \/ n \in (Len(log) + 1) .. Len(log')
  BY <1>1, <1>2
<1>8. MempoolGrown
  BY <1>4 DEF MempoolGrown
<1> QED BY <1>5, <1>6, <1>7, <1>8 DEF MempoolInv

LEMMA PublishBlockMempool ==
    ASSUME PublisherInv, MempoolInv, PublishBlock
    PROVE  MempoolInv' /\ MempoolGrown
<1>1. PICK height \in Heights : log' = log \o BlockUpdates(Len(log), LastEvent + 1, height)
  BY DEF PublishBlock
<1> DEFINE m(k) == Message("block", Len(log) + k, height, 0, "none", {}, LastEvent + 1)
           new == <<m(1), m(2)>>
<1>2. /\ Len(log) \in Nat /\ LastEvent + 1 \in Nat /\ mempool.revision \in Nat
      /\ log \in Seq(Messages) /\ mempool' = mempool
  BY PublisherNumbers, LastEventIsNat DEF PublisherInv, PublisherTypes, PublishBlock
<1>3. m(1) \in Messages /\ m(2) \in Messages
  BY <1>2, ServerAssumption DEF Message, Messages
<1>4. \A k \in {1, 2} : m(k).scope = "block" /\ m(k).ids = {} /\ m(k).rev = 0
  BY DEF Message
<1>5. log' = log \o new
  BY <1>1 DEF BlockUpdates
<1> HIDE DEF m
<1>6. new \in Seq(Messages) /\ Len(new) = 2 /\ new[1] = m(1) /\ new[2] = m(2)
  BY <1>3
<1>7. \A k \in 1 .. Len(new) : k = 1 \/ k = 2
  BY <1>6
<1>8. Surviving(log \o new) = Surviving(log)
  <2>1. Surviving(log \o <<m(1), m(2)>>) = Applied(Applied(Surviving(log), m(1)), m(2))
    BY <1>2, <1>3, SurvivingMore
  <2>2. \A S : Applied(S, m(1)) = S /\ Applied(S, m(2)) = S
    BY <1>4, IdlessApplied
  <2>3. Surviving(log \o <<m(1), m(2)>>) = Surviving(log)
    BY <2>1, <2>2
  <2> QED BY <2>3 DEF new
<1> HIDE DEF new
<1>9. \A k \in 1 .. Len(new) : new[k].scope = "block" /\ new[k].ids = {} /\ new[k].rev = 0
  BY <1>4, <1>6, <1>7
<1>10. mempool'.entries = Surviving(log \o new)
  BY <1>2, <1>8 DEF MempoolInv
<1>11. \A k \in 1 .. Len(new) :
        /\ new[k].rev <= mempool'.revision
        /\ new[k].scope = "block" => new[k].ids = {}
        /\ new[k].scope = "mempool" => new[k].rev > mempool.revision
  BY <1>2, <1>9
<1>12. mempool'.revision \in Nat /\ mempool.revision <= mempool'.revision
  BY <1>2
<1> QED BY <1>5, <1>6, <1>10, <1>11, <1>12, PublishingMempool

LEMMA PublishMempoolMempool ==
    ASSUME PublisherInv, MempoolInv, PublishMempool
    PROVE  MempoolInv' /\ MempoolGrown
<1>1. PICK action \in {"added", "removed"}, id \in TxIds :
        /\ log' = log \o MempoolUpdates(Len(log), LastEvent + 1, mempool.revision + 1, action, id)
        /\ mempool' = [revision |-> mempool.revision + 1,
                       entries |-> IF action = "added" THEN mempool.entries \union {id}
                                   ELSE mempool.entries \ {id}]
  BY DEF PublishMempool
<1> DEFINE m(k) == Message("mempool", Len(log) + k, 0, mempool.revision + 1, action, {id},
                           LastEvent + 1)
           new == IF action = "added" THEN <<m(1), m(2)>> ELSE <<m(1)>>
<1>2. Len(log) \in Nat /\ LastEvent + 1 \in Nat /\ mempool.revision + 1 \in Nat
      /\ mempool.revision \in Nat /\ log \in Seq(Messages)
  BY PublisherNumbers, LastEventIsNat DEF PublisherInv, PublisherTypes
<1>3. m(1) \in Messages /\ m(2) \in Messages
  BY <1>2 DEF Message, Messages
<1>4. \A k \in {1, 2} : /\ m(k).scope = "mempool" /\ m(k).ids = {id} /\ m(k).action = action
                        /\ m(k).rev = mempool.revision + 1
  BY DEF Message
<1>5. log' = log \o new
  BY <1>1 DEF MempoolUpdates
<1> HIDE DEF m
<1>6. /\ new \in Seq(Messages) /\ Len(new) \in {1, 2} /\ new[1] = m(1)
      /\ Len(new) = 2 => new[2] = m(2)
  BY <1>3
<1>7. \A k \in 1 .. Len(new) : k = 1 \/ (k = 2 /\ Len(new) = 2)
  BY <1>6
<1>8. Surviving(log \o new) = IF action = "added" THEN Surviving(log) \union {id}
                              ELSE Surviving(log) \ {id}
  <2>1. CASE action = "added"
    <3>1. Surviving(log \o new) = Applied(Applied(Surviving(log), m(1)), m(2))
      BY <1>2, <1>3, <2>1, SurvivingMore
    <3> QED BY <1>4, <2>1, <3>1 DEF Applied
  <2>2. CASE action # "added"
    <3>1. Surviving(log \o new) = Applied(Surviving(log), m(1))
      BY <1>2, <1>3, <2>2, SurvivingMore
    <3> QED BY <1>4, <2>2, <3>1 DEF Applied
  <2> QED BY <2>1, <2>2
<1> HIDE DEF new
<1>9. \A k \in 1 .. Len(new) : new[k].scope = "mempool" /\ new[k].rev = mempool.revision + 1
  BY <1>4, <1>6, <1>7
<1>10. mempool'.entries = Surviving(log \o new) /\ mempool'.revision = mempool.revision + 1
  BY <1>1, <1>8 DEF MempoolInv
<1> QED BY <1>2, <1>5, <1>6, <1>9, <1>10, PublishingMempool, SMTT(30)

LEMMA MempoolStep ==
    ASSUME PublisherInv, MempoolInv, [Next]_vars
    PROVE  MempoolInv' /\ MempoolGrown
<1>1. CASE UNCHANGED <<log, mempool>>
  <2>1. Len(log) \in Nat /\ mempool.revision \in Nat
    BY PublisherNumbers DEF PublisherInv, PublisherTypes
  <2> QED BY <1>1, <2>1 DEF MempoolInv, MempoolGrown
<1>2. CASE Publisher
  BY <1>1, <1>2, PublishBlockMempool, PublishMempoolMempool DEF Publisher, PushReplay, SendLive
<1>3. ASSUME NEW s \in Subscribers, ServerTask(s) \/ Control(s) \/ ClientRead(s)
      PROVE  UNCHANGED <<log, mempool>>
  BY <1>3 DEF ServerTask, Control, SubscribeLive, SnapshotReplay, SnapshotMempool, SendInitial,
              SendReplay, GoLive, ReceiveLive, SendHeld, Lagged, ReplaceFilter, AnswerPing, SendPing,
              RejectFilter, Cancelled, ClientRead, publisher
<1>4. CASE UNCHANGED vars
  BY <1>1, <1>4 DEF vars, publisher
<1> QED BY <1>1, <1>2, <1>3, <1>4 DEF Next

\* A stream whose client mirrors the mempool, and what that client has when it has
\* applied everything that is on the way to it.
Following(s) ==
    /\ task[s] \in {"initial", "live", "reserve"} /\ changes[s] = 0
    /\ request[s].snapshot /\ "mempool" \in filter[s]

Applying(s) ==
    IF task[s] = "initial" THEN Surviving(stream[s] \o initial[s])
    ELSE Applied(Surviving(stream[s]), held[s])

\* What the client has is the node's mempool after update n, at which the revision of
\* the snapshot divides the deltas that are skipped from those that are given.
Mirrors(s) ==
    \E n \in Reached(s) .. Len(log) :
        /\ \A k \in (Reached(s) + 1) .. n :
            log[k].scope = "mempool" => log[k].rev <= revision[s]
        /\ \A k \in (n + 1) .. Len(log) :
            log[k].scope = "mempool" => log[k].rev > revision[s]
        /\ Applying(s) = Surviving(SubSeq(log, 1, n))

MirrorInv(s) ==
    /\ revision[s] <= mempool.revision
    /\ task[s] \in {"none", "subscribed", "replayed", "refused"} => stream[s] = <<>>
    /\ task[s] \in {"live", "reserve"} => initial[s] = <<>>
    /\ Following(s) => Mirrors(s)

\* Numbers a leaf needs.
LEMMA ReachedNumbers ==
    ASSUME IInv, NEW s \in Subscribers
    PROVE  /\ Reached(s) \in Nat /\ Len(log) \in Nat /\ Reached(s) <= Len(log)
           /\ cursor[s] \in Nat /\ watermark[s] \in Nat /\ revision[s] \in Nat
           /\ mempool.revision \in Nat /\ log \in Seq(Messages)
<1>1. /\ PublisherInv /\ StreamTypes /\ cursor[s] <= sent /\ watermark[s] <= Numbered
  BY DEF IInv, StreamInv
<1>2. /\ cursor[s] \in Nat /\ watermark[s] \in Nat /\ revision[s] \in Nat
      /\ Len(log) \in Nat /\ sent \in Nat /\ Numbered \in Nat /\ sent <= Numbered
      /\ Numbered <= Len(log) /\ mempool.revision \in Nat /\ log \in Seq(Messages)
  BY <1>1, StreamNumbers, PublisherNumbers DEF PublisherInv, PublisherTypes
<1> QED BY <1>1, <1>2 DEF Reached, Larger

LEMMA MirrorFrame ==
    ASSUME IInv, PublisherInv', Grown, MempoolGrown, NEW s \in Subscribers, MirrorInv(s), Same(s)
    PROVE  MirrorInv(s)'
<1>1. /\ Reached(s) \in Nat /\ Len(log) \in Nat /\ Len(log') \in Nat /\ Reached(s) <= Len(log)
      /\ revision[s] \in Nat /\ mempool.revision \in Nat /\ mempool'.revision \in Nat
      /\ log \in Seq(Messages) /\ log' \in Seq(Messages)
  BY ReachedNumbers, LenProperties DEF PublisherInv, PublisherTypes
<1>2. /\ \A k \in 1 .. Len(log) : log'[k] = log[k]
      /\ Len(log) <= Len(log') /\ mempool.revision <= mempool'.revision
      /\ \A k \in (Len(log) + 1) .. Len(log') :
            log'[k].scope = "mempool" => log'[k].rev > mempool.revision
  BY DEF Grown, MempoolGrown
<1>3. /\ Reached(s)' = Reached(s) /\ revision'[s] = revision[s] /\ task'[s] = task[s]
      /\ stream'[s] = stream[s] /\ initial'[s] = initial[s]
      /\ Applying(s)' = Applying(s) /\ (Following(s)' <=> Following(s))
  BY DEF Same, Reached, Larger, Applying, Following
<1>4. ASSUME Following(s) PROVE Mirrors(s)'
  <2>1. PICK n \in Reached(s) .. Len(log) :
          /\ \A k \in (Reached(s) + 1) .. n :
              log[k].scope = "mempool" => log[k].rev <= revision[s]
          /\ \A k \in (n + 1) .. Len(log) :
              log[k].scope = "mempool" => log[k].rev > revision[s]
          /\ Applying(s) = Surviving(SubSeq(log, 1, n))
    BY <1>4 DEF MirrorInv, Mirrors
  <2>2. n \in Nat /\ n <= Len(log) /\ n <= Len(log') /\ n \in Reached(s) .. Len(log')
    BY <1>1, <1>2
  <2>3. SubSeq(log', 1, n) = SubSeq(log, 1, n)
    <3>1. \A i \in 1 .. n : log[i] = log'[i]
      BY <1>1, <1>2, <2>2
    <3> QED BY <1>1, <2>2, <3>1, PrefixStays
  <2>4. \A k \in (Reached(s) + 1) .. n : log'[k] = log[k]
    BY <1>1, <1>2, <2>2
  <2>5. ASSUME NEW k \in (n + 1) .. Len(log'), log'[k].scope = "mempool"
        PROVE  log'[k].rev > revision[s]
    <3>1. CASE k \in (n + 1) .. Len(log)
      BY <1>1, <1>2, <2>1, <2>2, <2>5, <3>1
    <3>2. CASE k \in (Len(log) + 1) .. Len(log')
      <4>1. log'[k].rev > mempool.revision /\ revision[s] <= mempool.revision
        BY <1>2, <2>5, <3>2 DEF MirrorInv
      <4>2. log'[k].rev \in Nat
        <5>1. k \in 1 .. Len(log')
          BY <1>1, <3>2
        <5>2. log'[k] \in Messages
          BY <1>1, <5>1, ElementOfSeq
        <5> QED BY <5>2 DEF Messages
      <4> QED BY <1>1, <4>1, <4>2
    <3> QED BY <1>1, <2>2, <3>1, <3>2
  <2> QED BY <1>3, <2>1, <2>2, <2>3, <2>4, <2>5 DEF Mirrors
<1>5. revision[s] <= mempool'.revision
  BY <1>1, <1>2 DEF MirrorInv
<1> QED BY <1>3, <1>4, <1>5 DEF MirrorInv

\* Where the stream stands in the log and what its client will have are as they were.
LEMMA MirrorStays ==
    ASSUME NEW s \in Subscribers, Mirrors(s), log' = log, Reached(s)' = Reached(s),
           revision'[s] = revision[s], Applying(s)' = Applying(s)
    PROVE  Mirrors(s)'
BY DEF Mirrors

\* A message more at the end of a stream.
LEMMA PutSurvives ==
    ASSUME StreamTypes, NEW s \in Subscribers, NEW m \in Messages, Put(s, m)
    PROVE  Surviving(stream'[s]) = Applied(Surviving(stream[s]), m)
<1>1. stream[s] \in Seq(Messages) /\ stream'[s] = Append(stream[s], m)
  BY DEF StreamTypes, Put
<1> QED BY <1>1, SurvivingAppend

LEMMA HeadAndTail ==
    ASSUME NEW q \in Seq(Messages), q # <<>>
    PROVE  q = <<Head(q)>> \o Tail(q)
<1> DEFINE h == <<Head(q)>>
           t == Tail(q)
<1>1. /\ Head(q) \in Messages /\ Head(q) = q[1] /\ t \in Seq(Messages)
      /\ Len(t) = Len(q) - 1 /\ \A i \in 1 .. Len(t) : t[i] = q[i + 1]
      /\ Len(q) \in Nat /\ Len(q) # 0
  BY HeadTailProperties, EmptySeq, LenProperties
<1>2. h \in Seq(Messages) /\ Len(h) = 1 /\ h[1] = q[1]
  BY <1>1
<1> HIDE DEF h, t
<1>3. /\ h \o t \in Seq(Messages) /\ Len(h \o t) = Len(h) + Len(t)
      /\ \A i \in 1 .. Len(h) + Len(t) :
            (h \o t)[i] = IF i <= Len(h) THEN h[i] ELSE t[i - Len(h)]
  <2>1. h \in Seq(Messages) /\ t \in Seq(Messages)
    BY <1>1, <1>2
  <2> QED BY ONLY <2>1, ConcatProperties
<1>4. Len(h \o t) = Len(q)
  BY <1>1, <1>2, <1>3
<1>5. ASSUME NEW i \in 1 .. Len(q) PROVE (h \o t)[i] = q[i]
  <2>1. CASE i = 1
    BY <1>1, <1>2, <1>3, <2>1
  <2>2. CASE i # 1
    <3>1. i - 1 \in 1 .. Len(t) /\ (i - 1) + 1 = i
      BY <1>1, <2>2
    <3> QED BY <1>1, <1>2, <1>3, <2>2, <3>1
  <2> QED BY <2>1, <2>2
<1>6. h \o t = q
  BY <1>3, <1>4, <1>5, SeqEqual
<1> QED BY <1>6 DEF h, t

LEMMA PutTail ==
    ASSUME NEW x \in Seq(Messages), NEW h \in Messages, NEW t \in Seq(Messages)
    PROVE  Append(x, h) \o t = x \o (<<h>> \o t)
<1>1. <<h>> \in Seq(Messages)
  OBVIOUS
<1>2. (x \o <<h>>) \o t = x \o (<<h>> \o t)
  BY <1>1, ConcatAssociative
<1>3. Append(x, h) = x \o <<h>>
  BY AppendIsConcat
<1> QED BY <1>2, <1>3

LEMMA SendInitialMirrors ==
    ASSUME IInv, NEW s \in Subscribers, SendInitial(s), MirrorInv(s)
    PROVE  MirrorInv(s)'
<1>1. StreamTypes /\ StreamInv(s)
  BY DEF IInv
<1>2. /\ task[s] = "initial" /\ initial[s] # <<>> /\ Offer(s, Head(initial[s]))
      /\ UNCHANGED <<log, mempool, task, request, cursor, watermark, revision, filter, changes>>
      /\ initial' = [initial EXCEPT ![s] = Tail(@)]
  BY DEF SendInitial, publisher, receiver, control
<1> DEFINE h == Head(initial[s])
           t == Tail(initial[s])
<1>3. /\ h \in Messages /\ h = initial[s][1] /\ 1 \in 1 .. Len(initial[s])
      /\ t \in Seq(Messages) /\ initial[s] \in Seq(Messages) /\ stream[s] \in Seq(Messages)
      /\ initial[s] = <<h>> \o t
  <2>1. initial[s] \in Seq(Messages) /\ stream[s] \in Seq(Messages)
    BY <1>1, StreamNumbers
  <2>2. /\ h \in Messages /\ h = initial[s][1] /\ 1 \in 1 .. Len(initial[s])
        /\ t \in Seq(Messages)
    BY <1>2, <2>1, HeadTailProperties, EmptySeq, LenProperties
  <2>3. initial[s] = <<h>> \o t
    BY <1>2, <2>1, HeadAndTail
  <2> QED BY <2>1, <2>2, <2>3
<1>4. ~Published(h)
  BY <1>1, <1>3 DEF StreamInv, Quiet
<1> HIDE DEF h, t
<1>5. ASSUME Following(s) PROVE Applying(s)' = Applying(s)
  <2>1. Matches(filter[s], h)
    BY <1>4, <1>5 DEF Following, Matches, EventTypeOf, Published
  <2>2. Put(s, h)
    BY <1>2, <2>1 DEF Offer, h
  <2>3. stream'[s] = Append(stream[s], h) /\ initial'[s] = t
    BY <1>1, <1>2, <2>2 DEF Put, StreamTypes, t
  <2>4. stream'[s] \o initial'[s] = stream[s] \o initial[s]
    <3>1. stream[s] \in Seq(Messages) /\ h \in Messages /\ t \in Seq(Messages)
      BY <1>3
    <3>2. Append(stream[s], h) \o t = stream[s] \o (<<h>> \o t)
      BY ONLY <3>1, PutTail
    <3> QED BY <1>3, <2>3, <3>2
  <2>5. Applying(s) = Surviving(stream[s] \o initial[s])
    BY <1>2 DEF Applying
  <2>6. Applying(s)' = Surviving(stream'[s] \o initial'[s])
    BY <1>2 DEF Applying
  <2> QED BY <2>4, <2>5, <2>6
<1>6. /\ Reached(s)' = Reached(s) /\ (Following(s)' <=> Following(s)) /\ task'[s] = "initial"
  BY <1>2 DEF Reached, Larger, Following
<1> QED BY <1>2, <1>5, <1>6, MirrorStays DEF MirrorInv

LEMMA SendReplayMirrors ==
    ASSUME IInv, MempoolInv, NEW s \in Subscribers, SendReplay(s), MirrorInv(s)
    PROVE  MirrorInv(s)'
<1>1. PublisherInv /\ StreamTypes /\ StreamInv(s)
  BY DEF IInv
<1>2. /\ task[s] = "initial" /\ initial[s] = <<>>
      /\ UNCHANGED <<log, mempool, task, request, cursor, watermark, revision, initial, filter,
                     changes>>
  BY DEF SendReplay, publisher, receiver, control
<1>3. PICK i \in captured[s] :
        /\ \A j \in captured[s] : i <= j
        /\ Offer(s, log[replay.pushed[i].first + offset[s]])
  BY DEF SendReplay
<1> DEFINE b == replay.pushed[i]
           n == b.first + offset[s]
           m == log[n]
<1>4. i \in 1 .. Len(replay.pushed) /\ n <= b.last
  BY <1>1, <1>2, <1>3 DEF StreamInv, Active, Pending, Front
<1>5. /\ b.first \in Nat /\ b.last \in Nat /\ 1 <= b.first /\ b.last <= Len(log)
      /\ Len(log) \in Nat /\ offset[s] \in Nat
  <2>1. b \in BucketsOf({"finalized"}) /\ 1 <= b.first /\ b.last <= Numbered
        /\ Numbered \in Nat /\ Numbered <= Len(log) /\ Len(log) \in Nat /\ offset[s] \in Nat
    BY <1>1, <1>4, PublisherNumbers, StreamNumbers DEF PublisherInv, WindowInv
  <2> QED BY <2>1 DEF BucketsOf
<1> HIDE DEF b
<1>6. n \in 1 .. Len(log) /\ n \in b.first .. b.last
  BY <1>4, <1>5
<1>7. m \in Messages /\ m.ids = {}
  BY <1>1, <1>4, <1>6, PublisherNumbers DEF PublisherInv, WindowInv, MempoolInv, b
<1>8. Offer(s, m)
  BY <1>3 DEF b
<1> HIDE DEF m
<1>9. Surviving(stream'[s]) = Surviving(stream[s])
  <2>1. CASE Put(s, m)
    BY <1>1, <1>7, <2>1, PutSurvives, IdlessApplied
  <2>2. CASE stream' = stream
    BY <2>2
  <2> QED BY <1>8, <2>1, <2>2 DEF Offer
<1>10. stream[s] \in Seq(Messages) /\ stream'[s] \in Seq(Messages)
  <2>1. CASE Put(s, m)
    BY <1>1, <1>7, <2>1, PutAppends, StreamNumbers
  <2>2. CASE stream' = stream
    BY <1>1, <2>2, StreamNumbers
  <2> QED BY <1>8, <2>1, <2>2 DEF Offer
<1>11. Applying(s)' = Applying(s)
  BY <1>2, <1>9, <1>10, ConcatEmptySeq DEF Applying
<1>12. /\ Reached(s)' = Reached(s) /\ (Following(s)' <=> Following(s)) /\ task'[s] = "initial"
  BY <1>2 DEF Reached, Larger, Following
<1> QED BY <1>2, <1>11, <1>12, MirrorStays DEF MirrorInv

\* A live stream's own messages, and the message it waited with.
LEMMA IdlessMessages ==
    /\ Nothing \in Messages /\ Nothing.ids = {}
    /\ \A scope \in {"lagged", "ping", "pong", "invalid_filter", "reconnect"} :
        Marker(scope, 0) \in Messages /\ Marker(scope, 0).ids = {}
BY DEF Nothing, Marker, Message, Messages

LEMMA GoLiveMirrors ==
    ASSUME IInv, NEW s \in Subscribers, GoLive(s), MirrorInv(s)
    PROVE  MirrorInv(s)'
<1>1. StreamTypes /\ StreamInv(s)
  BY DEF IInv
<1>2. /\ task[s] = "initial" /\ initial[s] = <<>> /\ task' = [task EXCEPT ![s] = "live"]
      /\ UNCHANGED <<log, mempool, request, cursor, watermark, revision, initial, filter, held,
                     stream, changes>>
  BY DEF GoLive, publisher, receiver, opening, channel, control
<1>3. held[s] = Nothing /\ stream[s] \in Seq(Messages) /\ task'[s] = "live"
  BY <1>1, <1>2, StreamNumbers DEF StreamInv, Quiet, StreamTypes
<1>4. Applying(s)' = Applying(s)
  BY <1>2, <1>3, ConcatEmptySeq, IdlessMessages, IdlessApplied DEF Applying
<1>5. Reached(s)' = Reached(s) /\ (Following(s)' => Following(s))
  BY <1>2 DEF Reached, Larger, Following
<1> QED BY <1>2, <1>3, <1>4, <1>5, MirrorStays DEF MirrorInv

LEMMA LiveMirrors ==
    ASSUME IInv, NEW s \in Subscribers, MirrorInv(s),
           SendHeld(s) \/ AnswerPing(s) \/ SendPing(s)
    PROVE  MirrorInv(s)'
<1>1. StreamTypes /\ StreamInv(s)
  BY DEF IInv
<1>2. /\ UNCHANGED <<log, mempool, request, cursor, watermark, revision, initial, filter, changes>>
      /\ task[s] \in {"live", "reserve"} /\ task'[s] \in {"live", "reserve", "closed"}
  <2>1. task \in [Subscribers -> {"none", "subscribed", "replayed", "refused", "initial",
                                  "live", "reserve", "closed"}]
    BY <1>1 DEF StreamTypes
  <2>2. CASE SendHeld(s)
    BY <2>1, <2>2 DEF SendHeld, publisher, receiver, opening, control
  <2>3. CASE AnswerPing(s)
    BY <2>1, <2>3 DEF AnswerPing, publisher, receiver, opening
  <2>4. CASE SendPing(s)
    BY <2>1, <2>4 DEF SendPing, publisher, receiver, opening
  <2> QED BY <2>2, <2>3, <2>4
<1>3. Applying(s) = Applied(Surviving(stream[s]), held[s])
  BY <1>2 DEF Applying
<1>4. Applied(Surviving(stream'[s]), held'[s]) = Applying(s)
  <2>1. CASE SendHeld(s)
    <3>1. Put(s, held[s]) /\ held'[s] = Nothing /\ held[s] \in Messages
      BY <1>1, <2>1 DEF SendHeld, StreamTypes
    <3> QED BY <1>1, <1>3, <3>1, PutSurvives, IdlessMessages, IdlessApplied
  <2>2. CASE AnswerPing(s) \/ SendPing(s)
    <3>1. held[s] = Nothing
      BY <1>1, <2>2 DEF StreamInv, Quiet, AnswerPing, SendPing
    <3>2. held'[s] = Nothing \/ held'[s] = Marker("pong", 0)
      BY <1>1, <2>2, <3>1 DEF AnswerPing, SendPing, StreamTypes
    <3>3. Surviving(stream'[s]) = Surviving(stream[s])
      <4>1. CASE Put(s, Marker("ping", 0))
        BY <1>1, <4>1, PutSurvives, IdlessMessages, IdlessApplied
      <4>2. CASE stream' = stream
        BY <4>2
      <4> QED BY <2>2, <4>1, <4>2 DEF AnswerPing, SendPing, channel
    <3> QED BY <1>3, <3>1, <3>2, <3>3, IdlessMessages, IdlessApplied
  <2> QED BY <2>1, <2>2
<1>5. Following(s)' => Applying(s)' = Applying(s)
  BY <1>2, <1>4 DEF Applying, Following
<1>6. Reached(s)' = Reached(s) /\ (Following(s)' => Following(s))
  BY <1>2 DEF Reached, Larger, Following
<1> QED BY <1>2, <1>5, <1>6, MirrorStays DEF MirrorInv

\* What the initial updates make of an empty set: the node's mempool.
LEMMA SnapshotSurvives ==
    ASSUME NEW first \in {<<>>, <<Marker("reconnect", 0)>>},
           NEW rev \in Nat, NEW entries \in SUBSET TxIds
    PROVE  LET snapshot == <<Marker("begin", rev)>> \o SnapshotUpdates(entries, rev)
                           \o <<Marker("end", rev)>>
           IN  first \o snapshot \in Seq(Messages) /\ Surviving(first \o snapshot) = entries
<1> DEFINE r == Marker("reconnect", 0)
           b == Marker("begin", rev)
           e == Marker("end", rev)
           m == Message("snapshot", 0, 0, rev, "added", entries, 0)
           u == SnapshotUpdates(entries, rev)
<1>1. /\ r \in Messages /\ b \in Messages /\ e \in Messages /\ m \in Messages
      /\ r.ids = {} /\ b.ids = {} /\ e.ids = {} /\ m.ids = entries /\ m.action = "added"
  BY DEF Marker, Message, Messages
<1>2. u = IF entries = {} THEN <<>> ELSE <<m>>
  BY DEF SnapshotUpdates
<1>3. first = <<>> \/ first = <<r>>
  OBVIOUS
<1> HIDE DEF r, b, e, m, u
<1>4. <<>> \in Seq(Messages) /\ <<r>> \in Seq(Messages) /\ <<b>> \in Seq(Messages)
      /\ <<e>> \in Seq(Messages) /\ <<m>> \in Seq(Messages)
  BY <1>1
<1>5. first \in Seq(Messages) /\ u \in Seq(Messages)
  BY <1>2, <1>3, <1>4
<1>6. Surviving(first) = {}
  <2>1. CASE first = <<>>
    BY <2>1, SurvivingEmpty
  <2>2. CASE first = <<r>>
    <3>1. <<>> \o <<r>> = <<r>>
      BY <1>4, ConcatEmptySeq
    <3>2. Surviving(<<>> \o <<r>>) = Applied(Surviving(<<>>), r)
      BY <1>1, <1>4, SurvivingMore
    <3> QED BY <1>1, <2>2, <3>1, <3>2, SurvivingEmpty, IdlessApplied
  <2> QED BY <1>3, <2>1, <2>2
<1> DEFINE p == first \o <<b>>
<1>7. p \in Seq(Messages) /\ Surviving(p) = {}
  <2>1. p \in Seq(Messages) /\ Surviving(p) = Applied(Surviving(first), b)
    BY <1>1, <1>5, SurvivingMore
  <2> QED BY <1>1, <1>6, <2>1, IdlessApplied
<1> HIDE DEF p
<1>8. p \o u \in Seq(Messages) /\ Surviving(p \o u) = entries
  <2>1. CASE entries = {}
    <3>1. u = <<>> /\ p \o <<>> = p
      BY <1>2, <1>7, <2>1, ConcatEmptySeq
    <3> QED BY <1>7, <2>1, <3>1
  <2>2. CASE entries # {}
    <3>1. p \o <<m>> \in Seq(Messages) /\ Surviving(p \o <<m>>) = Applied(Surviving(p), m)
      BY <1>1, <1>7, SurvivingMore
    <3>2. Applied({}, m) = entries
      BY <1>1 DEF Applied
    <3> QED BY <1>2, <1>7, <2>2, <3>1, <3>2
  <2> QED BY <2>1, <2>2
<1> DEFINE s == p \o u
<1>9. s \o <<e>> \in Seq(Messages) /\ Surviving(s \o <<e>>) = entries
  <2>1. s \o <<e>> \in Seq(Messages) /\ Surviving(s \o <<e>>) = Applied(Surviving(s), e)
    <3>1. s \in Seq(Messages)
      BY <1>8
    <3> HIDE DEF s
    <3> QED BY <1>1, <3>1, SurvivingMore
  <2>2. Applied(Surviving(s), e) = Surviving(s)
    BY <1>1, IdlessApplied
  <2> QED BY <1>8, <2>1, <2>2
<1>10. s \o <<e>> = first \o ((<<b>> \o u) \o <<e>>)
  <2>1. <<b>> \o u \in Seq(Messages)
    BY <1>4, <1>5, ConcatProperties
  <2>2. p \o u = first \o (<<b>> \o u)
    BY <1>4, <1>5, ConcatAssociative DEF p
  <2>3. (first \o (<<b>> \o u)) \o <<e>> = first \o ((<<b>> \o u) \o <<e>>)
    <3> DEFINE v == <<b>> \o u
    <3> HIDE DEF v
    <3>1. v \in Seq(Messages) /\ first \in Seq(Messages) /\ <<e>> \in Seq(Messages)
      BY <1>4, <1>5, <2>1 DEF v
    <3>2. (first \o v) \o <<e>> = first \o (v \o <<e>>)
      BY ONLY <3>1, ConcatAssociative
    <3> QED BY <3>2 DEF v
  <2> QED BY <2>2, <2>3
<1> QED BY <1>9, <1>10 DEF b, e, u

LEMMA SnapshotMirrors ==
    ASSUME IInv, MempoolInv, NEW s \in Subscribers, SnapshotMempool(s), MirrorInv(s)
    PROVE  MirrorInv(s)'
<1> DEFINE rev == mempool.revision
           first == IF request[s].resume THEN <<Marker("reconnect", 0)>> ELSE <<>>
           snapshot == <<Marker("begin", rev)>> \o SnapshotUpdates(mempool.entries, rev)
                       \o <<Marker("end", rev)>>
<1>1. /\ task[s] = "replayed" /\ task' = [task EXCEPT ![s] = "initial"]
      /\ revision' = [revision EXCEPT ![s] = IF request[s].snapshot THEN rev ELSE 0]
      /\ initial' = [initial EXCEPT ![s] = first \o (IF request[s].snapshot THEN snapshot ELSE <<>>)]
      /\ UNCHANGED <<log, mempool, request, cursor, watermark, stream>>
  BY DEF SnapshotMempool, publisher, channel
<1>2. /\ StreamTypes /\ stream[s] = <<>> /\ rev \in Nat /\ mempool.entries \in SUBSET TxIds
      /\ Reached(s) \in Nat /\ Len(log) \in Nat /\ Reached(s) <= Len(log) /\ log \in Seq(Messages)
  BY <1>1, ReachedNumbers DEF IInv, MirrorInv, PublisherInv, PublisherTypes
<1>3. first \o snapshot \in Seq(Messages) /\ Surviving(first \o snapshot) = mempool.entries
  <2>1. first \in {<<>>, <<Marker("reconnect", 0)>>}
    OBVIOUS
  <2> HIDE DEF first
  <2> QED BY <1>2, <2>1, SnapshotSurvives
<1> HIDE DEF first, snapshot
<1>4. task'[s] = "initial" /\ Reached(s)' = Reached(s)
  BY <1>1, <1>2 DEF StreamTypes, Reached, Larger
<1>5. revision'[s] <= mempool'.revision
  BY <1>1, <1>2 DEF StreamTypes
<1>6. ASSUME request[s].snapshot PROVE Mirrors(s)'
  <2>1. revision'[s] = rev /\ initial'[s] = first \o snapshot
    BY <1>1, <1>2, <1>6 DEF StreamTypes
  <2>2. \A k \in 1 .. Len(log) : log[k].rev <= rev
    BY DEF MempoolInv
  <2>3. \A k \in (Reached(s) + 1) .. Len(log) : log[k].rev <= rev
    BY <1>2, <2>2
  <2>4. \A k \in (Len(log) + 1) .. Len(log) : FALSE
    BY <1>2
  <2>5. SubSeq(log, 1, Len(log)) = log
    BY <1>2, SubSeqFull
  <2>6. <<>> \o (first \o snapshot) = first \o snapshot
    BY <1>3, ConcatEmptySeq
  <2>7. Applying(s)' = Surviving(stream'[s] \o initial'[s])
    BY <1>4 DEF Applying
  <2>8. Applying(s)' = Surviving(SubSeq(log, 1, Len(log)))
    BY <1>1, <1>2, <1>3, <2>1, <2>5, <2>6, <2>7 DEF MempoolInv
  <2>9. Len(log) \in Reached(s) .. Len(log)
    BY <1>2
  <2> QED BY <1>1, <1>4, <2>1, <2>3, <2>4, <2>8, <2>9 DEF Mirrors
<1>7. Following(s)' => request[s].snapshot
  BY <1>1 DEF Following
<1> QED BY <1>1, <1>2, <1>4, <1>5, <1>6, <1>7 DEF MirrorInv

\* The next update from the ring, given, skipped or left out.
LEMMA ReceiveLiveMirrors ==
    ASSUME IInv, MempoolInv, NEW s \in Subscribers, ReceiveLive(s), MirrorInv(s)
    PROVE  MirrorInv(s)'
<1> DEFINE c == cursor[s] + 1
           m == log[c]
<1>1. PublisherInv /\ StreamTypes /\ StreamInv(s)
  BY DEF IInv
<1>2. /\ task[s] = "live" /\ cursor[s] < sent /\ cursor' = [cursor EXCEPT ![s] = c]
      /\ \/ m.seq <= watermark[s] /\ UNCHANGED <<watermark, held, task>>
         \/ /\ ~(m.seq <= watermark[s]) /\ watermark' = [watermark EXCEPT ![s] = m.seq]
            /\ \/ /\ UNCHANGED <<held, task>>
                  /\ \/ request[s].snapshot /\ m.scope = "mempool" /\ m.rev <= revision[s]
                     \/ ~Matches(filter[s], m)
               \/ /\ ~(request[s].snapshot /\ m.scope = "mempool" /\ m.rev <= revision[s])
                  /\ held' = [held EXCEPT ![s] = m]
                  /\ task' = [task EXCEPT ![s] = "reserve"]
      /\ UNCHANGED <<log, mempool, request, revision, initial, filter, stream, changes>>
  BY DEF ReceiveLive, publisher, opening, channel, control
<1>3. /\ cursor[s] \in Nat /\ watermark[s] \in Nat /\ revision[s] \in Nat /\ c \in 1 .. Len(log)
      /\ Len(log) \in Nat /\ Reached(s) \in Nat /\ Reached(s) <= Len(log) /\ log \in Seq(Messages)
      /\ sent \in Nat
  BY <1>1, <1>2, ReachedNumbers, PublisherNumbers
<1>4. m.seq = c /\ m \in Messages /\ m.scope \in {"block", "mempool"} /\ m.rev \in Nat
      /\ (m.scope = "block" => m.ids = {})
  BY <1>1, <1>3, PublisherNumbers DEF PublisherInv, LogInv, MempoolInv, Messages
<1>5. held[s] = Nothing
  BY <1>1, <1>2 DEF StreamInv, Quiet
<1>6. /\ cursor'[s] = c
      /\ \/ c <= watermark[s] /\ watermark'[s] = watermark[s] /\ UNCHANGED <<held, task>>
         \/ /\ c > watermark[s] /\ watermark'[s] = c
            /\ \/ /\ held'[s] = Nothing /\ task'[s] = "live"
                  /\ \/ m.scope = "mempool" /\ m.rev <= revision[s]
                     \/ ~Matches(filter[s], m)
               \/ /\ ~(request[s].snapshot /\ m.scope = "mempool" /\ m.rev <= revision[s])
                  /\ held'[s] = m /\ task'[s] = "reserve"
  <2>1. cursor'[s] = c
    BY <1>1, <1>2 DEF StreamTypes
  <2>2. watermark' = [watermark EXCEPT ![s] = m.seq] => watermark'[s] = c
    BY <1>1, <1>4 DEF StreamTypes
  <2>3. held' = [held EXCEPT ![s] = m] => held'[s] = m
    BY <1>1 DEF StreamTypes
  <2>4. task' = [task EXCEPT ![s] = "reserve"] => task'[s] = "reserve"
    BY <1>1 DEF StreamTypes
  <2>5. m.seq <= watermark[s] <=> ~(c > watermark[s])
    BY <1>3, <1>4
  <2>6. ~(c > watermark[s]) <=> c <= watermark[s]
    BY <1>3
  <2> HIDE DEF c, m
  <2> QED BY <1>2, <1>5, <2>1, <2>2, <2>3, <2>4, <2>5, <2>6
<1> HIDE DEF m
<1>7. ASSUME Following(s) PROVE Mirrors(s)'
  <2>1. PICK n \in Reached(s) .. Len(log) :
          /\ \A k \in (Reached(s) + 1) .. n :
              log[k].scope = "mempool" => log[k].rev <= revision[s]
          /\ \A k \in (n + 1) .. Len(log) :
              log[k].scope = "mempool" => log[k].rev > revision[s]
          /\ Applying(s) = Surviving(SubSeq(log, 1, n))
    BY <1>7 DEF MirrorInv, Mirrors
  <2>2. request[s].snapshot /\ "mempool" \in filter[s]
    BY <1>7 DEF Following
  <2>3. Applying(s) = Surviving(stream[s])
    BY <1>2, <1>5, IdlessMessages, IdlessApplied DEF Applying
  <2>4. CASE c <= watermark[s] /\ watermark'[s] = watermark[s] /\ UNCHANGED <<held, task>>
    <3>1. Reached(s)' = Reached(s)
      BY <1>3, <1>6, <2>4 DEF Reached, Larger
    <3>2. Applying(s)' = Applying(s)
      BY <1>2, <2>4 DEF Applying
    <3> QED BY <1>2, <1>7, <3>1, <3>2, MirrorStays DEF MirrorInv
  <2>5. CASE c > watermark[s] /\ watermark'[s] = c
    <3>1. Reached(s)' = c /\ Reached(s) = c - 1
      BY <1>3, <1>6, <2>5 DEF Reached, Larger
    <3>2. task'[s] \in {"live", "reserve"} /\ (held'[s] = Nothing \/ held'[s] = m)
      <4>1. ~(c <= watermark[s])
        BY <1>3, <2>5
      <4> QED BY <1>6, <4>1
    <3>3. Applying(s)' = Applied(Surviving(stream[s]), held'[s])
      BY <1>2, <3>2 DEF Applying
    <3>4. CASE c <= n
      <4>1. c \in (Reached(s) + 1) .. n
        BY <1>3, <2>1, <3>1, <3>4
      <4>2. m.scope = "mempool" => m.rev <= revision[s]
        BY <2>1, <4>1 DEF m
      <4>3. held'[s] = m => m.ids = {}
        <5>1. ~(c <= watermark[s])
          BY <1>3, <2>5
        <5> QED BY <1>4, <1>6, <2>2, <4>2, <5>1, IdlessMessages
      <4>4. Applying(s)' = Applying(s)
        BY <2>3, <3>2, <3>3, <4>3, IdlessMessages, IdlessApplied
      <4>5. n \in c .. Len(log) /\ \A k \in (c + 1) .. n : k \in (Reached(s) + 1) .. n
        BY <1>3, <2>1, <3>1, <3>4
      <4> QED BY <1>2, <2>1, <3>1, <4>4, <4>5 DEF Mirrors
    <3>5. CASE ~(c <= n)
      <4>1. c = n + 1 /\ n \in 0 .. (Len(log) - 1) /\ c \in (n + 1) .. Len(log)
        BY <1>3, <2>1, <3>1, <3>5
      <4>2. m.scope = "mempool" => m.rev > revision[s]
        BY <2>1, <4>1 DEF m
      <4>3. Applied(Surviving(stream[s]), held'[s]) = Applied(Surviving(stream[s]), m)
        <5>1. CASE m.scope = "mempool"
          <6>1. Matches(filter[s], m) /\ ~(m.rev <= revision[s])
            BY <1>3, <1>4, <2>2, <4>2, <5>1 DEF Matches, EventTypeOf
          <6> QED BY <1>3, <1>6, <2>5, <6>1
        <5>2. CASE m.scope = "block"
          BY <1>4, <3>2, <5>2, IdlessMessages, IdlessApplied
        <5> QED BY <1>4, <5>1, <5>2
      <4>4. Surviving(SubSeq(log, 1, c)) = Applied(Surviving(SubSeq(log, 1, n)), m)
        BY <1>3, <4>1, PrefixGrows DEF m
      <4>5. Applying(s)' = Surviving(SubSeq(log, 1, c))
        BY <2>1, <2>3, <3>3, <4>3, <4>4
      <4>6. c \in c .. Len(log) /\ \A k \in (c + 1) .. c : FALSE
        BY <1>3
      <4>7. \A k \in (c + 1) .. Len(log) : k \in (n + 1) .. Len(log)
        BY <1>3, <4>1
      <4> HIDE DEF c
      <4> QED BY <1>2, <2>1, <3>1, <4>5, <4>6, <4>7 DEF Mirrors
    <3> QED BY <3>4, <3>5
  <2> QED BY <1>6, <2>4, <2>5
<1>8. task'[s] \in {"live", "reserve"}
  BY <1>2, <1>6
<1>9. Following(s)' => Following(s)
  BY <1>2 DEF Following
<1>10. initial'[s] = <<>> /\ revision'[s] <= mempool'.revision
  BY <1>2 DEF MirrorInv
<1> QED BY <1>7, <1>8, <1>9, <1>10 DEF MirrorInv

MempoolMirrorInv == MempoolInv /\ \A s \in Subscribers : MirrorInv(s)

LEMMA MirrorInductive_Init == Init => MempoolMirrorInv
<1> SUFFICES ASSUME Init PROVE MempoolMirrorInv
  OBVIOUS
<1> USE DEF Init
<1>1. Len(log) = 0 /\ MempoolInv
  BY SurvivingEmpty DEF MempoolInv
<1>2. \A s \in Subscribers : MirrorInv(s)
  BY DEF MirrorInv, Following
<1> QED BY <1>1, <1>2 DEF MempoolMirrorInv

LEMMA MirrorInductive_Next ==
    ASSUME IInv, IInv', MempoolMirrorInv, [Next]_vars
    PROVE  MempoolMirrorInv'
<1>1. MempoolInv' /\ MempoolGrown /\ PublisherInv'
  BY MempoolStep DEF IInv, MempoolMirrorInv
<1>2. ASSUME Grown, NEW s \in Subscribers, Same(s) PROVE MirrorInv(s)'
  BY <1>1, <1>2, MirrorFrame DEF MempoolMirrorInv
<1>3. CASE Publisher
  <2>1. Grown
    BY <1>3, PublisherStep DEF Publisher, IInv
  <2>2. \A s \in Subscribers : Same(s)
    BY <1>3 DEF Publisher, receiver, opening, channel, control, Same
  <2> QED BY <1>1, <1>2, <2>1, <2>2 DEF MempoolMirrorInv
<1>4. CASE UNCHANGED vars
  <2>1. Grown
    BY <1>4, PublisherStays DEF vars, IInv
  <2>2. \A s \in Subscribers : Same(s)
    BY <1>4 DEF vars, receiver, opening, channel, control, Same
  <2> QED BY <1>1, <1>2, <2>1, <2>2 DEF MempoolMirrorInv
<1>5. ASSUME NEW s \in Subscribers, ServerTask(s) \/ Control(s) \/ ClientRead(s)
      PROVE  MempoolMirrorInv'
  <2>1. Stepped(s)
    BY <1>5, SubscribeLiveStep, SnapshotReplayStep, SnapshotMempoolStep, SendInitialStep,
       SendReplayStep, GoLiveStep, ReceiveLiveStep, SendHeldStep, LaggedStep, ReplaceFilterStep,
       HoldStep, SendPingStep, CancelledStep, ClientReadStep
    DEF ServerTask, Control, Subscribing
  <2>2. ASSUME NEW t \in Subscribers \ {s} PROVE MirrorInv(t)'
    BY <1>2, <2>1, <2>2 DEF Stepped
  <2>3. StreamTypes /\ MempoolInv /\ MirrorInv(s)
    BY DEF IInv, MempoolMirrorInv
  <2>4. MirrorInv(s)'
    <3>1. CASE SubscribeLive(s) \/ SnapshotReplay(s)
      <4>1. /\ UNCHANGED <<mempool, revision, stream>>
            /\ task[s] \in {"none", "subscribed"}
            /\ task'[s] \in {"subscribed", "replayed", "refused"}
        BY <2>3, <3>1 DEF SubscribeLive, SnapshotReplay, StreamTypes, publisher, channel
      <4> QED BY <2>3, <4>1 DEF MirrorInv, Following
    <3>2. CASE Lagged(s) \/ Cancelled(s)
      <4>1. UNCHANGED <<mempool, revision>> /\ task'[s] = "closed"
        BY <2>3, <3>2 DEF Lagged, Cancelled, StreamTypes, publisher, receiver
      <4> QED BY <2>3, <4>1 DEF MirrorInv, Following
    <3>3. CASE ReplaceFilter(s) \/ RejectFilter(s)
      <4>1. /\ UNCHANGED <<mempool, revision, initial>> /\ task[s] = "live"
            /\ task'[s] \in {"live", "reserve"}
            /\ changes' = [changes EXCEPT ![s] = @ + 1]
        BY <2>3, <3>3 DEF ReplaceFilter, RejectFilter, StreamTypes, publisher, receiver, opening
      <4>2. changes'[s] # 0
        BY <2>3, <4>1 DEF StreamTypes
      <4> QED BY <2>3, <4>1, <4>2 DEF MirrorInv, Following
    <3>4. CASE ClientRead(s)
      <4>1. UNCHANGED <<log, mempool, task, request, cursor, watermark, revision, initial, filter,
                        held, stream, changes>>
        BY <3>4 DEF ClientRead, publisher, receiver, opening, control
      <4> QED BY <2>3, <4>1 DEF MirrorInv, Following, Mirrors, Applying, Reached, Larger
    <3>5. CASE \/ SnapshotMempool(s) \/ SendInitial(s) \/ SendReplay(s) \/ GoLive(s)
               \/ ReceiveLive(s) \/ SendHeld(s) \/ AnswerPing(s) \/ SendPing(s)
      BY <2>3, <3>5, SnapshotMirrors, SendInitialMirrors, SendReplayMirrors, GoLiveMirrors,
         ReceiveLiveMirrors, LiveMirrors
    <3> QED BY <1>5, <3>1, <3>2, <3>3, <3>4, <3>5 DEF ServerTask, Control
  <2> QED BY <1>1, <2>2, <2>4 DEF MempoolMirrorInv
<1> QED BY <1>3, <1>4, <1>5 DEF Next

\* A client that asked for the mempool snapshot and applies it and the deltas that
\* follow has the node's mempool as of the point its stream has reached, wherever the
\* snapshot fell between the publisher's steps: the revision it was taken at divides
\* exactly the deltas it holds from those that are to come.
THEOREM ClientsMirrorMempool == Spec => []MempoolMirrored
<1>1. Spec => []MempoolMirrorInv
  <2>1. IInv /\ IInv' /\ MempoolMirrorInv /\ [Next]_vars => MempoolMirrorInv'
    BY MirrorInductive_Next
  <2> QED BY <2>1, MirrorInductive_Init, Inductive, PTL DEF Spec
<1>2. IInv /\ MempoolMirrorInv => MempoolMirrored
  <2> SUFFICES ASSUME IInv, MempoolMirrorInv, NEW s \in Subscribers, Settled(s), task[s] = "live",
                      request[s].snapshot, "mempool" \in filter[s]
               PROVE  \E n \in Reached(s) .. Len(log) :
                        /\ \A k \in (Reached(s) + 1) .. n :
                            log[k].scope = "mempool" => log[k].rev <= revision[s]
                        /\ Surviving(stream[s]) = Surviving(SubSeq(log, 1, n))
    BY DEF MempoolMirrored
  <2>1. Following(s) /\ MirrorInv(s)
    BY DEF Following, Settled, MempoolMirrorInv
  <2>2. held[s] = Nothing
    BY DEF IInv, StreamInv, Quiet
  <2>3. Applying(s) = Surviving(stream[s])
    BY <2>2, IdlessMessages, IdlessApplied DEF Applying
  <2> QED BY <2>1, <2>3 DEF MirrorInv, Mirrors
<1> QED BY <1>1, <1>2, Inductive, PTL

-----------------------------------------------------------------------------
(***************************************************************************)
(* Feed: every stream is one of its streams.  The mapping needs to know,   *)
(* besides the invariants above, that updates of the mempool have a        *)
(* revision and only they no height, that nothing is covered before the    *)
(* snapshot, and that a message is waited with as it was received.         *)
(***************************************************************************)
Stamped ==
    \A n \in 1 .. Len(log) :
        /\ log[n].scope = "mempool" => log[n].rev >= 1
        /\ log[n].scope = "mempool" <=> log[n].height = 0

WaitedWith(s) ==
    /\ held[s].seq \in 1 .. Len(log) /\ held[s] = log[held[s].seq]
    /\ Reached(s) = held[s].seq
    /\ Matches(filter[s], held[s]) /\ held[s].seq \notin Covered(s)

FeedStream(s) ==
    /\ task[s] \in {"none", "subscribed", "replayed", "refused"} => revision[s] = 0
    /\ captured[s] \subseteq 1 .. Len(replay.pushed)
    /\ Published(held[s]) /\ task[s] = "reserve" => WaitedWith(s)

FeedInv == Stamped /\ \A s \in Subscribers : FeedStream(s)

FeedState == IInv /\ MempoolMirrorInv /\ FeedInv

\* What Feed sees of a stream is as it was.
SameView(s) ==
    /\ Phase(s)' = Phase(s) /\ Owed(s)' = Owed(s) /\ Position(s)' = Position(s)
    /\ Covered(s)' = Covered(s) /\ filter'[s] = filter[s] /\ Delivered(s)' = Delivered(s)

LEMMA SeenAre ==
    ASSUME NEW q \in Seq(Messages), NEW u,
           u = [n \in DOMAIN q |-> [kind |-> EventTypeOf(q[n]), height |-> q[n].height]]
    PROVE  /\ Len(q) \in Nat /\ DOMAIN q = 1 .. Len(q)
           /\ Len(u) = Len(q) /\ DOMAIN u = 1 .. Len(q)
           /\ \A n \in 1 .. Len(q) : u[n].kind = EventTypeOf(q[n]) /\ u[n].height = q[n].height
<1>1. Len(q) \in Nat /\ DOMAIN q = 1 .. Len(q)
  BY LenProperties
<1> DEFINE Seen == {[kind |-> EventTypeOf(q[n]), height |-> q[n].height] : n \in DOMAIN q}
<1>2. u \in [1 .. Len(q) -> Seen]
  BY <1>1
<1> HIDE DEF Seen
<1>3. u \in Seq(Seen)
  BY <1>1, <1>2, SeqDef
<1>4. DOMAIN u = 1 .. Len(u) /\ Len(u) \in Nat /\ DOMAIN u = 1 .. Len(q)
  BY <1>2, <1>3, LenProperties
<1>5. Len(u) = Len(q)
  <2> DEFINE a == Len(u)
             b == Len(q)
  <2>1. a \in Nat /\ b \in Nat /\ 1 .. a = 1 .. b
    BY <1>1, <1>4
  <2> HIDE DEF a, b
  <2>2. (a = 0 \/ a \in 1 .. a) /\ (b = 0 \/ b \in 1 .. b)
    BY <2>1
  <2>3. a <= b /\ b <= a
    <3>1. a = 0 \/ a \in 1 .. b
      BY <2>1, <2>2
    <3>2. b = 0 \/ b \in 1 .. a
      BY <2>1, <2>2
    <3> QED BY <2>1, <3>1, <3>2
  <2>4. a = b
    BY <2>1, <2>3
  <2> QED BY <2>4 DEF a, b
<1> QED BY <1>1, <1>4, <1>5

LEMMA UpdatesAre ==
    ASSUME PublisherInv
    PROVE  /\ Len(log) \in Nat /\ DOMAIN log = 1 .. Len(log)
           /\ Len(Updates) = Len(log) /\ DOMAIN Updates = 1 .. Len(log)
           /\ \A n \in 1 .. Len(log) : /\ Updates[n].kind = EventTypeOf(log[n])
                                       /\ Updates[n].height = log[n].height
<1>1. log \in Seq(Messages)
  BY DEF PublisherInv, PublisherTypes
<1> QED BY <1>1, SeenAre DEF Updates

\* The numbers a captured bucket holds are of updates there are.
LEMMA CapturedNumbers ==
    ASSUME PublisherInv, NEW i \in 1 .. Len(replay.pushed)
    PROVE  /\ replay.pushed[i].first \in Nat /\ replay.pushed[i].last \in Nat
           /\ 1 <= replay.pushed[i].first /\ replay.pushed[i].first <= replay.pushed[i].last
           /\ replay.pushed[i].last <= Len(log) /\ replay.pushed[i].height \in Nat
           /\ \A n : InBucket(n, i) => n \in 1 .. Len(log)
<1>1. /\ replay.pushed[i] \in BucketsOf({"finalized"})
      /\ Numbered \in Nat /\ Len(log) \in Nat /\ Numbered <= Len(log)
  BY PublisherNumbers
<1>2. /\ 1 <= replay.pushed[i].first /\ replay.pushed[i].first <= replay.pushed[i].last
      /\ replay.pushed[i].last <= Numbered
  BY DEF PublisherInv, WindowInv
<1>3. /\ replay.pushed[i].first \in Nat /\ replay.pushed[i].last \in Nat
      /\ replay.pushed[i].height \in Nat
  BY <1>1 DEF BucketsOf
<1> QED BY <1>1, <1>2, <1>3 DEF InBucket

\* The updates a step numbers are stamped.
LEMMA StampedStep ==
    ASSUME PublisherInv, MempoolGrown, mempool.revision \in Nat, Stamped, Grown,
           PublisherInv', [Next]_vars
    PROVE  Stamped'
<1>1. Len(log) \in Nat /\ Len(log') \in Nat /\ log \in Seq(Messages)
  BY LenProperties DEF PublisherInv, PublisherTypes
<1>2. ASSUME NEW n \in (Len(log) + 1) .. Len(log'), log'[n].scope = "mempool"
      PROVE  log'[n].rev >= 1
  <2>1. log'[n].rev > mempool.revision
    BY <1>2 DEF MempoolGrown
  <2>2. log'[n] \in Messages
    <3>1. n \in 1 .. Len(log')
      BY <1>1
    <3> QED BY <3>1, ElementOfSeq DEF PublisherInv, PublisherTypes
  <2> QED BY <2>1, <2>2 DEF Messages
<1>3. ASSUME NEW new \in Seq(Messages), log' = log \o new,
             \A k \in 1 .. Len(new) : new[k].scope = "mempool" <=> new[k].height = 0,
             NEW n \in (Len(log) + 1) .. Len(log')
      PROVE  log'[n].scope = "mempool" <=> log'[n].height = 0
  <2>1. Len(new) \in Nat /\ Len(log') = Len(log) + Len(new)
    BY <1>1, <1>3, ConcatProperties, LenProperties
  <2>2. n - Len(log) \in 1 .. Len(new) /\ n \in 1 .. (Len(log) + Len(new))
    BY <1>1, <2>1
  <2>3. log'[n] = new[n - Len(log)]
    BY <1>1, <1>3, <2>1, <2>2, ConcatProperties
  <2> QED BY <1>3, <2>2, <2>3
<1>4. ASSUME NEW n \in (Len(log) + 1) .. Len(log')
      PROVE  log'[n].scope = "mempool" <=> log'[n].height = 0
  <2>1. CASE PublishBlock
    <3>1. PICK height \in Heights : log' = log \o BlockUpdates(Len(log), LastEvent + 1, height)
      BY <2>1 DEF PublishBlock
    <3> DEFINE m(k) == Message("block", Len(log) + k, height, 0, "none", {}, LastEvent + 1)
               new == <<m(1), m(2)>>
    <3>2. m(1) \in Messages /\ m(2) \in Messages
      BY <1>1, LastEventIsNat, ServerAssumption DEF Message, Messages
    <3>3. /\ m(1).scope = "block" /\ m(2).scope = "block"
          /\ m(1).height # 0 /\ m(2).height # 0
      BY ServerAssumption DEF Message
    <3>4. log' = log \o new
      BY <3>1 DEF BlockUpdates
    <3> HIDE DEF m
    <3>5. new \in Seq(Messages) /\ Len(new) = 2 /\ new[1] = m(1) /\ new[2] = m(2)
      BY <3>2
    <3>6. \A k \in 1 .. Len(new) : new[k].scope = "block" /\ new[k].height # 0
      BY <3>3, <3>5
    <3> HIDE DEF new
    <3> QED BY <1>3, <1>4, <3>4, <3>5, <3>6
  <2>2. CASE PublishMempool
    <3>1. PICK action \in {"added", "removed"}, id \in TxIds :
            log' = log \o MempoolUpdates(Len(log), LastEvent + 1, mempool.revision + 1, action, id)
      BY <2>2 DEF PublishMempool
    <3> DEFINE m(k) == Message("mempool", Len(log) + k, 0, mempool.revision + 1, action, {id},
                               LastEvent + 1)
               new == IF action = "added" THEN <<m(1), m(2)>> ELSE <<m(1)>>
    <3>2. m(1) \in Messages /\ m(2) \in Messages
      BY <1>1, LastEventIsNat DEF Message, Messages
    <3>3. /\ m(1).scope = "mempool" /\ m(2).scope = "mempool"
          /\ m(1).height = 0 /\ m(2).height = 0
      BY DEF Message
    <3>4. log' = log \o new
      BY <3>1 DEF MempoolUpdates
    <3> HIDE DEF m
    <3>5. new \in Seq(Messages) /\ Len(new) \in {1, 2} /\ new[1] = m(1)
          /\ (Len(new) = 2 => new[2] = m(2))
      BY <3>2
    <3>6. \A k \in 1 .. Len(new) : new[k].scope = "mempool" /\ new[k].height = 0
      BY <3>3, <3>5
    <3> HIDE DEF new
    <3> QED BY <1>3, <1>4, <3>4, <3>5, <3>6
  <2>3. CASE log' = log
    BY <1>1, <1>4, <2>3
  <2>4. ASSUME NEW s \in Subscribers, ServerTask(s) \/ Control(s) \/ ClientRead(s)
        PROVE  log' = log
    BY <2>4 DEF ServerTask, Control, SubscribeLive, SnapshotReplay, SnapshotMempool, SendInitial,
                SendReplay, GoLive, ReceiveLive, SendHeld, Lagged, ReplaceFilter, AnswerPing,
                SendPing, RejectFilter, Cancelled, ClientRead, publisher
  <2> QED BY <2>1, <2>2, <2>3, <2>4 DEF Next, Publisher, PushReplay, SendLive, vars, publisher
<1>5. \A n \in 1 .. Len(log') : n \in 1 .. Len(log) \/ n \in (Len(log) + 1) .. Len(log')
  BY <1>1
<1>6. \A n \in 1 .. Len(log) : log'[n] = log[n]
  BY DEF Grown
<1> QED BY <1>2, <1>4, <1>5, <1>6 DEF Stamped

\* A stream whose own state is left alone is seen as it was.
LEMMA ViewFrame ==
    ASSUME FeedState, PublisherInv', Grown, MempoolGrown, NEW s \in Subscribers, Same(s)
    PROVE  SameView(s) /\ FeedStream(s)'
<1>1. /\ PublisherInv /\ StreamTypes /\ FeedStream(s)
      /\ mempool.revision \in Nat /\ revision[s] \in Nat /\ revision[s] <= mempool.revision
  BY ReachedNumbers DEF FeedState, IInv, FeedInv, MempoolMirrorInv, MirrorInv
<1>2. /\ Len(log) \in Nat /\ Len(log') \in Nat /\ Len(log) <= Len(log')
      /\ DOMAIN log = 1 .. Len(log) /\ DOMAIN log' = 1 .. Len(log')
      /\ \A n \in 1 .. Len(log) : log'[n] = log[n]
  BY <1>1, LenProperties DEF PublisherInv, PublisherTypes, Grown
<1>3. Phase(s)' = Phase(s) /\ Reached(s)' = Reached(s)
  BY DEF Same, Phase, Reached, Larger
<1>4. Position(s)' = Position(s)
  BY <1>3 DEF Same, Position
<1>5. Delivered(s)' = Delivered(s)
  BY DEF Same, Delivered
<1>6. Covered(s)' = Covered(s)
  <2>1. ASSUME NEW n \in (Len(log) + 1) .. Len(log'), log'[n].scope = "mempool"
        PROVE  ~(log'[n].rev <= revision[s])
    <3>1. log'[n].rev > mempool.revision
      BY <2>1 DEF MempoolGrown
    <3>2. n \in 1 .. Len(log')
      BY <1>2
    <3>3. log'[n] \in Messages
      BY <3>2, ElementOfSeq DEF PublisherInv, PublisherTypes
    <3>4. log'[n].rev \in Nat
      BY <3>3 DEF Messages
    <3> QED BY <1>1, <3>1, <3>4
  <2>2. \A n \in 1 .. Len(log') : n \in 1 .. Len(log) \/ n \in (Len(log) + 1) .. Len(log')
    BY <1>2
  <2>3. \A n \in 1 .. Len(log) : n \in 1 .. Len(log')
    BY <1>2
  <2> QED BY <1>2, <2>1, <2>2, <2>3 DEF Same, Covered
<1>7. /\ captured[s] \subseteq 1 .. Len(replay.pushed)
      /\ \A i \in captured[s] : replay'.pushed[i] = replay.pushed[i]
      /\ captured'[s] \subseteq 1 .. Len(replay'.pushed)
  <2>1. Len(replay.pushed) \in Nat /\ Len(replay'.pushed) \in Nat
        /\ Len(replay.pushed) <= Len(replay'.pushed)
    BY <1>1, LenProperties DEF Grown, PublisherInv, WindowInv, Sound, Typed
  <2> QED BY <1>1, <2>1 DEF FeedStream, Grown, Same
<1>8. Owed(s)' = Owed(s)
  <2>1. \A n : ToCome(s, n)' <=> ToCome(s, n)
    BY <1>7 DEF ToCome, InBucket, Front, Same
  <2>2. \A n : ToCome(s, n) => n \in 1 .. Len(log)
    BY <1>1, <1>7, CapturedNumbers DEF ToCome
  <2>3. \A n \in 1 .. Len(log) : n \in 1 .. Len(log')
    BY <1>2
  <2> QED BY <1>2, <2>1, <2>2, <2>3 DEF Owed
<1>9. FeedStream(s)'
  <2>1. task'[s] = task[s] /\ revision'[s] = revision[s] /\ held'[s] = held[s] /\ filter'[s] = filter[s]
    BY DEF Same
  <2>2. ASSUME WaitedWith(s) PROVE WaitedWith(s)'
    <3>1. held[s].seq \in 1 .. Len(log')
      BY <1>2, <2>2 DEF WaitedWith
    <3> QED BY <1>2, <1>3, <1>6, <2>1, <2>2, <3>1 DEF WaitedWith, Matches
  <2> QED BY <1>1, <1>7, <2>1, <2>2 DEF FeedStream
<1> QED BY <1>3, <1>4, <1>5, <1>6, <1>8, <1>9 DEF SameView, Same

\* What is kept reaches back from the newest update there is.
ReachesBack ==
    /\ OldestKept \in 1 .. (Numbered + 1) /\ Numbered \in Nat
    /\ Retained(replay) = (replay.popped + 1) .. Len(replay.pushed)
    /\ replay.popped \in Nat /\ Len(replay.pushed) \in Nat
    /\ Retained(replay) # {} =>
        /\ replay.popped + 1 \in 1 .. Len(replay.pushed)
        /\ OldestKept = replay.pushed[replay.popped + 1].first

LEMMA OldestIs == PublisherInv => ReachesBack
<1> SUFFICES ASSUME PublisherInv PROVE ReachesBack
  OBVIOUS
<1> USE DEF ReachesBack
<1>1. /\ Numbered \in Nat /\ Len(replay.pushed) \in Nat /\ replay.popped \in Nat
      /\ replay.popped <= Len(replay.pushed)
  BY PublisherNumbers DEF PublisherInv, WindowInv, Sound, Typed
<1>2. Retained(replay) = (replay.popped + 1) .. Len(replay.pushed)
  BY DEF Retained
<1>3. CASE Retained(replay) = {}
  BY <1>1, <1>2, <1>3 DEF OldestKept
<1>4. CASE Retained(replay) # {}
  <2>1. replay.popped + 1 \in 1 .. Len(replay.pushed)
    BY <1>1, <1>2, <1>4
  <2>2. OldestKept = replay.pushed[replay.popped + 1].first
    BY <1>4 DEF OldestKept, Oldest
  <2>3. /\ replay.pushed[replay.popped + 1].first \in Nat
        /\ replay.pushed[replay.popped + 1].last \in Nat
        /\ 1 <= replay.pushed[replay.popped + 1].first
        /\ replay.pushed[replay.popped + 1].first <= replay.pushed[replay.popped + 1].last
    BY <2>1, CapturedNumbers
  <2>4. replay.pushed[replay.popped + 1].last <= Numbered
    BY <2>1 DEF PublisherInv, WindowInv
  <2> QED BY <1>1, <1>2, <2>1, <2>2, <2>3, <2>4
<1> QED BY <1>3, <1>4

\* Buckets leave the window at its front only, and none comes back.
LEMMA FrontMovesOn ==
    ASSUME PublisherInv, [Next]_vars
    PROVE  replay.popped <= replay'.popped
<1>1. replay.popped \in Nat
  BY OldestIs DEF ReachesBack
<1>2. ASSUME NEW r, r.popped = replay.popped, EvictsTo(r, 0, replay') PROVE replay.popped <= replay'.popped
  <2>1. PICK k \in r.popped .. Len(r.pushed) : replay' = PopThrough(r, k)
    BY <1>2 DEF EvictsTo
  <2>2. replay'.popped = k
    BY <2>1 DEF PopThrough
  <2> QED BY <1>1, <1>2, <2>1, <2>2
<1>3. CASE replay' = replay
  BY <1>1, <1>3
<1>4. CASE PushReplay
  <2> DEFINE b == Batch(log[sent + 1].height, "finalized", sent + 1, Len(log), 1)
  <2>1. \/ replay' = replay \/ EvictsTo(replay, 0, replay')
        \/ EvictsTo(PushBack(replay, b, 0), 0, replay')
    BY <1>4 DEF PushReplay, PushesTo, HeightlessPushesTo
  <2>2. PushBack(replay, b, 0).popped = replay.popped
    BY DEF PushBack
  <2> HIDE DEF b
  <2> QED BY <1>2, <1>3, <2>1, <2>2
<1>5. ASSUME NEW s \in Subscribers, SnapshotReplay(s) PROVE replay.popped <= replay'.popped
  <2>1. replay' = replay \/ EvictsTo(replay, 0, replay')
    BY <1>5 DEF SnapshotReplay
  <2> QED BY <1>2, <1>3, <2>1
<1>6. CASE Publisher
  BY <1>3, <1>4, <1>6 DEF Publisher, PublishBlock, PublishMempool, SendLive
<1>7. ASSUME NEW s \in Subscribers, ServerTask(s) \/ Control(s) \/ ClientRead(s)
      PROVE  replay' = replay \/ SnapshotReplay(s)
  BY <1>7 DEF ServerTask, Control, SubscribeLive, SnapshotMempool, SendInitial, SendReplay, GoLive,
              ReceiveLive, SendHeld, Lagged, ReplaceFilter, AnswerPing, SendPing, RejectFilter,
              Cancelled, ClientRead, publisher
<1> QED BY <1>3, <1>5, <1>6, <1>7 DEF Next, vars, publisher

\* So what is kept only shrinks at its old end.
LEMMA OldestMovesOn ==
    ASSUME PublisherInv, PublisherInv', Grown, replay.popped <= replay'.popped
    PROVE  /\ OldestKept \in Nat /\ OldestKept' \in Nat /\ Numbered' \in Nat
           /\ OldestKept <= OldestKept' /\ OldestKept' <= Numbered' + 1
<1> DEFINE j == replay.popped + 1
           k == replay'.popped + 1
<1>1. ReachesBack /\ ReachesBack'
  <2>1. ReachesBack
    BY OldestIs
  <2>2. ReachesBack'
    BY OldestIs, PTL
  <2> QED BY <2>1, <2>2
<1>2. /\ OldestKept \in 1 .. (Numbered + 1) /\ Numbered \in Nat
      /\ j \in Nat /\ Len(replay.pushed) \in Nat /\ Retained(replay) = j .. Len(replay.pushed)
      /\ Retained(replay) # {} => j \in 1 .. Len(replay.pushed) /\ OldestKept = replay.pushed[j].first
  BY <1>1 DEF ReachesBack
<1>3. /\ OldestKept' \in 1 .. (Numbered' + 1) /\ Numbered' \in Nat
      /\ k \in Nat /\ Len(replay'.pushed) \in Nat
      /\ Retained(replay') # {} =>
           k \in 1 .. Len(replay'.pushed) /\ OldestKept' = replay'.pushed[k].first
  BY <1>1 DEF ReachesBack
<1>4. /\ OldestKept \in Nat /\ OldestKept <= Numbered + 1
      /\ OldestKept' \in Nat /\ OldestKept' <= Numbered' + 1
  <2>1. \A m \in Nat : \A x \in 1 .. (m + 1) : x \in Nat /\ x <= m + 1
    OBVIOUS
  <2> HIDE DEF j, k
  <2> QED BY <1>2, <1>3, <2>1
<1>5. Numbered <= Numbered' /\ j <= k
  <2>1. replay.popped \in Nat /\ replay'.popped \in Nat
    BY <1>1 DEF ReachesBack
  <2>2. j <= k
    BY <2>1
  <2> QED BY <2>2 DEF Grown
<1>6. CASE Retained(replay') = {}
  <2>1. OldestKept' = Numbered' + 1
    BY <1>6 DEF OldestKept
  <2>2. Numbered \in Nat /\ Numbered' \in Nat
    BY <1>2, <1>3
  <2> HIDE DEF j, k
  <2>3. \A a, b, c \in Nat : a <= b + 1 /\ b <= c => a <= c + 1
    OBVIOUS
  <2>4. OldestKept <= Numbered' + 1
    BY <1>4, <1>5, <2>2, <2>3
  <2> QED BY <1>4, <2>1, <2>2, <2>4
<1>7. CASE Retained(replay') # {} /\ k <= Len(replay.pushed)
  <2> HIDE DEF j, k
  <2>1. j \in Retained(replay) /\ j \in 1 .. Len(replay.pushed) /\ k \in 1 .. Len(replay.pushed)
    BY <1>2, <1>3, <1>5, <1>7
  <2>2. OldestKept = replay.pushed[j].first /\ OldestKept' = replay'.pushed[k].first
    BY <1>2, <1>3, <1>7, <2>1
  <2>3. replay'.pushed[k] = replay.pushed[k]
    BY <2>1 DEF Grown
  <2>4. replay.pushed[j].first <= replay.pushed[k].first
    BY <1>5, <2>1, BucketsInOrder
  <2> QED BY <1>3, <1>4, <2>2, <2>3, <2>4
<1>8. CASE Retained(replay') # {} /\ ~(k <= Len(replay.pushed))
  <2> HIDE DEF j, k
  <2>1. k \in (Len(replay.pushed) + 1) .. Len(replay'.pushed) /\ OldestKept' = replay'.pushed[k].first
    BY <1>2, <1>3, <1>8
  <2>2. Numbered < OldestKept'
    BY <2>1 DEF Grown
  <2>3. Numbered \in Nat /\ Numbered' \in Nat
    BY <1>2, <1>3
  <2>4. \A a, b, c \in Nat : a <= b + 1 /\ b < c => a <= c
    OBVIOUS
  <2>5. OldestKept <= OldestKept'
    BY <1>4, <2>2, <2>3, <2>4
  <2> QED BY <1>4, <2>3, <2>5
<1> QED BY <1>3, <1>4, <1>6, <1>7, <1>8

LEMMA OldestStays ==
    ASSUME UNCHANGED <<log, sent, stage, replay>> PROVE OldestKept' = OldestKept
BY DEF OldestKept, Numbered, Retained, Oldest

\* A step of one stream: what Feed sees of the others is as it was.
Feeding(s) ==
    /\ s \in Subscribers /\ FeedState /\ Stepped(s) /\ MempoolGrown
    /\ UNCHANGED <<log, sent, stage, request>> /\ replay.popped <= replay'.popped

LEMMA OthersSeen ==
    ASSUME NEW s, Feeding(s)
    PROVE  \A t \in Subscribers \ {s} : SameView(t) /\ FeedStream(t)'
BY ViewFrame DEF Feeding, Stepped

LEMMA ViewMoves ==
    ASSUME NEW s, Feeding(s)
    PROVE  /\ [t \in Subscribers |-> Phase(t)]'
                = [[t \in Subscribers |-> Phase(t)] EXCEPT ![s] = Phase(s)']
           /\ [t \in Subscribers |-> Owed(t)]'
                = [[t \in Subscribers |-> Owed(t)] EXCEPT ![s] = Owed(s)']
           /\ [t \in Subscribers |-> Position(t)]'
                = [[t \in Subscribers |-> Position(t)] EXCEPT ![s] = Position(s)']
           /\ [t \in Subscribers |-> Covered(t)]'
                = [[t \in Subscribers |-> Covered(t)] EXCEPT ![s] = Covered(s)']
           /\ [t \in Subscribers |-> Delivered(t)]'
                = [[t \in Subscribers |-> Delivered(t)] EXCEPT ![s] = Delivered(s)']
           /\ filter' = [filter EXCEPT ![s] = filter'[s]]
           /\ Updates' = Updates /\ request' = request
           /\ replay' = replay => OldestKept' = OldestKept
           /\ s \in Subscribers
<1>1. s \in Subscribers /\ \A t \in Subscribers \ {s} : SameView(t)
  BY OthersSeen DEF Feeding
<1>2. Updates' = Updates /\ request' = request /\ (replay' = replay => OldestKept' = OldestKept)
  BY OldestStays DEF Feeding, Updates
<1>3. filter' = [filter EXCEPT ![s] = filter'[s]]
  <2>1. StreamTypes /\ StreamTypes'
    BY DEF Feeding, FeedState, IInv, Stepped
  <2>2. filter \in [Subscribers -> SUBSET {"block", "mempool"}]
        /\ filter' \in [Subscribers -> SUBSET {"block", "mempool"}]
    BY <2>1 DEF StreamTypes
  <2> QED BY <1>1, <2>2 DEF SameView
<1> QED BY <1>1, <1>2, <1>3 DEF SameView

\* A step that is not seen, but that it may have evicted something.
LEMMA Unseen ==
    ASSUME NEW s, Feeding(s), SameView(s)
    PROVE  Streams!Forget
<1>1. \A t \in Subscribers : SameView(t)
  BY OthersSeen
<1>2. filter' = filter
  <2>1. filter' = [filter EXCEPT ![s] = filter'[s]] /\ filter'[s] = filter[s]
    BY ViewMoves DEF SameView
  <2>2. filter \in [Subscribers -> SUBSET {"block", "mempool"}]
    BY DEF Feeding, FeedState, IInv, StreamTypes
  <2> QED BY <2>1, <2>2
<1>3. Updates' = Updates /\ request' = request
  BY ViewMoves
<1>4. OldestKept' \in OldestKept .. (Len(Updates) + 1)
  <2>1. PublisherInv /\ PublisherInv' /\ Grown
    BY DEF Feeding, FeedState, IInv, Stepped
  <2>2. /\ Numbered' = Numbered /\ Numbered \in Nat /\ Numbered <= Len(log) /\ Len(log) \in Nat
        /\ Len(Updates) = Len(log) /\ OldestKept \in Nat
    BY <2>1, PublisherNumbers, UpdatesAre, OldestIs DEF Feeding, Numbered, ReachesBack
  <2>3. OldestKept' \in Nat /\ OldestKept <= OldestKept' /\ OldestKept' <= Numbered' + 1
    BY <2>1, OldestMovesOn DEF Feeding
  <2> QED BY <2>2, <2>3
<1> QED BY <1>1, <1>2, <1>3, <1>4 DEF SameView, Streams!Forget, Streams!Forgets

\* The stream ends.
LEMMA Ended ==
    ASSUME NEW s, Feeding(s), replay' = replay, Phase(s) = "open", Phase(s)' = "ended",
           Owed(s)' = Owed(s), Position(s)' = Position(s), Covered(s)' = Covered(s),
           filter'[s] = filter[s], Delivered(s)' = Delivered(s)
    PROVE  Streams!End(s)
<1>1. filter' = filter
  <2>1. filter \in [Subscribers -> SUBSET {"block", "mempool"}]
    BY DEF Feeding, FeedState, IInv, StreamTypes
  <2>2. filter' = [filter EXCEPT ![s] = filter[s]]
    BY ViewMoves
  <2> QED BY <2>1, <2>2
<1>2. \A t \in Subscribers :
        /\ Owed(t)' = Owed(t) /\ Position(t)' = Position(t) /\ Covered(t)' = Covered(t)
        /\ Delivered(t)' = Delivered(t)
  BY OthersSeen DEF SameView
<1> QED BY <1>1, <1>2, ViewMoves DEF Streams!End

\* What a step leaves of a stream that has neither replay nor window, snapshot or filter
\* to do with it.
LEMMA ViewStays ==
    ASSUME NEW s, Feeding(s), replay' = replay,
           captured'[s] = captured[s], offset'[s] = offset[s],
           request'[s] = request[s], revision'[s] = revision[s]
    PROVE  Owed(s)' = Owed(s) /\ Covered(s)' = Covered(s)
<1>1. log' = log
  BY DEF Feeding
<1>2. \A n : ToCome(s, n)' <=> ToCome(s, n)
  BY DEF ToCome, InBucket, Front
<1> QED BY <1>1, <1>2 DEF Owed, Covered

\* With no published update waited for, what was delivered is what was given.
LEMMA DeliveredIsGiven ==
    ASSUME NEW s, ~Published(held[s]) PROVE Delivered(s) = Given(s)
BY DEF Given

LEMMA NothingIsHeld ==
    ASSUME NEW s \in Subscribers, IInv, task[s] \notin {"reserve", "closed"}
    PROVE  held[s] = Nothing /\ ~Published(held[s]) /\ Delivered(s) = Given(s)
<1>1. held[s] = Nothing
  BY DEF IInv, StreamInv, Quiet
<1>2. ~Published(held[s])
  BY <1>1 DEF Nothing, Marker, Message, Published
<1> QED BY <1>1, <1>2, DeliveredIsGiven

-----------------------------------------------------------------------------
\* live.subscribe is not seen.
LEMMA SubscribeLiveSeen ==
    ASSUME NEW s, Feeding(s), SubscribeLive(s)
    PROVE  SameView(s) /\ FeedStream(s)'
<1>1. /\ s \in Subscribers /\ FeedStream(s) /\ StreamTypes /\ task[s] = "none"
      /\ task' = [task EXCEPT ![s] = "subscribed"]
      /\ UNCHANGED <<replay, request, watermark, revision, captured, offset, filter, held, stream>>
  BY DEF Feeding, FeedState, FeedInv, IInv, SubscribeLive, publisher, opening, channel
<1>2. task'[s] = "subscribed"
  BY <1>1 DEF StreamTypes
<1>3. Phase(s) = "none" /\ Phase(s)' = "none"
  BY <1>1, <1>2 DEF Phase
<1>4. Owed(s)' = Owed(s) /\ Covered(s)' = Covered(s)
  BY <1>1, ViewStays
<1>5. Position(s) = 0 /\ Position(s)' = 0
  BY <1>3 DEF Position
<1>6. Delivered(s)' = Delivered(s)
  BY <1>1 DEF Delivered
<1>7. FeedStream(s)'
  BY <1>1, <1>2 DEF FeedStream
<1> QED BY <1>1, <1>3, <1>4, <1>5, <1>6, <1>7 DEF SameView

\* A snapshot of the window opens the stream, from where the receiver or the window is
\* ahead, with all the window has at the requested height and above; or it refuses it.
LEMMA SnapshotReplaySeen ==
    ASSUME NEW s, Feeding(s), SnapshotReplay(s)
    PROVE  (Streams!Open(s) \/ Streams!Forget) /\ FeedStream(s)'
<1> DEFINE from == request[s].fromHeight
           refused == /\ task' = [task EXCEPT ![s] = "refused"]
                      /\ UNCHANGED <<watermark, start, captured>>
           n == Len(replay.pushed)
           w == Watermark(replay')
           first == replay.pushed[replay'.popped + 1].first
           p == Larger(cursor[s], w)
<1>1. /\ s \in Subscribers /\ IInv /\ PublisherInv /\ StreamTypes /\ StreamInv(s)
      /\ FeedStream(s) /\ Stamped /\ log' = log /\ PublisherInv'
  BY DEF Feeding, FeedState, FeedInv, IInv, Stepped
<1>2. /\ UNCHANGED <<log, sent, stage, mempool>>
      /\ UNCHANGED <<request, cursor, revision, offset, filter, held, stream>>
  BY DEF SnapshotReplay, channel
<1>3. /\ task[s] = "subscribed"
      /\ \/ refused /\ (UNCHANGED replay \/ EvictsTo(replay, 0, replay'))
         \/ /\ EvictsTo(replay, 0, replay')
            /\ from = NoHeight \/ HeightAvailable(replay', from)
            /\ task' = [task EXCEPT ![s] = "replayed"]
            /\ watermark' = [watermark EXCEPT ![s] = w]
            /\ start' = [start EXCEPT ![s] = p]
            /\ captured' = [captured EXCEPT ![s] =
                             IF from = NoHeight THEN {} ELSE ReplayFrom(replay', from)]
  BY DEF SnapshotReplay
<1>4. /\ Sound(replay', {"finalized"}) /\ replay'.pushed = replay.pushed
      /\ n \in Nat /\ replay'.popped \in 0 .. n
  BY <1>1, <1>3, EvictSound, PublisherNumbers DEF PublisherInv, WindowInv, Sound, Typed
<1>5. /\ captured[s] = {} /\ offset[s] = 0 /\ revision[s] = 0 /\ Phase(s) = "none"
      /\ Position(s) = 0 /\ ~Published(held[s])
  BY <1>1, <1>3, NothingIsHeld DEF StreamInv, Quiet, FeedStream, Phase, Position
<1>6. Covered(s)' = Covered(s) /\ Delivered(s)' = Delivered(s)
  BY <1>2 DEF Covered, Delivered
<1>7. Owed(s) = {}
  BY <1>5 DEF Owed, ToCome
<1> HIDE DEF p, w
<1>8. CASE refused
  <2>1. task'[s] = "refused"
    BY <1>1, <1>8 DEF StreamTypes
  <2>2. Phase(s)' = "none" /\ Position(s)' = 0
    BY <2>1 DEF Phase, Position
  <2>3. Owed(s)' = {}
    BY <1>5, <1>8 DEF Owed, ToCome
  <2>4. SameView(s)
    BY <1>2, <1>5, <1>6, <1>7, <2>2, <2>3 DEF SameView
  <2>5. FeedStream(s)'
    BY <1>2, <1>5, <1>8, <2>1 DEF FeedStream
  <2> QED BY <2>4, <2>5, Unseen
<1>9. CASE /\ EvictsTo(replay, 0, replay')
           /\ from = NoHeight \/ HeightAvailable(replay', from)
           /\ task' = [task EXCEPT ![s] = "replayed"]
           /\ watermark' = [watermark EXCEPT ![s] = w]
           /\ start' = [start EXCEPT ![s] = p]
           /\ captured' = [captured EXCEPT ![s] =
                            IF from = NoHeight THEN {} ELSE ReplayFrom(replay', from)]
  <2>1. /\ task'[s] = "replayed" /\ watermark'[s] = w
        /\ captured'[s] = IF from = NoHeight THEN {} ELSE ReplayFrom(replay', from)
    BY <1>1, <1>9 DEF StreamTypes
  <2>2. Phase(s)' = (IF request[s].snapshot THEN "opening" ELSE "open")
    BY <1>2, <2>1 DEF Phase
  <2>3. Position(s)' = p
    <3>1. Reached(s)' = p
      BY <1>2, <2>1 DEF Reached, p
    <3> QED BY <1>2, <1>5, <2>2, <3>1 DEF Position
  <2>4. StreamTypes' /\ StreamInv(s)'
    BY DEF Feeding, Stepped
  <2>5. /\ w \in Nat /\ w <= Numbered /\ cursor[s] \in Nat /\ cursor[s] <= sent /\ sent \in Nat
        /\ sent <= Numbered /\ Numbered <= Len(log) /\ Len(log) \in Nat /\ Numbered \in Nat
    <3>1. watermark'[s] \in Nat /\ watermark'[s] <= Numbered'
      BY <1>1, <2>4 DEF StreamTypes, StreamInv
    <3>2. Numbered' = Numbered
      BY <1>2 DEF Numbered
    <3> QED BY <1>1, <2>1, <3>1, <3>2, PublisherNumbers, StreamNumbers DEF StreamInv
  <2>6. p \in Nat /\ w <= p /\ cursor[s] <= p /\ p <= Numbered /\ p \in 0 .. Len(log)
    BY <2>5 DEF p, Larger
  <2>7. FeedStream(s)'
    <3>1. captured'[s] \subseteq 1 .. Len(replay'.pushed)
      BY <2>1, <1>4 DEF ReplayFrom, Retained
    <3> QED BY <1>2, <1>5, <2>1, <3>1 DEF FeedStream
  <2>8. IF from = NoHeight THEN Owed(s)' = Owed(s)
        ELSE /\ \E k \in OldestKept' .. p : Updates[k].height \in 1 .. from
             /\ Owed(s)' = {k \in OldestKept' .. p : Updates[k].height >= from}
    <3>1. CASE from = NoHeight
      <4>1. captured'[s] = {}
        BY <2>1, <3>1
      <4> QED BY <1>7, <3>1, <4>1 DEF Owed, ToCome
    <3>2. CASE from # NoHeight
      <4>1. captured'[s] = ReplayFrom(replay', from)
        BY <2>1, <3>2
      <4>2. Retained(replay') = (replay'.popped + 1) .. n /\ Retained(replay') # {}
        <5>1. DOMAIN replay'.heightCounts # {}
          BY <1>9, <3>2 DEF HeightAvailable
        <5> QED BY <5>1, <1>4 DEF Sound, HeightCountsExact, Retained
      <4>3. replay'.popped + 1 \in 1 .. n /\ replay'.popped + 1 \in Retained(replay')
        BY <1>4, <4>2
      <4>4. \A i \in 1 .. n : /\ replay.pushed[i].first \in Nat /\ replay.pushed[i].last \in Nat
                              /\ 1 <= replay.pushed[i].first
                              /\ replay.pushed[i].first <= replay.pushed[i].last
        BY <1>1, CapturedNumbers
      <4>5. \A i \in Retained(replay') : first <= replay.pushed[i].first /\ replay.pushed[i].last <= w
        <5> TAKE i \in Retained(replay')
        <5>1. i \in 1 .. n /\ replay'.popped + 1 <= i /\ n \in 1 .. n /\ i <= n
          BY <1>4, <4>2
        <5>2. w = replay.pushed[n].last
          BY <4>2, <1>4 DEF w, Watermark, Newest
        <5> QED BY <5>1, <5>2, <4>3, <1>1, BucketsInOrder
      <4>6. first \in 1 .. p
        <5>1. /\ first \in Nat /\ 1 <= first /\ first <= replay.pushed[replay'.popped + 1].last
              /\ replay.pushed[replay'.popped + 1].last \in Nat
          BY <4>3, <4>4
        <5>2. replay.pushed[replay'.popped + 1].last <= w
          BY <4>3, <4>5
        <5> QED BY <5>1, <5>2, <2>5, <2>6
      <4>7. from \in Nat \ {0} /\ OldestKept' = first
        <5>1. from \in Nat \ {0}
          BY <1>1, <3>2, ServerAssumption DEF StreamTypes, NoHeight
        <5>2. OldestKept' = replay'.pushed[replay'.popped + 1].first
          BY <4>2 DEF OldestKept, Oldest
        <5> QED BY <5>1, <5>2, <1>4
      <4> HIDE DEF first
      <4>8. ASSUME NEW k \in Owed(s)' PROVE k \in first .. p /\ Updates[k].height >= from
        <5>1. PICK i \in captured'[s] : InBucket(k, i)'
          BY <4>8 DEF Owed, ToCome
        <5>2. /\ i \in Retained(replay') /\ replay.pushed[i].height >= from
              /\ k \in replay.pushed[i].first .. replay.pushed[i].last
          BY <4>1, <5>1, <1>4 DEF ReplayFrom, InBucket
        <5>3. i \in 1 .. n
          BY <5>2, <4>2, <1>4
        <5>4. k \in first .. p
          BY <5>2, <5>3, <4>4, <4>5, <4>6, <2>5, <2>6
        <5>5. log[k].height = replay.pushed[i].height /\ k \in 1 .. Len(log)
          <6>1. log[k].height = replay.pushed[i].height
            BY <5>2, <5>3, <1>1 DEF PublisherInv, WindowInv
          <6> QED BY <6>1, <5>4, <4>6, <2>6
        <5> QED BY <5>2, <5>4, <5>5, <1>1, UpdatesAre
      <4>9. ASSUME NEW k \in first .. p, Updates[k].height >= from PROVE k \in Owed(s)'
        <5>1. k \in 1 .. Len(log) /\ k \in 1 .. Numbered /\ k \in Nat
          BY <4>6, <2>5, <2>6
        <5>2. log[k].height >= from
          BY <5>1, <4>9, <1>1, UpdatesAre
        <5>3. log[k].scope = "block"
          <6>1. log[k].scope \in {"block", "mempool"}
            BY <5>1, <1>1 DEF PublisherInv, LogInv
          <6>2. log[k].scope # "mempool"
            BY <5>1, <5>2, <4>7, <1>1 DEF Stamped
          <6> QED BY <6>1, <6>2
        <5>4. HeightCapacity # 0
          BY <4>3, <1>1 DEF PublisherInv, WindowInv
        <5>5. PICK i \in 1 .. n : InBucket(k, i)
          BY <5>1, <5>3, <5>4, <1>1 DEF PublisherInv, WindowInv
        <5>6. k \in replay.pushed[i].first .. replay.pushed[i].last
          BY <5>5 DEF InBucket
        <5>7. replay'.popped + 1 <= i
          <6> SUFFICES ASSUME ~(replay'.popped + 1 <= i) PROVE FALSE
            OBVIOUS
          <6>1. i < replay'.popped + 1
            BY <1>4
          <6>2. replay.pushed[i].last < first
            BY <6>1, <4>3, <1>1 DEF PublisherInv, WindowInv, first
          <6> QED BY <6>2, <5>6, <4>4, <4>6, <5>1
        <5>8. i \in Retained(replay')
          BY <5>7, <4>2, <1>4
        <5>9. replay.pushed[i].height = log[k].height
          BY <5>6, <1>1 DEF PublisherInv, WindowInv
        <5>10. i \in captured'[s]
          BY <5>2, <5>8, <5>9, <4>1, <1>4 DEF ReplayFrom
        <5>11. k >= replay.pushed[i].first + offset'[s]
          BY <1>2, <1>5, <4>4, <5>1, <5>6
        <5>12. ToCome(s, k)'
          BY <5>5, <5>10, <5>11, <1>4 DEF ToCome, InBucket
        <5>13. k \in DOMAIN log'
          BY <5>1, <1>1, UpdatesAre
        <5> QED BY <5>12, <5>13 DEF Owed
      <4>10. Owed(s)' = {k \in first .. p : Updates[k].height >= from}
        BY <4>8, <4>9
      <4>11. \E k \in first .. p : Updates[k].height \in 1 .. from
        <5>1. PICK h \in DOMAIN replay'.heightCounts : h <= from
          BY <1>9, <3>2 DEF HeightAvailable
        <5>2. PICK i \in Retained(replay') : h = replay.pushed[i].height
          BY <5>1, <1>4 DEF Sound, HeightCountsExact
        <5>3. i \in 1 .. n
          BY <5>2, <4>2, <1>4
        <5> DEFINE k == replay.pushed[i].first
        <5>4. k \in first .. p /\ k \in 1 .. Len(log) /\ InBucket(k, i)
          BY <5>2, <5>3, <4>4, <4>5, <4>6, <2>5, <2>6 DEF InBucket
        <5>5. log[k].scope = "block" /\ log[k].height = h
          BY <5>2, <5>3, <5>4, <1>1 DEF PublisherInv, WindowInv, InBucket
        <5>6. h \in Nat /\ h # 0
          BY <5>2, <5>3, <5>4, <5>5, <1>1, CapturedNumbers DEF Stamped
        <5> HIDE DEF k
        <5>7. Updates[k].height = h
          BY <5>4, <5>5, <1>1, UpdatesAre
        <5> QED BY <5>1, <5>4, <5>6, <5>7, <4>7
      <4> QED BY <3>2, <4>7, <4>10, <4>11
    <3> QED BY <3>1, <3>2
  <2>9. filter' = filter /\ Len(Updates) = Len(log)
    BY <1>1, <1>2, UpdatesAre
  <2>10. OldestKept' \in OldestKept .. (Len(Updates) + 1)
    <3>1. /\ Grown /\ Numbered' = Numbered /\ OldestKept \in Nat
      BY <1>1, <1>2, OldestIs DEF Feeding, Stepped, Numbered, ReachesBack
    <3>2. OldestKept' \in Nat /\ OldestKept <= OldestKept' /\ OldestKept' <= Numbered' + 1
      BY <1>1, <3>1, OldestMovesOn DEF Feeding
    <3> QED BY <2>5, <2>9, <3>1, <3>2
  <2>11. Streams!Open(s)
    <3>1. /\ [t \in Subscribers |-> Covered(t)]' = [t \in Subscribers |-> Covered(t)]
          /\ [t \in Subscribers |-> Delivered(t)]' = [t \in Subscribers |-> Delivered(t)]
      <4>1. \A t \in Subscribers : Covered(t)' = Covered(t) /\ Delivered(t)' = Delivered(t)
        BY <1>6, OthersSeen DEF SameView
      <4> QED BY <4>1
    <3>2. [t \in Subscribers |-> Phase(t)]' =
            [[t \in Subscribers |-> Phase(t)] EXCEPT ![s] =
                IF request[s].snapshot THEN "opening" ELSE "open"]
      BY <2>2, ViewMoves
    <3>3. [t \in Subscribers |-> Position(t)]' =
            [[t \in Subscribers |-> Position(t)] EXCEPT ![s] = p]
      BY <2>3, ViewMoves
    <3>4. IF from = NoHeight
          THEN [t \in Subscribers |-> Owed(t)]' = [t \in Subscribers |-> Owed(t)]
          ELSE /\ \E k \in OldestKept' .. p : Updates[k].height \in 1 .. from
               /\ [t \in Subscribers |-> Owed(t)]' =
                    [[t \in Subscribers |-> Owed(t)] EXCEPT ![s] =
                        {k \in OldestKept' .. p : Updates[k].height >= from}]
      <4>1. CASE from = NoHeight
        <5>1. \A t \in Subscribers : Owed(t)' = Owed(t)
          BY <2>8, <4>1, OthersSeen DEF SameView
        <5> QED BY <4>1, <5>1
      <4>2. CASE from # NoHeight
        <5>1. [t \in Subscribers |-> Owed(t)]' =
                [[t \in Subscribers |-> Owed(t)] EXCEPT ![s] = Owed(s)']
          BY ViewMoves
        <5>2. /\ \E k \in OldestKept' .. p : Updates[k].height \in 1 .. from
              /\ Owed(s)' = {k \in OldestKept' .. p : Updates[k].height >= from}
          BY <2>8, <4>2
        <5> HIDE DEF from
        <5> QED BY <4>2, <5>1, <5>2
      <4> QED BY <4>1, <4>2
    <3>5. Updates' = Updates /\ request' = request /\ [t \in Subscribers |-> Phase(t)][s] = "none"
      BY <1>1, <1>5, ViewMoves
    <3> QED BY <2>6, <2>9, <2>10, <3>1, <3>2, <3>3, <3>4, <3>5 DEF Streams!Open, Streams!Forgets
  <2> QED BY <2>7, <2>11
<1> QED BY <1>3, <1>8, <1>9

\* The mempool snapshot covers every update of the mempool there is.
LEMMA SnapshotMempoolSeen ==
    ASSUME NEW s, Feeding(s), SnapshotMempool(s)
    PROVE  (Streams!TakeSnapshot(s) \/ Streams!Forget) /\ FeedStream(s)'
<1>1. /\ s \in Subscribers /\ IInv /\ PublisherInv /\ StreamTypes /\ FeedStream(s) /\ MempoolInv
  BY DEF Feeding, FeedState, FeedInv, IInv, MempoolMirrorInv
<1>2. /\ UNCHANGED <<log, replay, request, cursor, watermark, captured, offset, filter, held, stream>>
      /\ task[s] = "replayed" /\ task' = [task EXCEPT ![s] = "initial"]
      /\ revision' = [revision EXCEPT ![s] = IF request[s].snapshot THEN mempool.revision ELSE 0]
  BY DEF SnapshotMempool, publisher, channel
<1>3. /\ task'[s] = "initial" /\ revision[s] = 0
      /\ revision'[s] = IF request[s].snapshot THEN mempool.revision ELSE 0
  BY <1>1, <1>2 DEF StreamTypes, FeedStream
<1>4. ~Published(held[s]) /\ Phase(s)' = "open"
      /\ Phase(s) = IF request[s].snapshot THEN "opening" ELSE "open"
  BY <1>1, <1>2, <1>3, NothingIsHeld DEF Phase
<1>5. Position(s)' = Position(s) /\ Delivered(s)' = Delivered(s)
  BY <1>2, <1>4 DEF Position, Reached, Larger, Delivered
<1>6. Owed(s)' = Owed(s)
  BY <1>2 DEF Owed, ToCome, InBucket, Front
<1>7. FeedStream(s)'
  BY <1>1, <1>2, <1>3, <1>4 DEF FeedStream
<1>8. CASE ~request[s].snapshot
  <2>1. Covered(s)' = Covered(s)
    BY <1>2, <1>8 DEF Covered
  <2>2. SameView(s)
    BY <1>2, <1>4, <1>5, <1>6, <1>8, <2>1 DEF SameView
  <2> QED BY <1>7, <2>2, Unseen
<1>9. CASE request[s].snapshot
  <2>1. Covered(s)' = {n \in DOMAIN Updates : Updates[n].kind \in {"mempool"}}
    <3>1. Covered(s)' = {n \in DOMAIN log : log[n].scope = "mempool"
                                             /\ log[n].rev <= mempool.revision}
      BY <1>2, <1>3, <1>9 DEF Covered
    <3>2. \A n \in 1 .. Len(log) : /\ log[n].rev <= mempool.revision
                                   /\ Updates[n].kind = EventTypeOf(log[n])
                                   /\ log[n].scope \in {"block", "mempool"}
      BY <1>1, UpdatesAre DEF MempoolInv, PublisherInv, LogInv
    <3>3. DOMAIN log = 1 .. Len(log) /\ DOMAIN Updates = 1 .. Len(log)
      BY <1>1, UpdatesAre
    <3> QED BY <3>1, <3>2, <3>3 DEF EventTypeOf
  <2>2. \A t \in Subscribers :
          /\ Owed(t)' = Owed(t) /\ Position(t)' = Position(t) /\ Delivered(t)' = Delivered(t)
    BY <1>5, <1>6, OthersSeen DEF SameView
  <2>3. Streams!TakeSnapshot(s)
    BY <1>2, <1>4, <1>9, <2>1, <2>2, ViewMoves DEF Streams!TakeSnapshot
  <2> QED BY <1>7, <2>3
<1> QED BY <1>8, <1>9

\* Messages of a stream's own are not seen.
LEMMA OwnMessage ==
    ASSUME NEW s \in Subscribers, IInv, task[s] \in {"initial", "live"}, UNCHANGED <<held, read>>,
           NEW m \in Messages, ~Published(m), (HasRoom(s) /\ Put(s, m)) \/ UNCHANGED stream
    PROVE  Delivered(s)' = Delivered(s)
<1>1. ~Published(held[s]) /\ ~Published(held'[s]) /\ StreamTypes /\ Order(s) /\ Channel(s)
  BY NothingIsHeld DEF IInv, StreamInv
<1>2. CASE HasRoom(s) /\ Put(s, m)
  <2>1. Given(s)' = Given(s)
    BY <1>1, <1>2, PutUnpublished
  <2> QED BY <1>1, <2>1 DEF Given
<1>3. CASE UNCHANGED stream
  BY <1>3 DEF Delivered
<1> QED BY <1>2, <1>3

\* Nor what a task does between two published updates.
LEMMA PlainSeen ==
    ASSUME NEW s, Feeding(s), UNCHANGED <<replay, request, cursor, watermark, revision>>,
           UNCHANGED <<captured, offset, filter>>,
           ~Published(held[s]), ~Published(held'[s]), Delivered(s)' = Delivered(s),
           task[s] \in {"initial", "live"}, task'[s] \in {"initial", "live", "reserve"}
    PROVE  SameView(s) /\ FeedStream(s)'
<1>1. Phase(s) = "open" /\ Phase(s)' = "open"
  BY DEF Phase
<1>2. Owed(s)' = Owed(s) /\ Covered(s)' = Covered(s)
  BY ViewStays
<1>3. Position(s)' = Position(s)
  BY <1>1 DEF Position, Reached, Larger
<1>4. FeedStream(s)'
  <2>1. FeedStream(s)
    BY DEF Feeding, FeedState, FeedInv
  <2> QED BY <2>1 DEF FeedStream
<1> QED BY <1>1, <1>2, <1>3, <1>4 DEF SameView

LEMMA InitialSeen ==
    ASSUME NEW s, Feeding(s), SendInitial(s) \/ GoLive(s)
    PROVE  SameView(s) /\ FeedStream(s)'
<1>1. s \in Subscribers /\ IInv /\ StreamTypes /\ StreamInv(s)
  BY DEF Feeding, FeedState, IInv
<1>2. /\ UNCHANGED <<replay, request, cursor, watermark, revision, captured, offset, filter, held, read>>
      /\ task[s] = "initial" /\ task'[s] \in {"initial", "live"}
  BY <1>1 DEF SendInitial, GoLive, publisher, receiver, opening, channel, StreamTypes
<1>3. ~Published(held[s])
  BY <1>1, <1>2, NothingIsHeld
<1>4. Delivered(s)' = Delivered(s)
  <2>1. CASE GoLive(s)
    BY <2>1 DEF GoLive, channel, Delivered
  <2>2. CASE SendInitial(s)
    <3> DEFINE m == Head(initial[s])
    <3>1. initial[s] # <<>> /\ Offer(s, m)
      BY <2>2 DEF SendInitial
    <3>2. initial[s] \in Seq(Messages)
      BY <1>1, StreamNumbers
    <3>3. m \in Messages /\ m = initial[s][1] /\ 1 \in 1 .. Len(initial[s])
      BY <3>1, <3>2, HeadTailProperties, EmptySeq, LenProperties
    <3>4. ~Published(m)
      BY <1>1, <3>3 DEF StreamInv, Quiet
    <3> HIDE DEF m
    <3>5. (HasRoom(s) /\ Put(s, m)) \/ UNCHANGED stream
      BY <3>1 DEF Offer
    <3> QED BY <1>1, <1>2, <3>3, <3>4, <3>5, OwnMessage
  <2> QED BY <2>1, <2>2
<1> QED BY <1>2, <1>3, <1>4, PlainSeen

LEMMA PingSeen ==
    ASSUME NEW s, Feeding(s), AnswerPing(s) \/ SendPing(s) \/ RejectFilter(s)
    PROVE  SameView(s) /\ FeedStream(s)'
<1>1. s \in Subscribers /\ IInv /\ StreamTypes
  BY DEF Feeding, FeedState, IInv
<1>2. /\ UNCHANGED <<replay, request, cursor, watermark, revision, captured, offset, filter, read>>
      /\ task[s] = "live" /\ task'[s] \in {"live", "reserve"}
  BY <1>1 DEF AnswerPing, SendPing, RejectFilter, publisher, receiver, opening, channel, StreamTypes
<1>3. ~Published(held[s])
  BY <1>1, <1>2, NothingIsHeld
<1>4. ~Published(held'[s]) /\ Delivered(s)' = Delivered(s)
  <2>1. CASE SendPing(s)
    <3>1. /\ UNCHANGED <<held, read>>
          /\ (HasRoom(s) /\ Put(s, Marker("ping", 0))) \/ UNCHANGED stream
      BY <2>1 DEF SendPing
    <3>2. Marker("ping", 0) \in Messages /\ ~Published(Marker("ping", 0))
      BY DEF Marker, Message, Messages, Published
    <3> QED BY <1>1, <1>2, <1>3, <3>1, <3>2, OwnMessage
  <2>2. CASE AnswerPing(s) \/ RejectFilter(s)
    <3>1. held'[s] \in {Marker("pong", 0), Marker("invalid_filter", 0)} /\ stream' = stream
      BY <1>1, <2>2 DEF AnswerPing, RejectFilter, channel, StreamTypes
    <3> QED BY <3>1 DEF Marker, Message, Published, Delivered
  <2> QED BY <2>1, <2>2
<1> QED BY <1>2, <1>3, <1>4, PlainSeen

LEMMA ClientReadSeen ==
    ASSUME NEW s, Feeding(s), ClientRead(s)
    PROVE  SameView(s) /\ FeedStream(s)'
<1>1. UNCHANGED <<replay, log, task, request, cursor, watermark, revision, captured, offset, filter,
                  held, stream>>
  BY DEF ClientRead, publisher, receiver, opening
<1>2. Owed(s)' = Owed(s) /\ Covered(s)' = Covered(s) /\ Reached(s)' = Reached(s)
  BY <1>1, ViewStays DEF Reached, Larger
<1>3. Phase(s)' = Phase(s) /\ Position(s)' = Position(s) /\ Delivered(s)' = Delivered(s)
  BY <1>1, <1>2 DEF Phase, Position, Delivered
<1>4. FeedStream(s)'
  <2>1. FeedStream(s)
    BY DEF Feeding, FeedState, FeedInv
  <2> QED BY <1>1, <1>2, <2>1 DEF FeedStream, WaitedWith, Matches
<1> QED BY <1>1, <1>2, <1>3, <1>4 DEF SameView

-----------------------------------------------------------------------------
\* The replay: an update is sent, and what is owed is one less.
LEMMA OwedAfter ==
    ASSUME IInv, NEW s \in Subscribers, task[s] = "initial", UNCHANGED <<log, replay>>,
           NEW i \in captured[s], NEW n, n = replay.pushed[i].first + offset[s],
           Front(s, i), InBucket(n, i),
           captured'[s] = IF n = replay.pushed[i].last THEN captured[s] \ {i} ELSE captured[s],
           offset'[s] = IF n = replay.pushed[i].last THEN 0 ELSE offset[s] + 1
    PROVE  n \in Owed(s) /\ (\A k \in Owed(s) : n <= k) /\ Owed(s)' = Owed(s) \ {n}
<1> DEFINE first(j) == replay.pushed[j].first
           last(j) == replay.pushed[j].last
<1>1. PublisherInv /\ StreamTypes /\ captured[s] \subseteq 1 .. Len(replay.pushed)
  BY DEF IInv, StreamInv, Active, Pending
<1>2. /\ \A j \in captured[s] : first(j) \in Nat /\ last(j) \in Nat
      /\ offset[s] \in Nat /\ n \in Nat /\ n <= last(i) /\ n >= first(i)
      /\ \A j \in captured[s] : j \in Nat /\ i <= j
  <2>1. \A j \in captured[s] : first(j) \in Nat /\ last(j) \in Nat
    BY <1>1, CapturedNumbers
  <2>2. offset[s] \in Nat /\ captured[s] \subseteq Nat
    BY <1>1, StreamNumbers
  <2> QED BY <2>1, <2>2 DEF InBucket, Front
<1>3. \A j \in captured[s] : j # i => /\ i < j /\ last(i) < first(j) /\ ~Front(s, j)
  <2> TAKE j \in captured[s]
  <2>1. j # i => i < j
    BY <1>2
  <2>2. i < j => last(i) < first(j)
    BY <1>1 DEF PublisherInv, WindowInv
  <2>3. i < j => ~Front(s, j)
    BY <1>2 DEF Front
  <2> QED BY <2>1, <2>2, <2>3
<1>4. \A k, j : InBucket(k, j)' <=> InBucket(k, j)
  BY DEF InBucket
<1>5. \A k, j : InBucket(k, j) <=> k \in first(j) .. last(j)
  BY DEF InBucket
<1>6. \A j \in captured[s] : first(j)' = first(j)
  OBVIOUS
<1> HIDE DEF first, last
<1>7. n = first(i) + offset[s]
      /\ captured'[s] = (IF n = last(i) THEN captured[s] \ {i} ELSE captured[s])
      /\ offset'[s] = (IF n = last(i) THEN 0 ELSE offset[s] + 1)
  BY DEF first, last
<1>8. \A k : ToCome(s, k) <=> \E j \in captured[s] :
                                k \in first(j) .. last(j) /\ (j = i => k >= n)
  <2>1. \A k : ToCome(s, k) <=> \E j \in captured[s] :
                    k \in first(j) .. last(j) /\ (Front(s, j) => k >= first(j) + offset[s])
    BY <1>5 DEF ToCome, first
  <2> QED BY <1>3, <1>7, <2>1
<1>9. \A k : ToCome(s, k)' <=> \E j \in captured'[s] :
                    k \in first(j) .. last(j) /\ (Front(s, j)' => k >= first(j) + offset'[s])
  BY <1>4, <1>5 DEF ToCome, first
<1>10. ToCome(s, n) /\ \A k : ToCome(s, k) => n <= k
  <2>1. ToCome(s, n)
    BY <1>2, <1>8
  <2>2. ASSUME NEW k, ToCome(s, k) PROVE n <= k
    BY <1>2, <1>3, <1>8, <2>2
  <2> QED BY <2>1, <2>2
<1>11. ASSUME NEW k, ToCome(s, k)' PROVE ToCome(s, k) /\ k # n
  <2>1. PICK j \in captured'[s] :
          k \in first(j) .. last(j) /\ (Front(s, j)' => k >= first(j) + offset'[s])
    BY <1>9, <1>11
  <2>2. j \in captured[s]
    BY <2>1, <1>7
  <2>3. CASE j = i
    <3>1. n # last(i) /\ captured'[s] = captured[s] /\ offset'[s] = offset[s] + 1
      BY <2>1, <2>3, <1>7
    <3>2. Front(s, i)'
      BY <3>1 DEF Front
    <3>3. k >= n + 1 /\ k \in Nat
      BY <1>2, <1>7, <2>1, <2>2, <2>3, <3>1, <3>2
    <3> QED BY <1>2, <1>8, <2>1, <2>2, <2>3, <3>3
  <2>4. CASE j # i
    BY <1>2, <1>3, <1>8, <2>1, <2>2, <2>4
  <2> QED BY <2>3, <2>4
<1>12. ASSUME NEW k, ToCome(s, k), k # n PROVE ToCome(s, k)'
  <2>1. PICK j \in captured[s] : k \in first(j) .. last(j) /\ (j = i => k >= n)
    BY <1>8, <1>12
  <2>2. CASE j = i
    <3>1. k > n /\ n # last(i)
      BY <1>2, <1>12, <2>1, <2>2
    <3>2. j \in captured'[s] /\ k >= first(i) + offset'[s]
      BY <1>2, <1>7, <2>2, <3>1, <2>1
    <3> QED BY <1>9, <2>1, <2>2, <3>2
  <2>3. CASE j # i
    <3>1. j \in captured'[s]
      BY <1>7, <2>3
    <3>2. Front(s, j)' => offset'[s] = 0
      <4>1. CASE n = last(i)
        BY <4>1, <1>7
      <4>2. CASE n # last(i)
        <5>1. i \in captured'[s] /\ i < j
          BY <4>2, <1>3, <1>7, <2>3
        <5> QED BY <5>1, <1>2 DEF Front
      <4> QED BY <4>1, <4>2
    <3> QED BY <1>2, <1>9, <2>1, <3>1, <3>2
  <2> QED BY <2>2, <2>3
<1>13. n \in DOMAIN log
  BY <1>1, CapturedNumbers, UpdatesAre
<1> QED BY <1>10, <1>11, <1>12, <1>13 DEF Owed

LEMMA SendReplaySeen ==
    ASSUME NEW s, Feeding(s), SendReplay(s)
    PROVE  Streams!Replay(s) /\ FeedStream(s)'
<1>1. s \in Subscribers /\ IInv /\ PublisherInv /\ StreamTypes /\ FeedStream(s)
  BY DEF Feeding, FeedState, FeedInv, IInv
<1>2. /\ UNCHANGED <<log, replay, task, request, cursor, watermark, revision, filter, held>>
      /\ task[s] = "initial"
  BY DEF SendReplay, publisher, receiver
<1>3. ~Published(held[s]) /\ Delivered(s) = Given(s) /\ Delivered(s)' = Given(s)'
  BY <1>1, <1>2, NothingIsHeld DEF Given
<1>4. PICK i \in captured[s] :
        LET b == replay.pushed[i]
            n == b.first + offset[s]
        IN
        /\ i \in 1 .. Len(replay.pushed) /\ Front(s, i) /\ InBucket(n, i)
        /\ captured'[s] = IF n = b.last THEN captured[s] \ {i} ELSE captured[s]
        /\ offset'[s] = IF n = b.last THEN 0 ELSE offset[s] + 1
        /\ Given(s)' = Given(s) \union (IF Matches(filter[s], log[n]) THEN {n} ELSE {})
  BY <1>1, SendReplayGives
<1> DEFINE n == replay.pushed[i].first + offset[s]
<1>5. n \in Owed(s) /\ (\A k \in Owed(s) : n <= k) /\ Owed(s)' = Owed(s) \ {n}
  BY <1>1, <1>2, <1>4, OwedAfter
<1>6. n \in 1 .. Len(log) /\ log[n].scope = "block"
  <2>1. InBucket(n, i) /\ i \in 1 .. Len(replay.pushed)
    BY <1>4
  <2> HIDE DEF n
  <2> QED BY <2>1, <1>1, CapturedNumbers DEF InBucket, PublisherInv, WindowInv
<1>7. Delivered(s)' = Delivered(s) \union (IF Matches(filter[s], log[n]) THEN {n} ELSE {})
  BY <1>3, <1>4
<1> HIDE DEF n
<1>8. Updates[n].kind \in filter[s] /\ n \notin Covered(s) <=> Matches(filter[s], log[n])
  BY <1>1, <1>6, UpdatesAre DEF Matches, Covered
<1>9. Phase(s) = "open" /\ Phase(s)' = "open" /\ Position(s)' = Position(s)
  BY <1>2, <1>3 DEF Phase, Position, Reached, Larger
<1>10. Covered(s)' = Covered(s)
  BY <1>2 DEF Covered
<1>11. FeedStream(s)'
  BY <1>1, <1>2, <1>4 DEF FeedStream
<1>12. \A t \in Subscribers :
        Phase(t)' = Phase(t) /\ Position(t)' = Position(t) /\ Covered(t)' = Covered(t)
  BY <1>9, <1>10, OthersSeen DEF SameView
<1>13. /\ Updates' = Updates /\ filter' = filter
       /\ [t \in Subscribers |-> Owed(t)]'
            = [[t \in Subscribers |-> Owed(t)] EXCEPT ![s] = Owed(s) \ {n}]
       /\ [t \in Subscribers |-> Delivered(t)]'
            = [[t \in Subscribers |-> Delivered(t)] EXCEPT ![s] =
                IF Updates[n].kind \in filter[s] /\ n \notin Covered(s)
                THEN Delivered(s) \union {n} ELSE Delivered(s)]
  <2>1. Delivered(s)' = IF Updates[n].kind \in filter[s] /\ n \notin Covered(s)
                        THEN Delivered(s) \union {n} ELSE Delivered(s)
    BY <1>7, <1>8
  <2> QED BY <1>2, <1>5, <2>1, ViewMoves
<1>14. request' = request /\ OldestKept' = OldestKept
  BY <1>2, ViewMoves
<1>15. Streams!Replay(s)
  BY <1>1, <1>5, <1>9, <1>12, <1>13, <1>14 DEF Streams!Replay, Streams!Pass, Streams!Wanted
<1> QED BY <1>11, <1>15

\* An update that is passed over, or put into the channel: the stream has followed one more.
LEMMA FollowsOne ==
    ASSUME NEW s, Feeding(s), replay' = replay, Phase(s) = "open", Phase(s)' = "open",
           Owed(s) = {}, Owed(s)' = {}, Covered(s)' = Covered(s), filter' = filter,
           NEW n \in 1 .. Len(log), Position(s) + 1 = n, Position(s) \in Int, Position(s)' = n,
           Delivered(s)' = IF Matches(filter[s], log[n]) /\ n \notin Covered(s)
                           THEN Delivered(s) \union {n} ELSE Delivered(s)
    PROVE  Streams!Follow(s)
<1>1. s \in Subscribers /\ PublisherInv
  BY DEF Feeding, FeedState, IInv
<1>2. Updates[n].kind \in filter[s] <=> Matches(filter[s], log[n])
  BY <1>1, UpdatesAre DEF Matches
<1>3. Position(s) < Len(Updates)
  BY <1>1, UpdatesAre
<1>4. \A t \in Subscribers :
        Phase(t)' = Phase(t) /\ Owed(t)' = Owed(t) /\ Covered(t)' = Covered(t)
  BY OthersSeen DEF SameView
<1>5. /\ Updates' = Updates
      /\ [t \in Subscribers |-> Position(t)]'
            = [[t \in Subscribers |-> Position(t)] EXCEPT ![s] = Position(s) + 1]
      /\ [t \in Subscribers |-> Delivered(t)]'
            = [[t \in Subscribers |-> Delivered(t)] EXCEPT ![s] =
                IF /\ Updates[Position(s) + 1].kind \in filter[s]
                   /\ Position(s) + 1 \notin Covered(s)
                THEN Delivered(s) \union {Position(s) + 1} ELSE Delivered(s)]
  <2>1. Delivered(s)' = IF /\ Updates[Position(s) + 1].kind \in filter[s]
                           /\ Position(s) + 1 \notin Covered(s)
                        THEN Delivered(s) \union {Position(s) + 1} ELSE Delivered(s)
    BY <1>2
  <2>2. Position(s)' = Position(s) + 1
    OBVIOUS
  <2> QED BY <2>1, <2>2, ViewMoves
<1>6. request' = request /\ OldestKept' = OldestKept
  BY ViewMoves
<1> QED BY <1>1, <1>3, <1>4, <1>5, <1>6 DEF Streams!Follow, Streams!Pass, Streams!Wanted

\* An update received is one the replay held, or the next one; the next one is passed over
\* or waited with.
LEMMA ReceiveLiveSeen ==
    ASSUME NEW s, Feeding(s), ReceiveLive(s)
    PROVE  (Streams!Follow(s) \/ Streams!Forget) /\ FeedStream(s)'
<1> DEFINE n == cursor[s] + 1
           m == log[n]
           known == request[s].snapshot /\ m.scope = "mempool" /\ m.rev <= revision[s]
           wanted == ~known /\ Matches(filter[s], m)
<1>1. s \in Subscribers /\ IInv /\ PublisherInv /\ StreamTypes /\ StreamInv(s) /\ FeedStream(s)
  BY DEF Feeding, FeedState, FeedInv, IInv
<1>2. UNCHANGED <<log, replay, request, revision, captured, offset, filter, stream>>
  BY DEF ReceiveLive, publisher, opening, channel
<1>3. /\ task[s] = "live" /\ cursor[s] < sent /\ cursor' = [cursor EXCEPT ![s] = n]
      /\ \/ m.seq <= watermark[s] /\ UNCHANGED <<watermark, held, task>>
         \/ /\ ~(m.seq <= watermark[s]) /\ watermark' = [watermark EXCEPT ![s] = m.seq]
            /\ \/ ~wanted /\ UNCHANGED <<held, task>>
               \/ /\ wanted /\ held' = [held EXCEPT ![s] = m]
                  /\ task' = [task EXCEPT ![s] = "reserve"]
  BY DEF ReceiveLive
<1>4. ~Published(held[s]) /\ captured[s] = {}
  BY <1>1, <1>3, NothingIsHeld DEF StreamInv, Active, Seam
<1>5. /\ cursor[s] \in Nat /\ watermark[s] \in Nat /\ n \in Nat
      /\ n \in 1 .. Len(log) /\ m.seq = n /\ Published(m) /\ cursor'[s] = n
      /\ DOMAIN log = 1 .. Len(log)
  <2>1. cursor[s] \in Nat /\ watermark[s] \in Nat /\ sent \in Nat /\ sent <= Len(log)
        /\ Len(log) \in Nat /\ DOMAIN log = 1 .. Len(log)
    BY <1>1, StreamNumbers, PublisherNumbers, UpdatesAre
  <2>2. n \in Nat /\ n \in 1 .. Len(log)
    BY <1>3, <2>1
  <2>3. cursor'[s] = n
    BY <1>1, <1>3 DEF StreamTypes
  <2> QED BY <1>1, <2>1, <2>2, <2>3 DEF PublisherInv, LogInv, Published
<1> HIDE DEF m
<1>6. Owed(s) = {} /\ Owed(s)' = {} /\ Covered(s)' = Covered(s) /\ Delivered(s)' = Delivered(s)
  BY <1>2, <1>4 DEF Owed, ToCome, Covered, Delivered
<1>7. Phase(s) = "open" /\ Position(s) = Reached(s)
  BY <1>3, <1>4 DEF Phase, Position
<1>8. n \in Covered(s) <=> known
  BY <1>5 DEF Covered, m
<1>9. CASE m.seq <= watermark[s] /\ UNCHANGED <<watermark, held, task>>
  <2>1. Reached(s)' = Reached(s)
    BY <1>5, <1>9 DEF Reached, Larger
  <2>2. SameView(s)
    BY <1>2, <1>4, <1>6, <1>7, <1>9, <2>1 DEF SameView, Phase, Position
  <2>3. FeedStream(s)'
    BY <1>1, <1>2, <1>4, <1>9 DEF FeedStream
  <2> QED BY <2>2, <2>3, Unseen
<1>10. CASE ~(m.seq <= watermark[s]) /\ watermark' = [watermark EXCEPT ![s] = m.seq]
  <2>1. watermark'[s] = n /\ watermark[s] < n
    BY <1>1, <1>5, <1>10 DEF StreamTypes
  <2>2. Reached(s) = n - 1 /\ Reached(s)' = n
    BY <1>5, <2>1 DEF Reached, Larger
  <2>3. CASE ~wanted /\ UNCHANGED <<held, task>>
    <3>1. Phase(s)' = "open" /\ Position(s)' = n
      BY <1>3, <1>4, <2>2, <2>3 DEF Phase, Position
    <3>2. ~(Matches(filter[s], log[n]) /\ n \notin Covered(s))
      BY <1>8, <2>3 DEF m
    <3>3. Position(s) \in Int /\ Position(s) + 1 = n
      BY <1>5, <1>7, <2>2
    <3>4. Streams!Follow(s)
      BY <1>2, <1>5, <1>6, <1>7, <3>1, <3>2, <3>3, FollowsOne
    <3>5. FeedStream(s)'
      BY <1>1, <1>2, <1>4, <2>3 DEF FeedStream
    <3> QED BY <3>4, <3>5
  <2>4. CASE wanted /\ held' = [held EXCEPT ![s] = m] /\ task' = [task EXCEPT ![s] = "reserve"]
    <3>1. held'[s] = m /\ task'[s] = "reserve"
      BY <1>1, <2>4 DEF StreamTypes
    <3>2. Phase(s)' = "open" /\ Position(s)' = n - 1
      BY <1>5, <3>1 DEF Phase, Position
    <3>3. SameView(s)
      BY <1>2, <1>6, <1>7, <2>2, <3>2 DEF SameView
    <3>4. FeedStream(s)'
      <4>1. n \notin Covered(s)'
        BY <1>6, <1>8, <2>4
      <4>2. Matches(filter'[s], held'[s])
        BY <1>2, <2>4, <3>1 DEF Matches, m
      <4>3. WaitedWith(s)'
        BY <1>2, <1>5, <2>2, <3>1, <4>1, <2>4 DEF WaitedWith, m, Matches
      <4> QED BY <1>1, <1>2, <3>1, <4>3 DEF FeedStream
    <3> QED BY <3>3, <3>4, Unseen
  <2> QED BY <1>3, <1>10, <2>3, <2>4
<1> QED BY <1>3, <1>9, <1>10

\* The message that was waited with goes out under the filter that let it through.
LEMMA SendHeldSeen ==
    ASSUME NEW s, Feeding(s), SendHeld(s)
    PROVE  /\ Streams!Follow(s) \/ Streams!End(s) \/ Streams!Forget
           /\ FeedStream(s)'
<1>1. s \in Subscribers /\ IInv /\ PublisherInv /\ StreamTypes /\ StreamInv(s) /\ FeedStream(s)
  BY DEF Feeding, FeedState, FeedInv, IInv
<1>2. /\ UNCHANGED <<log, replay, request, cursor, watermark, revision, captured, offset, filter, read>>
      /\ task[s] = "reserve" /\ HasRoom(s) /\ Put(s, held[s])
      /\ held' = [held EXCEPT ![s] = Nothing]
      /\ task' = [task EXCEPT ![s] = IF held[s].scope = "invalid_filter" THEN "closed" ELSE "live"]
  BY DEF SendHeld, publisher, receiver, opening
<1>3. /\ held'[s] = Nothing /\ ~Published(Nothing)
      /\ task'[s] = IF held[s].scope = "invalid_filter" THEN "closed" ELSE "live"
  BY <1>1, <1>2 DEF StreamTypes, Nothing, Marker, Message, Published
<1>4. Given(s)' = Given(s)
  BY <1>1, <1>2, <1>3, PutHeld DEF StreamInv
<1>5. Delivered(s)' = Delivered(s) \union (IF Published(held[s]) THEN {held[s].seq} ELSE {})
  BY <1>3, <1>4 DEF Given
<1>6. captured[s] = {} /\ Phase(s) = "open"
  BY <1>1, <1>2 DEF StreamInv, Active, Seam, Phase
<1>7. Owed(s) = {} /\ Owed(s)' = {} /\ Covered(s)' = Covered(s) /\ Reached(s)' = Reached(s)
  BY <1>2, <1>6 DEF Owed, ToCome, Covered, Reached, Larger
<1>8. FeedStream(s)'
  BY <1>1, <1>2, <1>3 DEF FeedStream
<1>9. CASE Published(held[s])
  <2>1. WaitedWith(s) /\ held[s].scope # "invalid_filter"
    BY <1>1, <1>2, <1>9 DEF FeedStream, Published
  <2>2. PICK n \in 1 .. Len(log) :
          /\ n = held[s].seq /\ log[n] = held[s] /\ Reached(s) = n
          /\ Matches(filter[s], log[n]) /\ n \notin Covered(s)
    BY <2>1 DEF WaitedWith
  <2>3. Phase(s)' = "open" /\ Position(s)' = n /\ Position(s) = n - 1
    BY <1>3, <1>6, <1>7, <1>9, <2>1, <2>2 DEF Phase, Position
  <2>4. Position(s) \in Int /\ Position(s) + 1 = n
    BY <2>2, <2>3, <1>1, PublisherNumbers
  <2> QED BY <1>2, <1>5, <1>6, <1>7, <1>8, <1>9, <2>2, <2>3, <2>4, FollowsOne
<1>10. CASE ~Published(held[s])
  <2>1. Delivered(s)' = Delivered(s)
    BY <1>5, <1>10
  <2>2. CASE held[s].scope = "invalid_filter"
    <3>1. Phase(s)' = "ended"
      BY <1>3, <2>2 DEF Phase
    <3>2. Position(s)' = Position(s)
      BY <1>3, <1>6, <1>7, <1>10, <3>1 DEF Position
    <3> QED BY <1>2, <1>6, <1>7, <1>8, <2>1, <3>1, <3>2, Ended
  <2>3. CASE held[s].scope # "invalid_filter"
    <3>1. Phase(s)' = "open"
      BY <1>3, <2>3 DEF Phase
    <3>2. Position(s)' = Position(s)
      BY <1>3, <1>6, <1>7, <1>10, <3>1 DEF Position
    <3>3. SameView(s)
      BY <1>2, <1>6, <1>7, <2>1, <3>1, <3>2 DEF SameView
    <3> QED BY <1>8, <3>3, Unseen
  <2> QED BY <2>2, <2>3
<1> QED BY <1>9, <1>10

\* Lagging and cancellation end the stream.
LEMMA EndSeen ==
    ASSUME NEW s, Feeding(s), Lagged(s) \/ Cancelled(s)
    PROVE  Streams!End(s) /\ FeedStream(s)'
<1>1. s \in Subscribers /\ IInv /\ StreamTypes /\ FeedStream(s)
  BY DEF Feeding, FeedState, FeedInv, IInv
<1>2. /\ UNCHANGED <<replay, request, cursor, watermark, revision, captured, offset, filter, held, read>>
      /\ task[s] \in {"initial", "live", "reserve"} /\ task'[s] = "closed"
  BY <1>1 DEF Lagged, Cancelled, publisher, receiver, opening, channel, StreamTypes
<1>3. Phase(s) = "open" /\ Phase(s)' = "ended"
  BY <1>2 DEF Phase
<1>4. Owed(s)' = Owed(s) /\ Covered(s)' = Covered(s)
  BY <1>2, ViewStays
<1>5. Position(s)' = Position(s)
  BY <1>2, <1>3 DEF Position, Reached, Larger
<1>6. Delivered(s)' = Delivered(s)
  <2>1. CASE Cancelled(s)
    BY <2>1 DEF Cancelled, channel, Delivered
  <2>2. CASE Lagged(s)
    <3>1. task[s] = "live" /\ ((HasRoom(s) /\ Put(s, Marker("lagged", 0))) \/ UNCHANGED stream)
      BY <2>2 DEF Lagged
    <3>2. Marker("lagged", 0) \in Messages /\ ~Published(Marker("lagged", 0))
      BY DEF Marker, Message, Messages, Published
    <3> QED BY <1>1, <1>2, <3>1, <3>2, OwnMessage
  <2> QED BY <2>1, <2>2
<1>7. FeedStream(s)'
  BY <1>1, <1>2 DEF FeedStream
<1> QED BY <1>2, <1>3, <1>4, <1>5, <1>6, <1>7, Ended

LEMMA ReplaceFilterSeen ==
    ASSUME NEW s, Feeding(s), ReplaceFilter(s)
    PROVE  Streams!ReplaceFilter(s) /\ FeedStream(s)'
<1>1. s \in Subscribers /\ IInv /\ StreamTypes /\ StreamInv(s) /\ FeedStream(s)
  BY DEF Feeding, FeedState, FeedInv, IInv
<1>2. /\ UNCHANGED <<replay, task, request, cursor, watermark, revision, captured, offset, held, stream>>
      /\ task[s] = "live"
  BY DEF ReplaceFilter, publisher, receiver, opening, channel
<1>3. \E f \in SUBSET {"block", "mempool"} : filter' = [filter EXCEPT ![s] = f]
  BY ServerAssumption DEF ReplaceFilter
<1>4. ~Published(held[s]) /\ captured[s] = {} /\ Phase(s) = "open" /\ Phase(s)' = Phase(s)
  BY <1>1, <1>2, NothingIsHeld DEF StreamInv, Active, Seam, Phase
<1>5. Owed(s)' = Owed(s) /\ Covered(s)' = Covered(s) /\ Owed(s) = {}
  BY <1>2, <1>4, ViewStays DEF Owed, ToCome
<1>6. Position(s)' = Position(s) /\ Delivered(s)' = Delivered(s)
  BY <1>2, <1>4 DEF Position, Reached, Larger, Delivered
<1>7. FeedStream(s)'
  BY <1>1, <1>2, <1>4 DEF FeedStream
<1>8. \A t \in Subscribers :
        /\ Phase(t)' = Phase(t) /\ Owed(t)' = Owed(t) /\ Position(t)' = Position(t)
        /\ Covered(t)' = Covered(t) /\ Delivered(t)' = Delivered(t)
  BY <1>4, <1>5, <1>6, OthersSeen DEF SameView
<1>9. Streams!ReplaceFilter(s)
  BY <1>1, <1>2, <1>3, <1>4, <1>5, <1>8, ViewMoves DEF Streams!ReplaceFilter
<1> QED BY <1>7, <1>9

-----------------------------------------------------------------------------
\* The publisher's steps.
LEMMA PublisherSeen ==
    ASSUME FeedState, PublisherInv', Grown, replay.popped <= replay'.popped,
           UNCHANGED <<request, filter>>, \A s \in Subscribers : SameView(s)
    PROVE  /\ OldestKept' = OldestKept => Streams!Publish
           /\ UNCHANGED log => Streams!Forget
<1>1. PublisherInv
  BY DEF FeedState, IInv
<1>2. /\ Len(Updates) = Len(log) /\ DOMAIN Updates = 1 .. Len(log)
      /\ DOMAIN log = 1 .. Len(log) /\ Len(log) \in Nat
  BY <1>1, UpdatesAre
<1>3. Len(Updates') = Len(log') /\ Len(log') \in Nat /\ DOMAIN log' = 1 .. Len(log')
  <2>1. /\ log' \in Seq(Messages)
        /\ Updates' = [n \in DOMAIN log' |-> [kind |-> EventTypeOf(log'[n]), height |-> log'[n].height]]
    BY DEF PublisherInv, PublisherTypes, Updates, EventTypeOf
  <2> QED BY <2>1, SeenAre
<1>4. Len(Updates) <= Len(Updates')
  BY <1>2, <1>3 DEF Grown
<1>5. \A n \in 1 .. Len(log) : Updates'[n] = Updates[n]
  <2> TAKE n \in 1 .. Len(log)
  <2>1. log'[n] = log[n] /\ n \in DOMAIN log /\ n \in DOMAIN log'
    BY <1>2, <1>3 DEF Grown
  <2> QED BY <2>1 DEF Updates, EventTypeOf
<1>6. OldestKept' = OldestKept => Streams!Publish
  BY <1>2, <1>4, <1>5 DEF Streams!Publish, SameView
<1>7. ASSUME UNCHANGED log PROVE Streams!Forget
  <2>1. /\ OldestKept \in Nat /\ OldestKept' \in Nat /\ Numbered' \in Nat
        /\ OldestKept <= OldestKept' /\ OldestKept' <= Numbered' + 1
    BY <1>1, OldestMovesOn
  <2>2. Numbered' <= Len(log')
    BY <1>3 DEF Numbered, PublisherInv, PublisherTypes
  <2>3. Updates' = Updates
    BY <1>7 DEF Updates
  <2>4. OldestKept' \in OldestKept .. (Len(Updates) + 1)
    <3>1. Len(log') = Len(Updates) /\ Len(Updates) \in Nat
      BY <1>2, <1>7
    <3>2. \A a, b, c, n \in Nat : a <= b /\ b <= c + 1 /\ c <= n => b \in a .. (n + 1)
      OBVIOUS
    <3> QED BY <2>1, <2>2, <3>1, <3>2
  <2> QED BY <2>3, <2>4 DEF Streams!Forget, Streams!Forgets, SameView
<1> QED BY <1>6, <1>7

LEMMA StepSeen ==
    ASSUME NEW s, Feeding(s), ServerTask(s) \/ Control(s) \/ ClientRead(s)
    PROVE  [Streams!Next]_(Streams!vars) /\ FeedStream(s)'
<1>1. s \in Subscribers
  BY DEF Feeding
<1>2. CASE SnapshotReplay(s) \/ SnapshotMempool(s) \/ SendReplay(s) \/ ReceiveLive(s)
           \/ SendHeld(s) \/ Lagged(s) \/ Cancelled(s) \/ ReplaceFilter(s)
  <2>1. /\ FeedStream(s)'
        /\ \/ Streams!Forget
           \/ Streams!Open(s) \/ Streams!TakeSnapshot(s) \/ Streams!Replay(s)
           \/ Streams!Follow(s) \/ Streams!ReplaceFilter(s) \/ Streams!End(s)
    BY <1>2, SnapshotReplaySeen, SnapshotMempoolSeen, SendReplaySeen, ReceiveLiveSeen, SendHeldSeen,
       EndSeen, ReplaceFilterSeen
  <2> QED BY <1>1, <2>1 DEF Streams!Next
<1>3. CASE SubscribeLive(s) \/ SendInitial(s) \/ GoLive(s) \/ AnswerPing(s) \/ SendPing(s)
           \/ RejectFilter(s) \/ ClientRead(s)
  <2>1. SameView(s) /\ FeedStream(s)'
    BY <1>3, SubscribeLiveSeen, InitialSeen, PingSeen, ClientReadSeen
  <2> QED BY <2>1, Unseen DEF Streams!Next
<1> QED BY <1>2, <1>3 DEF ServerTask, Control

LEMMA FeedInductive_Init == Init => FeedInv /\ Streams!Init
<1> SUFFICES ASSUME Init PROVE FeedInv /\ Streams!Init
  OBVIOUS
<1> USE DEF Init
<1>1. FeedInv
  <2>1. Len(log) = 0 /\ ~Published(Nothing)
    BY DEF Nothing, Marker, Message, Published
  <2> QED BY <2>1 DEF FeedInv, Stamped, FeedStream
<1>2. Updates = <<>>
  <2>1. DOMAIN log = {}
    OBVIOUS
  <2>2. Updates = [n \in {} |-> [kind |-> EventTypeOf(log[n]), height |-> log[n].height]]
    BY <2>1 DEF Updates
  <2> QED BY <2>2
<1>3. OldestKept = 1
  BY DEF OldestKept, Retained, EmptyReplay, Numbered
<1>4. \A s \in Subscribers :
        /\ Phase(s) = "none" /\ Owed(s) = {} /\ Position(s) = 0 /\ Covered(s) = {}
        /\ Delivered(s) = {}
  BY DEF Phase, Owed, ToCome, Position, Covered, Delivered
<1> QED BY <1>1, <1>2, <1>3, <1>4 DEF Streams!Init

LEMMA FeedInductive_Next ==
    ASSUME FeedState, IInv', MempoolMirrorInv', [Next]_vars
    PROVE  FeedInv' /\ [Streams!Next]_(Streams!vars)
<1>1. /\ PublisherInv /\ PublisherInv' /\ MempoolGrown /\ mempool.revision \in Nat /\ IInv
      /\ MempoolInv /\ Stamped
  BY MempoolStep DEF FeedState, FeedInv, IInv, MempoolMirrorInv, PublisherInv, PublisherTypes
<1>2. replay.popped <= replay'.popped
  BY <1>1, FrontMovesOn
<1>3. CASE Publisher \/ UNCHANGED vars
  <2>1. Grown
    BY <1>1, <1>3, PublisherStep, PublisherStays DEF Publisher, vars
  <2>2. \A s \in Subscribers : Same(s)
    BY <1>3 DEF Publisher, vars, receiver, opening, channel, control, Same
  <2>3. \A s \in Subscribers : SameView(s) /\ FeedStream(s)'
    BY <1>1, <2>1, <2>2, ViewFrame
  <2>4. UNCHANGED <<request, filter>>
    BY <1>3 DEF Publisher, vars
  <2>5. Streams!Publish \/ Streams!Forget
    <3>1. CASE UNCHANGED log
      BY <1>1, <1>2, <2>1, <2>3, <2>4, <3>1, PublisherSeen
    <3>2. CASE PublishBlock \/ PublishMempool
      <4>1. /\ stage = "idle" /\ stage' = "replay" /\ UNCHANGED <<sent, replay>>
        BY <3>2 DEF PublishBlock, PublishMempool
      <4>2. sent = Len(log)
        BY <1>1, <4>1 DEF PublisherInv, PublisherTypes
      <4>3. OldestKept' = OldestKept
        BY <4>1, <4>2 DEF OldestKept, Numbered, Retained, Oldest
      <4> QED BY <1>1, <1>2, <2>1, <2>3, <2>4, <4>3, PublisherSeen
    <3> QED BY <1>3, <3>1, <3>2 DEF Publisher, PushReplay, SendLive, vars, publisher
  <2>6. Stamped'
    BY <1>1, <2>1, StampedStep
  <2> QED BY <2>3, <2>5, <2>6 DEF Streams!Next, FeedInv
<1>4. ASSUME NEW s \in Subscribers, ServerTask(s) \/ Control(s) \/ ClientRead(s)
      PROVE  FeedInv' /\ [Streams!Next]_(Streams!vars)
  <2>1. Stepped(s)
    BY <1>1, <1>4, SubscribeLiveStep, SnapshotReplayStep, SnapshotMempoolStep, SendInitialStep,
       SendReplayStep, GoLiveStep, ReceiveLiveStep, SendHeldStep, LaggedStep, ReplaceFilterStep,
       HoldStep, SendPingStep, CancelledStep, ClientReadStep
    DEF ServerTask, Control, Subscribing
  <2>2. UNCHANGED <<log, sent, stage, request>>
    BY <1>4 DEF ServerTask, Control, SubscribeLive, SnapshotReplay, SnapshotMempool, SendInitial,
                SendReplay, GoLive, ReceiveLive, SendHeld, Lagged, ReplaceFilter, AnswerPing,
                SendPing, RejectFilter, Cancelled, ClientRead, publisher
  <2>3. Feeding(s)
    BY <1>1, <1>2, <1>4, <2>1, <2>2 DEF Feeding
  <2>4. Stamped'
    BY <1>1, <2>1, StampedStep DEF Stepped
  <2>5. [Streams!Next]_(Streams!vars) /\ FeedStream(s)'
    BY <1>4, <2>3, StepSeen
  <2>6. \A t \in Subscribers \ {s} : FeedStream(t)'
    BY <2>3, OthersSeen
  <2> QED BY <2>4, <2>5, <2>6 DEF FeedInv
<1> QED BY <1>3, <1>4 DEF Next

\* Every stream of the server is a stream of Feed: whatever its publisher, other streams,
\* ring, window, channel and client do, it gives a subscriber that names a height all of the
\* window at that height and above, and then what was published after that, an update at a time and none left out, under
\* the filter in force when an update is passed or goes out, until it ends.  The mapping
\* counts an update that is waited with as not yet given: the filter cannot change under it.
THEOREM ImplementsFeed == Spec => FeedImplemented
<1>1. Spec => []MempoolMirrorInv
  <2>1. IInv /\ IInv' /\ MempoolMirrorInv /\ [Next]_vars => MempoolMirrorInv'
    BY MirrorInductive_Next
  <2> QED BY <2>1, MirrorInductive_Init, Inductive, PTL DEF Spec
<1>2. IInv /\ IInv' /\ MempoolMirrorInv /\ MempoolMirrorInv' /\ FeedInv /\ [Next]_vars
        => FeedInv' /\ [Streams!Next]_(Streams!vars)
  BY FeedInductive_Next DEF FeedState
<1> QED BY <1>1, <1>2, FeedInductive_Init, Inductive, PTL DEF Spec, FeedImplemented, Streams!Spec

-----------------------------------------------------------------------------
(***************************************************************************)
(* The publisher is not stopped by what it has to work on.  Its steps wait *)
(* for nothing but their stage, and for a state of the window that the     *)
(* eviction loop of push_batch reaches; likewise the snapshot of subscribe.*)
(* PublisherNeverWaits says it with ENABLED; here are the conditions       *)
(* themselves, the next window being quantified in place of replay'.       *)
(***************************************************************************)
PublisherCanGoOn ==
    \/ stage \in {"idle", "send"}
    \/ /\ stage = "replay"
       /\ LET m == log[sent + 1] IN \E after :
            IF m.scope = "block"
            THEN PushesTo(replay, Batch(m.height, "finalized", sent + 1, Len(log), 1), 0, after)
            ELSE HeightlessPushesTo(replay, 0, after)

SnapshotCanBeTaken == \E after : EvictsTo(replay, 0, after)

\* Neither publish_batch nor subscribe keeps the replay lock for ever: whatever the window
\* holds and whatever is pushed, its eviction loop ends, so that the node's event thread
\* and every subscriber get past it.
THEOREM ReplayLockIsReleased == Spec => [](PublisherCanGoOn /\ SnapshotCanBeTaken)
<1>1. IInv => SnapshotCanBeTaken
  BY EvictStops DEF IInv, PublisherInv, WindowInv, SnapshotCanBeTaken
<1>2. IInv => PublisherCanGoOn
  <2> DEFINE m == log[sent + 1]
             b == Batch(m.height, "finalized", sent + 1, Len(log), 1)
  <2> SUFFICES ASSUME IInv, stage = "replay"
               PROVE  \E after : IF m.scope = "block" THEN PushesTo(replay, b, 0, after)
                                 ELSE HeightlessPushesTo(replay, 0, after)
    BY DEF IInv, PublisherInv, PublisherTypes, PublisherCanGoOn
  <2>1. Sound(replay, {"finalized"})
    BY DEF IInv, PublisherInv, WindowInv
  <2>2. /\ Len(log) \in Nat /\ sent \in Nat /\ sent < Len(log) /\ m \in Messages
    BY PublisherNumbers DEF IInv
  <2>3. IsBatch(b, {"finalized"}) /\ b.item = "finalized"
    BY <2>2 DEF IsBatch, Batch, Messages
  <2>4. Sound(PushBack(replay, b, 0), {"finalized"})
    BY <2>1, <2>3, PushSound
  <2>5. \E after : EvictsTo(PushBack(replay, b, 0), 0, after)
    BY <2>4, EvictStops
  <2>6. \E after : EvictsTo(replay, 0, after)
    BY <2>1, EvictStops
  <2>7. CASE HeightCapacity = 0
    BY <2>7 DEF PushesTo, HeightlessPushesTo
  <2>8. CASE HeightCapacity # 0 /\ m.scope = "block"
    BY <2>5, <2>8 DEF PushesTo
  <2>9. CASE HeightCapacity # 0 /\ m.scope # "block"
    BY <2>6, <2>9 DEF HeightlessPushesTo
  <2> QED BY <2>7, <2>8, <2>9
<1> QED BY <1>1, <1>2, Inductive, PTL
=============================================================================
