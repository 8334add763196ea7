------------------------ MODULE ClientReconnect_proofs ------------------------
(***************************************************************************)
(* Proofs about the reconnecting client, for every window, finality depth, *)
(* retention, buffer, policy and number of outages: what it asks for is    *)
(* never invalid, the block it would resume from never moves back, and     *)
(* with the policies that recover missed data nothing is missed after it,  *)
(* nor without it if the buffer covers the node's reorganisations, and     *)
(* nothing is given twice if the retention covers what can be asked again. *)
(***************************************************************************)
EXTENDS ClientReconnect, ReplayService_proofs

CONSTANT EarlyLosses   \* connections lost before the client has a finalized block

Kinds == {"accepted", "best", "finalized"}
Blocks == [height : 1 .. MaxHeight, fork : Forks]
Anchors == Blocks \union {NoAnchor}
MaybeHeight == Nat \union {NoHeight}

(***************************************************************************)
(* What the client holds.  Every unfinalized block is above the finalized  *)
(* one, whatever was replayed to it.                                       *)
(***************************************************************************)
ChainStateTyped ==
    /\ checkpoint \in {NoHeight} \union 1 .. MaxHeight
    /\ finality \in Anchors
    /\ partial \subseteq Blocks
    /\ dedup \in Seq([height : Nat, keys : SUBSET (Nat \X Nat)])
    /\ Len(dedup) <= HeightRetention

PartialAboveFinality == \A b \in partial : b.height > finality.height

(***************************************************************************)
(* A request the client may make: it is not invalid, and if it asks for a  *)
(* replay at all, from the finalized block or from below it.               *)
(***************************************************************************)
Asks(a) ==
    /\ a \in [from : MaybeHeight, resume : Anchors, discarded : SUBSET Blocks, second : BOOLEAN]
    /\ Agrees(a)
    /\ ReplayHeight(a) # NoHeight => ReplayHeight(a) >= finality.height

(***************************************************************************)
(* What a connection will still deliver finalizes nothing below what the   *)
(* client knows to be final: the captured buckets are not below the height *)
(* asked for, and the later ones are above all that was finalized.         *)
(***************************************************************************)
FeedInv ==
    /\ feed \in [discarded : SUBSET Blocks, marked : BOOLEAN, captured : SUBSET Nat,
                 position : Nat, kinds : SUBSET Kinds]
    /\ feed.position <= Len(replay.pushed)
    /\ feed.captured \subseteq 1 .. feed.position
    /\ \A i \in feed.captured \union ((feed.position + 1) .. Len(replay.pushed)) :
        Final(replay.pushed[i]) => replay.pushed[i].height >= finality.height

LinkInv ==
    /\ link \in {"new", "up", "down", "ended"}
    /\ ended \in {"no", "unavailable", "out_of_range", "failed_precondition"}
    /\ link = "ended" <=> ended # "no"
    /\ attempt \in 0 .. (MaxRetries + 1)
    /\ link = "new" => finality = NoAnchor
    /\ link = "up" => FeedInv
    /\ link = "down" => Asks(ask) /\ attempt <= MaxRetries

ClientInv ==
    /\ Running
    /\ reply.op = "none"
    /\ session \in Nat
    /\ current \in [from : MaybeHeight, kinds : SUBSET Kinds]
    /\ ChainStateTyped
    /\ PartialAboveFinality
    /\ finality.height <= finalized
    /\ LinkInv

-----------------------------------------------------------------------------
\* What a bucket of the window is about.
LEMMA ItemTyped ==
    ASSUME NEW item \in Items
    PROVE  item.kind \in Kinds /\ item.fork \in Forks /\ item.from \in Nat
<1>1. ASSUME NEW kind \in Kinds, NEW fork \in Forks, item = Item(kind, fork)
      PROVE  item.kind \in Kinds /\ item.fork \in Forks /\ item.from \in Nat
  BY <1>1 DEF Item
<1>2. ASSUME NEW from \in 1 .. MaxHeight, item = Reset(from)
      PROVE  item.kind \in Kinds /\ item.fork \in Forks /\ item.from \in Nat
  BY <1>2, ChainAssumption DEF Reset, Kinds, Forks
<1>3. (\E kind \in Kinds, fork \in Forks : item = Item(kind, fork))
      \/ (\E from \in 1 .. MaxHeight : item = Reset(from))
  BY DEF Items, EventItems, Kinds
<1> QED BY <1>1, <1>2, <1>3

LEMMA BucketTyped ==
    ASSUME Running, NEW i \in 1 .. Len(replay.pushed)
    PROVE  /\ replay.pushed[i].height \in 1 .. MaxHeight
           /\ replay.pushed[i].item.kind \in Kinds
           /\ replay.pushed[i].item.fork \in Forks
           /\ replay.pushed[i].item.from \in Nat
<1>1. replay.pushed[i] \in BucketsOf(Items)
  BY ElementOfSeq DEF Running, OrderInv, Sound, Typed
<1>2. replay.pushed[i].item \in Items
  BY <1>1 DEF BucketsOf
<1> QED BY <1>2, ItemTyped DEF Running, OrderInv

\* No anchor is below all heights.
LEMMA AnchorHeight ==
    ASSUME NEW a \in Anchors
    PROVE  a.height \in 0 .. MaxHeight /\ (a # NoAnchor => a.height \in 1 .. MaxHeight)
BY ChainAssumption DEF Anchors, Blocks, NoAnchor

\* Blocks added above a height are blocks above it; a finalization leaves what is
\* above its own.
LEMMA FollowAbove ==
    ASSUME NEW b, b.height \in 1 .. MaxHeight, b.item.fork \in Forks, b.item.from \in Nat,
           NEW blocks \in SUBSET Blocks, NEW height \in Nat, \A x \in blocks : x.height > height
    PROVE  /\ Follow(blocks, b, height) \subseteq Blocks
           /\ \A x \in Follow(blocks, b, height) :
                x.height > IF Final(b) THEN b.height ELSE height
<1>1. CASE Final(b)
  <2>1. Follow(blocks, b, height) = {x \in blocks : x.height > b.height}
    BY <1>1 DEF Follow, Final
  <2> QED BY <1>1, <2>1
<1>2. CASE ~Final(b) /\ IsReset(b)
  <2>1. Follow(blocks, b, height) = WithPartial(blocks \ Disconnected(b), Connected(b), height)
    BY <1>2 DEF Follow, Final
  <2>2. \A x \in Connected(b) : x.height > height => x \in Blocks
    BY ChainAssumption DEF Connected, Block, Blocks, Forks
  <2> QED BY <1>2, <2>1, <2>2 DEF WithPartial
<1>3. CASE ~Final(b) /\ ~IsReset(b)
  <2>1. Follow(blocks, b, height) = WithPartial(blocks, {Block(b.height, b.item.fork)}, height)
    BY <1>3 DEF Follow, Final
  <2>2. Block(b.height, b.item.fork) \in Blocks
    BY DEF Block, Blocks
  <2> QED BY <1>3, <2>1, <2>2 DEF WithPartial
<1> QED BY <1>1, <1>2, <1>3

\* The deduplication stays within its retention.
LEMMA RecordedTyped ==
    ASSUME dedup \in Seq([height : Nat, keys : SUBSET (Nat \X Nat)]), Len(dedup) <= HeightRetention,
           session \in Nat, NEW i \in Nat, NEW height \in Nat
    PROVE  /\ Recorded(i, height) \in Seq([height : Nat, keys : SUBSET (Nat \X Nat)])
           /\ Len(Recorded(i, height)) <= HeightRetention
<1> DEFINE B == [height : Nat, keys : SUBSET (Nat \X Nat)]
           known == \E k \in DOMAIN dedup : dedup[k].height = height
           kept == [k \in DOMAIN dedup |->
                        IF dedup[k].height = height
                        THEN [dedup[k] EXCEPT !.keys = @ \union {Key(i)}] ELSE dedup[k]]
           more == Append(dedup, [height |-> height, keys |-> {Key(i)}])
           added == IF known THEN kept ELSE more
<1>0. dedup \in Seq(B)
  OBVIOUS
<1>1. Key(i) \in Nat \X Nat
  BY DEF Key
<1>2. kept \in Seq(B) /\ Len(kept) = Len(dedup)
  <2>1. Len(dedup) \in Nat /\ DOMAIN dedup = 1 .. Len(dedup) /\ \A k \in DOMAIN dedup : dedup[k] \in B
    <3> HIDE DEF B
    <3> QED BY <1>0
  <2>2. ASSUME NEW k \in DOMAIN dedup PROVE kept[k] \in B
    <3>1. dedup[k] \in B /\ dedup[k].keys \union {Key(i)} \in SUBSET (Nat \X Nat)
      BY <1>1, <2>1
    <3>2. [dedup[k] EXCEPT !.keys = @ \union {Key(i)}] \in B
      BY <3>1
    <3> QED BY <3>1, <3>2
  <2>3. DOMAIN kept = 1 .. Len(dedup) /\ kept = [k \in 1 .. Len(dedup) |-> kept[k]]
    BY <2>1
  <2> QED BY <2>1, <2>2, <2>3
<1>3. more \in Seq(B) /\ Len(more) = Len(dedup) + 1
  <2>1. [height |-> height, keys |-> {Key(i)}] \in B
    BY <1>1
  <2> HIDE DEF B
  <2> QED BY <1>0, <2>1, AppendProperties
<1>4. Recorded(i, height) = IF Len(added) > HeightRetention THEN Tail(added) ELSE added
  BY DEF Recorded
<1>5. added \in Seq(B) /\ Len(added) <= HeightRetention + 1
  <2> HIDE DEF B, kept, more, known
  <2> QED BY <1>0, <1>2, <1>3, ClientAssumption, LenProperties
<1> HIDE DEF added
<1>6. CASE Len(added) > HeightRetention
  <2>1. added # <<>>
    BY <1>6, ClientAssumption
  <2>2. Tail(added) \in Seq(B) /\ Len(Tail(added)) = Len(added) - 1
    BY <1>5, <2>1, HeadTailProperties
  <2> QED BY <1>4, <1>5, <1>6, <2>2, ClientAssumption, LenProperties
<1> QED BY <1>4, <1>5, <1>6, ClientAssumption, LenProperties

-----------------------------------------------------------------------------
\* What the client makes of one update: its chain state keeps its type, the finalized
\* block stays or is that of the update, and the unfinalized ones stay above it.
LEMMA HandleKeeps ==
    ASSUME ClientInv, NEW i \in 1 .. Len(replay.pushed), HandleUpdate(i), session' = session
    PROVE  /\ ChainStateTyped' /\ PartialAboveFinality'
           /\ finality' # finality =>
                Final(replay.pushed[i]) /\ finality'.height = replay.pushed[i].height
<1> DEFINE b == replay.pushed[i]
<1>1. /\ b.height \in 1 .. MaxHeight /\ b.item.fork \in Forks /\ b.item.from \in Nat
      /\ MaxHeight \in Nat
  BY BucketTyped, ChainAssumption DEF ClientInv
<1>2. /\ finality \in Anchors /\ finality.height \in Nat /\ partial \in SUBSET Blocks
      /\ \A x \in partial : x.height > finality.height
  BY <1>1, AnchorHeight DEF ClientInv, ChainStateTyped, PartialAboveFinality
<1>3. CASE b.item.kind \notin feed.kinds
  BY <1>3 DEF HandleUpdate, chainState, ClientInv, ChainStateTyped, PartialAboveFinality
<1>4. CASE b.item.kind \in feed.kinds
  <2>1. /\ finality' = IF Final(b) THEN Block(b.height, b.item.fork) ELSE finality
        /\ partial' = Follow(partial, b, finality.height)
        /\ checkpoint' = b.height
    BY <1>4 DEF HandleUpdate, Observe, Final
  <2>2. dedup' = dedup \/ dedup' = Recorded(i, b.height)
    BY <1>4 DEF HandleUpdate
  <2> HIDE DEF b
  <2>3. /\ Block(b.height, b.item.fork) \in Blocks
        /\ Block(b.height, b.item.fork).height = b.height
    BY <1>1 DEF Block, Blocks
  <2>4. /\ partial' \subseteq Blocks
        /\ \A x \in partial' : x.height > IF Final(b) THEN b.height ELSE finality.height
    <3>1. \A x \in partial : x.height > finality.height
      BY <1>2
    <3>2. /\ Follow(partial, b, finality.height) \subseteq Blocks
          /\ \A x \in Follow(partial, b, finality.height) :
                x.height > IF Final(b) THEN b.height ELSE finality.height
      BY <1>1, <1>2, <3>1, FollowAbove
    <3> QED BY <2>1, <3>2
  <2>5. /\ dedup' \in Seq([height : Nat, keys : SUBSET (Nat \X Nat)])
        /\ Len(dedup') <= HeightRetention
    <3>1. i \in Nat /\ b.height \in Nat
      BY <1>1, LenProperties DEF ClientInv, Running, OrderInv, Sound, Typed
    <3> QED BY <2>2, <3>1, RecordedTyped DEF ClientInv, ChainStateTyped
  <2>6. checkpoint' \in {NoHeight} \union 1 .. MaxHeight /\ finality' \in Anchors
    BY <1>1, <1>2, <2>1, <2>3 DEF Anchors
  <2>7. ChainStateTyped'
    BY <2>4, <2>5, <2>6 DEF ChainStateTyped
  <2>8. PartialAboveFinality'
    BY <2>1, <2>3, <2>4 DEF PartialAboveFinality
  <2> QED BY <2>1, <2>3, <2>7, <2>8 DEF b
<1> QED BY <1>3, <1>4

\* The first request of an outage.
LEMMA FirstAsk ==
    ASSUME ClientInv
    PROVE  Asks(Ask)
<1>1. /\ finality \in Anchors /\ finality.height \in Nat /\ checkpoint \in Int
      /\ current.from \in MaybeHeight /\ partial \in SUBSET Blocks /\ HeightBuffer \in Nat
      /\ NoAnchor \in Anchors /\ NoAnchor.height = 0
      /\ finality # NoAnchor => finality.height \in 1 .. MaxHeight
  BY AnchorHeight, ChainAssumption, ClientAssumption
     DEF ClientInv, ChainStateTyped, Anchors, NoAnchor, NoHeight, MaybeHeight
<1>2. Anchor \in Anchors
  BY <1>1 DEF Anchor
<1>3. LowerBy(checkpoint, HeightBuffer) \in Nat
  BY <1>1 DEF LowerBy
<1>4. Ask \in [from : MaybeHeight, resume : Anchors, discarded : SUBSET Blocks, second : BOOLEAN]
  BY <1>1, <1>2, <1>3, ChainAssumption DEF Ask, NoHeight, MaybeHeight
<1>5. /\ Ask.resume = Anchor
      /\ Anchor # NoAnchor => Ask.from = finality.height /\ Anchor = finality
      /\ SkipMissedData => Anchor = NoAnchor /\ Ask.from = NoHeight
      /\ ~SkipMissedData => Anchor = finality
      /\ Ask.discarded = IF Anchor = NoAnchor THEN {} ELSE partial
  BY DEF Ask, Anchor
<1>6. Agrees(Ask)
  BY <1>5 DEF Agrees, ClientInv, PartialAboveFinality
<1>7. ReplayHeight(Ask) # NoHeight => ReplayHeight(Ask) >= finality.height
  BY <1>1, <1>4, <1>5, ClientAssumption DEF ReplayHeight, NoHeight, MaybeHeight
<1> QED BY <1>4, <1>6, <1>7 DEF Asks

\* What a request opens, once it is let in.
LEMMA OpensSoundly ==
    ASSUME Running', NEW a \in [from : MaybeHeight, resume : Anchors, discarded : SUBSET Blocks,
                                second : BOOLEAN],
           NEW kinds \in SUBSET Kinds, feed' = Stream(a, kinds), finality'.height \in Nat,
           ReplayHeight(a) # NoHeight => ReplayHeight(a) >= finality'.height
    PROVE  FeedInv'
<1>1. /\ Len(replay'.pushed) \in Nat /\ replay'.popped \in Nat
      /\ \A i \in 1 .. Len(replay'.pushed) : replay'.pushed[i].height \in 1 .. MaxHeight
  BY LenProperties DEF Running, OrderInv, Sound, Typed
<1>2. /\ feed'.position = Len(replay'.pushed) /\ feed'.discarded = a.discarded
      /\ feed'.captured = IF ReplayHeight(a) = NoHeight THEN {} ELSE ReplayFrom(replay', ReplayHeight(a))
  BY DEF Stream
<1>3. feed'.captured \subseteq 1 .. Len(replay'.pushed)
  BY <1>1, <1>2 DEF ReplayFrom, Retained
<1>4. feed' \in [discarded : SUBSET Blocks, marked : BOOLEAN, captured : SUBSET Nat,
                 position : Nat, kinds : SUBSET Kinds]
  <2>1. feed'.captured \in SUBSET Nat
    BY <1>1, <1>3
  <2> QED BY <1>1, <1>2, <2>1 DEF Stream
<1>5. \A i \in feed'.captured : replay'.pushed[i].height >= finality'.height
  <2> TAKE i \in feed'.captured
  <2>1. /\ ReplayHeight(a) # NoHeight /\ replay'.pushed[i].height >= ReplayHeight(a)
        /\ replay'.pushed[i].height \in Nat
    BY <1>1, <1>2, <1>3, ChainAssumption DEF ReplayFrom
  <2>2. ReplayHeight(a) \in Int
    BY AnchorHeight DEF ReplayHeight, NoHeight, MaybeHeight
  <2> QED BY <2>1, <2>2
<1>6. (feed'.position + 1) .. Len(replay'.pushed) = {}
  BY <1>1, <1>2
<1> QED BY <1>1, <1>2, <1>3, <1>4, <1>5, <1>6 DEF FeedInv

-----------------------------------------------------------------------------
\* Initially.
LEMMA InitClientInv == ClientInit => ClientInv
<1> SUFFICES ASSUME ClientInit PROVE ClientInv
  OBVIOUS
<1>1. IInv /\ reply.op = "none"
  BY InitIInv DEF ClientInit, Init, NoReply
<1>2. ChainStateTyped /\ PartialAboveFinality
  BY ChainAssumption, ClientAssumption
     DEF ClientInit, ChainStateTyped, PartialAboveFinality, Anchors, NoHeight
<1>3. finality.height <= finalized
  BY DEF ClientInit, Init, NoAnchor
<1>4. LinkInv
  BY ClientAssumption DEF ClientInit, LinkInv
<1>5. current \in [from : MaybeHeight, kinds : SUBSET Kinds]
  BY DEF ClientInit, NoRequest, NoHeight, MaybeHeight
<1> QED BY <1>1, <1>2, <1>3, <1>4, <1>5 DEF ClientInv, IInv, ClientInit

\* An event of the node finalizes above what the client knows to be final.
LEMMA NodeClientInv ==
    ASSUME ClientInv, NodeEvent PROVE ClientInv'
<1>1. Running' /\ HistoryGrows /\ reply' = NoReply
  BY EventRunning DEF ClientInv, NodeEvent, EventLeaves
<1>2. UNCHANGED <<session, restarts, link, ended, feed, current, chainState, outage>>
  BY DEF NodeEvent, client
<1>3. /\ finality.height \in Nat /\ finalized \in Nat /\ finalized' \in Nat
      /\ finalized <= finalized' /\ finality.height <= finalized
      /\ Len(replay.pushed) \in Nat /\ Len(replay'.pushed) \in Nat
      /\ \A i \in 1 .. Len(replay'.pushed) : replay'.pushed[i].height \in Nat
  <2>1. finality.height \in Nat
    BY AnchorHeight, ChainAssumption DEF ClientInv, ChainStateTyped
  <2>2. Len(replay.pushed) \in Nat /\ Len(replay'.pushed) \in Nat
    BY <1>1, LenProperties DEF ClientInv, Running, OrderInv, Sound, Typed
  <2>3. finalized \in Nat /\ finalized' \in Nat
    BY <1>1, ChainAssumption DEF ClientInv, Running, NodeInv
  <2>4. \A i \in 1 .. Len(replay'.pushed) : replay'.pushed[i].height \in Nat
    BY <1>1, ChainAssumption DEF Running, OrderInv
  <2> QED BY <1>1, <2>1, <2>2, <2>3, <2>4 DEF ClientInv, HistoryGrows
<1>4. ASSUME FeedInv PROVE FeedInv'
  <2>1. ASSUME NEW i \in feed.captured \union ((feed.position + 1) .. Len(replay'.pushed)),
               Final(replay'.pushed[i])
        PROVE  replay'.pushed[i].height >= finality.height
    <3>1. CASE i \in 1 .. Len(replay.pushed)
      <4>1. i \in feed.captured \union ((feed.position + 1) .. Len(replay.pushed))
        BY <1>3, <1>4, <3>1 DEF FeedInv
      <4>2. replay'.pushed[i] = replay.pushed[i]
        BY <1>1, <3>1 DEF HistoryGrows
      <4> QED BY <1>4, <2>1, <4>1, <4>2 DEF FeedInv
    <3>2. CASE i \in (Len(replay.pushed) + 1) .. Len(replay'.pushed)
      <4>1. replay'.pushed[i].height > finalized
        BY <1>1, <2>1, <3>2 DEF HistoryGrows
      <4> QED BY <1>3, <3>2, <4>1
    <3> QED BY <1>3, <1>4, <3>1, <3>2 DEF FeedInv
  <2>2. feed' = feed /\ finality' = finality
    BY <1>2 DEF chainState
  <2>3. feed.position <= Len(replay'.pushed)
    BY <1>1, <1>3, <1>4 DEF FeedInv, HistoryGrows
  <2> QED BY <1>4, <2>1, <2>2, <2>3 DEF FeedInv
<1>5. LinkInv'
  BY <1>2, <1>4 DEF ClientInv, LinkInv, Asks, Agrees, ReplayHeight, chainState, outage
<1>6. ChainStateTyped' /\ PartialAboveFinality'
  BY <1>2 DEF ClientInv, ChainStateTyped, PartialAboveFinality, chainState
<1> QED BY <1>1, <1>2, <1>3, <1>5, <1>6 DEF ClientInv, NoReply, chainState

\* A connection is lost, to the network or to a restart of the node.
LEMMA LossClientInv ==
    ASSUME ClientInv, Disconnect \/ Restart PROVE ClientInv'
<1>1. UNCHANGED <<clock, node, reply, ended, current, chainState>>
  BY DEF Disconnect, Restart, server
<1>2. Running' /\ session' \in Nat
  <2>1. CASE Disconnect
    BY <2>1 DEF Disconnect, server, ClientInv, Running, NodeInv, OrderInv, node, Tip
  <2>2. CASE Restart
    <3>1. Sound(replay', Items) /\ replay'.pushed = <<>>
      BY <2>2, EmptySound DEF Restart, EmptyReplay
    <3>2. OrderInv'
      BY <3>1, ChainAssumption DEF OrderInv
    <3>3. NodeInv' /\ clock' \in 0 .. MaxTime
      BY <1>1 DEF ClientInv, Running, NodeInv, node, Tip
    <3> QED BY <2>2, <3>2, <3>3 DEF Restart, ClientInv, Running
  <2> QED BY <2>1, <2>2
<1>3. ChainStateTyped' /\ PartialAboveFinality' /\ finality'.height <= finalized'
  BY <1>1 DEF ClientInv, ChainStateTyped, PartialAboveFinality, chainState, node
<1>4. LinkInv'
  <2>1. CASE link = "up"
    <3>1. link' = "down" /\ ask' = Ask /\ attempt' = 0
      BY <2>1 DEF Disconnect, Restart, LoseConnection
    <3>2. Asks(ask')
      BY <3>1, FirstAsk
    <3>3. Asks(ask)'
      BY <1>1, <3>2 DEF Asks, Agrees, ReplayHeight, chainState
    <3> QED BY <1>1, <2>1, <3>1, <3>3, ClientAssumption DEF LinkInv, ClientInv
  <2>2. CASE link # "up"
    <3>1. UNCHANGED <<link, feed, outage>>
      BY <2>2 DEF Disconnect, Restart
    <3> QED BY <1>1, <2>2, <3>1
            DEF ClientInv, LinkInv, Asks, Agrees, ReplayHeight, chainState, outage
  <2> QED BY <2>1, <2>2
<1> QED BY <1>1, <1>2, <1>3, <1>4 DEF ClientInv

\* What an application kept: unfinalized blocks above a finalized one.
LEMMA KeptTyped ==
    ASSUME Running, NEW kept \in Kept
    PROVE  /\ kept.resume \in Anchors /\ kept.discarded \in SUBSET Blocks
           /\ kept.resume.height <= finalized
           /\ \A b \in kept.discarded : b.height > kept.resume.height
<1> DEFINE accepted(height) ==
            {Block(replay.pushed[i].height, replay.pushed[i].item.fork) :
                i \in {j \in Retained(replay) :
                        /\ replay.pushed[j].item.kind = "accepted"
                        /\ replay.pushed[j].height > height}}
           above(height) == {[resume |-> Block(height, best[height]), discarded |-> blocks] :
                                blocks \in SUBSET accepted(height)}
           nothing == [resume |-> NoAnchor, discarded |-> {}]
<1>1. finalized \in Nat /\ Tip \in Nat /\ Tip <= MaxHeight /\ finalized <= Tip
      /\ best \in [0 .. Tip -> Forks] /\ Len(replay.pushed) \in Nat /\ replay.popped \in Nat
      /\ MaxHeight \in Nat
  BY LenProperties, ChainAssumption DEF Running, NodeInv, OrderInv, Sound, Typed
<1>2. kept = nothing \/ \E height \in 1 .. finalized : kept \in above(height)
  BY DEF Kept
<1>3. CASE kept = nothing
  BY <1>1, <1>3 DEF Anchors, NoAnchor
<1>4. ASSUME NEW height \in 1 .. finalized, kept \in above(height)
      PROVE  /\ kept.resume \in Anchors /\ kept.discarded \in SUBSET Blocks
             /\ kept.resume.height <= finalized
             /\ \A b \in kept.discarded : b.height > kept.resume.height
  <2>1. PICK blocks \in SUBSET accepted(height) :
          kept = [resume |-> Block(height, best[height]), discarded |-> blocks]
    BY <1>4
  <2>2. Block(height, best[height]) \in Blocks /\ Block(height, best[height]).height = height
    BY <1>1 DEF Block, Blocks
  <2>3. ASSUME NEW b \in accepted(height) PROVE b \in Blocks /\ b.height > height
    <3>1. PICK i \in Retained(replay) : /\ replay.pushed[i].height > height
                                        /\ b = Block(replay.pushed[i].height, replay.pushed[i].item.fork)
      BY <2>3
    <3>2. i \in 1 .. Len(replay.pushed)
      BY <1>1 DEF Retained
    <3> QED BY <3>1, <3>2, BucketTyped DEF Block, Blocks
  <2> HIDE DEF accepted
  <2> QED BY <2>1, <2>2, <2>3 DEF Anchors
<1> HIDE DEF above, nothing
<1> QED BY <1>2, <1>3, <1>4

\* The first request of the application.
LEMMA OpenClientInv ==
    ASSUME ClientInv, Open PROVE ClientInv'
<1>1. PICK kept \in Kept, from \in {NoHeight, 1}, kinds \in Filters :
        LET a == [from |-> from, resume |-> kept.resume, discarded |-> kept.discarded, second |-> FALSE]
        IN
        /\ LetIn(a)
        /\ current' = [from |-> from, kinds |-> kinds]
        /\ checkpoint' = from
        /\ finality' = kept.resume
        /\ partial' = kept.discarded
        /\ feed' = Stream(a, kinds)
  BY DEF Open
<1> DEFINE a == [from |-> from, resume |-> kept.resume, discarded |-> kept.discarded, second |-> FALSE]
<1>2. /\ link' = "up" /\ link = "new"
      /\ UNCHANGED <<clock, node, reply, session, ended, dedup, attempt>>
  BY DEF Open, outage
<1>3. Running' /\ finalized' = finalized
  BY <1>1, <1>2, ReadKeeps DEF LetIn, ClientInv, node
<1>4. /\ kept.resume \in Anchors /\ kept.discarded \in SUBSET Blocks
      /\ kept.resume.height <= finalized
      /\ \A b \in kept.discarded : b.height > kept.resume.height
  BY KeptTyped DEF ClientInv
<1>5. /\ from \in MaybeHeight /\ kinds \in SUBSET Kinds
      /\ a.from = from /\ a.resume = kept.resume /\ a.discarded = kept.discarded
      /\ a \in [from : MaybeHeight, resume : Anchors, discarded : SUBSET Blocks, second : BOOLEAN]
  <2>1. from \in MaybeHeight /\ kinds \in SUBSET Kinds
    BY ClientAssumption DEF NoHeight, MaybeHeight, Kinds
  <2> QED BY <1>4, <2>1
<1>6. from \in {NoHeight} \union 1 .. MaxHeight
  <2>1. CASE from = NoHeight
    BY <2>1, ChainAssumption DEF NoHeight
  <2>2. CASE from # NoHeight /\ kept.resume # NoAnchor
    BY <1>1, <1>4, <2>2, AnchorHeight, ChainAssumption
  <2>3. CASE from # NoHeight /\ kept.resume = NoAnchor
    <3>1. HeightAvailable(replay', 1)
      BY <1>1, <1>5, <2>3 DEF LetIn, ReplayHeight, NoHeight
    <3>2. \E i \in Retained(replay') : replay'.pushed[i].height <= 1
      BY <1>3, <3>1, AvailableIsRetained DEF Running, OrderInv
    <3>3. PICK i \in 1 .. Len(replay'.pushed) : replay'.pushed[i].height <= 1
      BY <1>3, <3>2, LenProperties DEF Running, OrderInv, Sound, Typed, Retained
    <3>4. 1 <= MaxHeight
      BY <1>3, <3>3, ChainAssumption DEF Running, OrderInv
    <3> QED BY <1>1, <2>3, <3>4, ChainAssumption
  <2> QED BY <2>1, <2>2, <2>3
<1>7. ChainStateTyped' /\ PartialAboveFinality' /\ finality'.height <= finalized'
  BY <1>1, <1>2, <1>3, <1>4, <1>6 DEF ClientInv, ChainStateTyped, PartialAboveFinality
<1>8. FeedInv'
  <2>1. finality'.height \in Nat
    BY <1>1, <1>4, AnchorHeight, ChainAssumption
  <2>2. ReplayHeight(a) # NoHeight => ReplayHeight(a) >= finality'.height
    BY <1>1, <1>5, <2>1 DEF ReplayHeight, NoAnchor, NoHeight
  <2> HIDE DEF a
  <2> QED BY <1>1, <1>3, <1>5, <2>1, <2>2, OpensSoundly DEF a
<1>9. LinkInv'
  BY <1>2, <1>8 DEF ClientInv, LinkInv
<1>10. current' \in [from : MaybeHeight, kinds : SUBSET Kinds]
  BY <1>1, <1>5
<1> QED BY <1>2, <1>3, <1>7, <1>9, <1>10 DEF ClientInv

\* The server refuses the checkpoint or the height: the end, or one more request, which
\* is the refused one without its from_height.
LEMMA OutOfRangeKeeps ==
    ASSUME ClientInv, link = "down", OutOfRange(ask), Running',
           UNCHANGED <<node, reply, session, dedup>>
    PROVE  ClientInv'
<1>1. Asks(ask) /\ attempt <= MaxRetries
  BY DEF ClientInv, LinkInv
<1>2. CASE ~SkipToLive \/ ask.second
  <2>1. /\ link' = "ended" /\ ended' = "out_of_range"
        /\ UNCHANGED <<current, checkpoint, finality, partial, attempt>>
    BY <1>2 DEF OutOfRange, End
  <2>2. LinkInv'
    BY <2>1 DEF ClientInv, LinkInv
  <2> QED BY <2>1, <2>2 DEF ClientInv, ChainStateTyped, PartialAboveFinality, node
<1>3. CASE ~(~SkipToLive \/ ask.second)
  <2>1. /\ ask' = [ask EXCEPT !.from = NoHeight, !.second = TRUE]
        /\ attempt' = 0
        /\ current' = [current EXCEPT !.from = NoHeight]
        /\ checkpoint' = NoHeight /\ finality' = NoAnchor /\ partial' = {}
        /\ UNCHANGED <<link, ended>>
    BY <1>3 DEF OutOfRange
  <2>2. /\ ask' \in [from : MaybeHeight, resume : Anchors, discarded : SUBSET Blocks, second : BOOLEAN]
        /\ ask'.from = NoHeight /\ ask'.resume = ask.resume /\ ask'.discarded = ask.discarded
    BY <1>1, <2>1 DEF Asks, NoHeight, MaybeHeight
  <2>3. NoAnchor \in Anchors /\ NoAnchor.height = 0 /\ finalized' \in Nat
    BY ChainAssumption DEF Anchors, NoAnchor, Running, NodeInv
  <2>4. ReplayHeight(ask)' # NoHeight => ReplayHeight(ask)' >= finality'.height
    <3>1. ask'.resume.height \in 0 .. MaxHeight
      BY <2>2, AnchorHeight
    <3>2. ReplayHeight(ask)' = IF ask'.resume = NoAnchor THEN NoHeight ELSE ask'.resume.height
      BY <2>2 DEF ReplayHeight, NoHeight
    <3> QED BY <2>1, <2>3, <3>1, <3>2, ChainAssumption
  <2>5. Asks(ask)'
    <3>1. Agrees(ask)'
      BY <1>1, <2>2 DEF Asks, Agrees
    <3> QED BY <2>2, <2>4, <3>1 DEF Asks
  <2>6. LinkInv'
    BY <2>1, <2>5, ClientAssumption DEF ClientInv, LinkInv
  <2>7. ChainStateTyped' /\ PartialAboveFinality'
    BY <2>1, <2>3, ChainAssumption DEF ClientInv, ChainStateTyped, PartialAboveFinality, NoHeight
  <2>8. current' \in [from : MaybeHeight, kinds : SUBSET Kinds]
    BY <2>1 DEF ClientInv, NoHeight, MaybeHeight
  <2> QED BY <2>1, <2>3, <2>6, <2>7, <2>8 DEF ClientInv
<1> QED BY <1>2, <1>3

LEMMA ConnectClientInv ==
    ASSUME ClientInv, Connect PROVE ClientInv'
<1>1. link = "down" /\ UNCHANGED <<clock, node, reply, session, dedup>>
  BY DEF Connect
<1>2. Asks(ask) /\ attempt <= MaxRetries
  BY <1>1 DEF ClientInv, LinkInv
<1>3. ASSUME EvictsTo(replay, clock, replay') \/ UNCHANGED replay PROVE Running'
  BY <1>1, <1>3, ReadKeeps DEF ClientInv
<1>4. CASE /\ LetIn(ask) /\ link' = "up" /\ feed' = Stream(ask, current.kinds)
           /\ UNCHANGED <<ended, current, checkpoint, finality, partial, outage>>
  <2>1. Running'
    BY <1>3, <1>4 DEF LetIn
  <2>2. finality.height \in Nat
    BY AnchorHeight, ChainAssumption DEF ClientInv, ChainStateTyped
  <2>3. FeedInv'
    <3>1. /\ ask \in [from : MaybeHeight, resume : Anchors, discarded : SUBSET Blocks, second : BOOLEAN]
          /\ ReplayHeight(ask) # NoHeight => ReplayHeight(ask) >= finality'.height
      BY <1>2, <1>4 DEF Asks
    <3>2. current.kinds \in SUBSET Kinds
      BY DEF ClientInv
    <3> QED BY <1>4, <2>1, <2>2, <3>1, <3>2, OpensSoundly
  <2>4. LinkInv'
    BY <1>1, <1>4, <2>3 DEF ClientInv, LinkInv, outage
  <2> QED BY <1>1, <1>4, <2>1, <2>4 DEF ClientInv, ChainStateTyped, PartialAboveFinality, node
<1>5. CASE OutOfRange(ask) /\ (EvictsTo(replay, clock, replay') \/ UNCHANGED replay)
  BY <1>1, <1>3, <1>5, OutOfRangeKeeps
<1>6. CASE /\ Verified(ask) \in {"failed_precondition", "invalid_argument"}
           /\ End(Verified(ask))
           /\ UNCHANGED <<replay, feed, current, checkpoint, finality, partial, outage>>
  <2>1. Running'
    BY <1>3, <1>6
  <2>2. Verified(ask) # "invalid_argument"
    BY <1>2 DEF Verified, Asks, VerifyCheckpoint
  <2>3. link' = "ended" /\ ended' = "failed_precondition"
    BY <1>6, <2>2 DEF End
  <2>4. LinkInv'
    BY <1>6, <2>3 DEF ClientInv, LinkInv, outage
  <2> QED BY <1>1, <1>6, <2>1, <2>4 DEF ClientInv, ChainStateTyped, PartialAboveFinality, node
<1> QED BY <1>4, <1>5, <1>6 DEF Connect

\* What changes only the request, the attempts or the filter at the server.
LEMMA RequestClientInv ==
    ASSUME ClientInv, UpdateRequest \/ ReplaceFilter \/ ConnectFails PROVE ClientInv'
<1>1. UNCHANGED <<replay, clock, node, reply, session, chainState>>
  BY DEF UpdateRequest, ReplaceFilter, ConnectFails, server
<1>2. Running' /\ ChainStateTyped' /\ PartialAboveFinality' /\ finality'.height <= finalized'
  BY <1>1 DEF ClientInv, Running, NodeInv, OrderInv, ChainStateTyped, PartialAboveFinality,
              chainState, node, Tip
<1>3. CASE UpdateRequest
  <2>1. PICK kinds \in Filters : current' = [from |-> NoHeight, kinds |-> kinds]
    BY <1>3 DEF UpdateRequest
  <2>2. UNCHANGED <<link, ended, feed, outage>>
    BY <1>3 DEF UpdateRequest
  <2>3. LinkInv'
    BY <1>1, <2>2 DEF ClientInv, LinkInv, FeedInv, Asks, Agrees, ReplayHeight, outage, chainState
  <2>4. current' \in [from : MaybeHeight, kinds : SUBSET Kinds]
    BY <2>1, ClientAssumption DEF NoHeight, MaybeHeight, Kinds
  <2> QED BY <1>1, <1>2, <2>3, <2>4 DEF ClientInv
<1>4. CASE ReplaceFilter
  <2>1. /\ feed' = [feed EXCEPT !.kinds = current.kinds] /\ link = "up"
        /\ UNCHANGED <<link, ended, current, outage>>
    BY <1>4 DEF ReplaceFilter
  <2>2. FeedInv
    BY <2>1 DEF ClientInv, LinkInv
  <2>3. FeedInv'
    BY <1>1, <2>1, <2>2 DEF ClientInv, FeedInv, chainState
  <2>4. LinkInv'
    BY <1>1, <2>1, <2>3 DEF ClientInv, LinkInv, outage, chainState
  <2> QED BY <1>1, <1>2, <2>1, <2>4 DEF ClientInv
<1>5. CASE ConnectFails
  <2>1. /\ link = "down" /\ attempt' = attempt + 1 /\ UNCHANGED <<feed, current, ask>>
        /\ IF attempt = MaxRetries THEN link' = "ended" /\ ended' = "unavailable"
           ELSE UNCHANGED <<link, ended>>
    BY <1>5 DEF ConnectFails, End
  <2>2. Asks(ask)' /\ attempt \in 0 .. MaxRetries
    BY <1>1, <2>1, ClientAssumption
       DEF ClientInv, LinkInv, Asks, Agrees, ReplayHeight, chainState
  <2>3. LinkInv'
    BY <1>1, <2>1, <2>2, ClientAssumption DEF ClientInv, LinkInv, chainState
  <2> QED BY <1>1, <1>2, <2>1, <2>3 DEF ClientInv
<1> QED BY <1>3, <1>4, <1>5

\* An update, of the captured ones or a later one, is the least of those to come: it
\* leaves nothing to come that finalizes less.
LEMMA ReceiveClientInv ==
    ASSUME ClientInv, ReceiveReplay \/ ReceiveLive PROVE ClientInv'
<1>1. /\ link = "up" /\ FeedInv
      /\ UNCHANGED <<replay, clock, node, reply, session, link, ended, current, outage>>
  BY DEF ReceiveReplay, ReceiveLive, server, ClientInv, LinkInv
<1>2. Running'
  BY <1>1 DEF ClientInv, Running, NodeInv, OrderInv, node, Tip
<1> DEFINE coming == feed.captured \union ((feed.position + 1) .. Len(replay.pushed))
<1>3. Len(replay.pushed) \in Nat /\ coming \subseteq 1 .. Len(replay.pushed)
  BY <1>1, LenProperties DEF ClientInv, Running, OrderInv, Sound, Typed, FeedInv
<1>4. PICK i \in coming :
        /\ HandleUpdate(i)
        /\ \A j \in coming : i <= j
        /\ \/ feed' = [feed EXCEPT !.captured = @ \ {i}] /\ i \in feed.captured
           \/ feed' = [feed EXCEPT !.position = @ + 1] /\ feed.captured = {} /\ i = feed.position + 1
  <2>1. CASE ReceiveReplay
    <3>1. PICK i \in feed.captured : /\ \A j \in feed.captured : i <= j
                                     /\ HandleUpdate(i)
                                     /\ feed' = [feed EXCEPT !.captured = @ \ {i}]
      BY <2>1 DEF ReceiveReplay
    <3>2. i \in 1 .. feed.position /\ feed.position \in Nat
      BY <1>1, <3>1 DEF FeedInv
    <3>3. \A j \in coming : i <= j
      BY <1>3, <3>1, <3>2
    <3> QED BY <3>1, <3>3
  <2>2. CASE ReceiveLive
    <3>1. /\ feed.captured = {} /\ feed.position < Len(replay.pushed)
          /\ HandleUpdate(feed.position + 1)
          /\ feed' = [feed EXCEPT !.position = @ + 1]
      BY <2>2 DEF ReceiveLive
    <3>2. feed.position \in Nat
      BY <1>1 DEF FeedInv
    <3> QED BY <1>3, <3>1, <3>2
  <2> QED BY <2>1, <2>2
<1>5. i \in 1 .. Len(replay.pushed)
  BY <1>3
<1>6. /\ ChainStateTyped' /\ PartialAboveFinality'
      /\ finality' # finality =>
            Final(replay.pushed[i]) /\ finality'.height = replay.pushed[i].height
  BY <1>1, <1>4, <1>5, HandleKeeps
<1>7. finality'.height <= finalized'
  <2>1. CASE finality' = finality
    BY <1>1, <2>1 DEF ClientInv, node
  <2>2. CASE finality' # finality
    <3>1. replay.pushed[i].height \in 1 .. finalized
      BY <1>5, <1>6, <2>2 DEF ClientInv, Running, OrderInv
    <3> QED BY <1>1, <1>6, <2>2, <3>1, ChainAssumption DEF node, ClientInv, Running, NodeInv
  <2> QED BY <2>1, <2>2
<1>8. /\ feed' \in [discarded : SUBSET Blocks, marked : BOOLEAN, captured : SUBSET Nat,
                    position : Nat, kinds : SUBSET Kinds]
      /\ feed'.position <= Len(replay.pushed)
      /\ feed'.captured \subseteq 1 .. feed'.position
      /\ feed'.captured \union ((feed'.position + 1) .. Len(replay.pushed)) \subseteq coming \ {i}
  <2>1. CASE feed' = [feed EXCEPT !.captured = @ \ {i}] /\ i \in feed.captured
    <3>1. i \in 1 .. feed.position /\ feed.position \in Nat
      BY <1>1, <2>1 DEF FeedInv
    <3>2. /\ feed'.captured = feed.captured \ {i} /\ feed'.position = feed.position
          /\ feed'.discarded = feed.discarded /\ feed'.marked = feed.marked
          /\ feed'.kinds = feed.kinds
      BY <1>1, <2>1 DEF FeedInv
    <3> QED BY <1>1, <1>3, <2>1, <3>1, <3>2 DEF FeedInv
  <2>2. CASE feed' = [feed EXCEPT !.position = @ + 1] /\ feed.captured = {} /\ i = feed.position + 1
    BY <1>1, <1>3, <1>4, <2>2 DEF FeedInv
  <2> QED BY <1>4, <2>1, <2>2
<1>9. \A j \in coming \ {i} : Final(replay.pushed[j]) => replay.pushed[j].height >= finality'.height
  <2> TAKE j \in coming \ {i}
  <2> HAVE Final(replay.pushed[j])
  <2>1. CASE finality' = finality
    BY <1>1, <2>1 DEF FeedInv
  <2>2. CASE finality' # finality
    <3>1. j \in (i + 1) .. Len(replay.pushed) /\ j \in 1 .. Len(replay.pushed)
      BY <1>3, <1>4, <1>5
    <3>2. replay.pushed[j].height > replay.pushed[i].height
      BY <1>5, <1>6, <2>2, <3>1 DEF ClientInv, Running, OrderInv
    <3>3. replay.pushed[j].height \in 1 .. MaxHeight /\ replay.pushed[i].height \in 1 .. MaxHeight
      BY <1>5, <3>1 DEF ClientInv, Running, OrderInv
    <3> QED BY <1>6, <2>2, <3>2, <3>3, ChainAssumption
  <2> QED BY <2>1, <2>2
<1>10. FeedInv'
  <2> HIDE DEF coming
  <2> QED BY <1>1, <1>8, <1>9 DEF FeedInv
<1>11. LinkInv'
  BY <1>1, <1>10 DEF ClientInv, LinkInv, outage
<1> QED BY <1>1, <1>2, <1>6, <1>7, <1>11 DEF ClientInv

\* ReconnectUpdate takes away blocks, and nothing of what is to come.
LEMMA ReconnectClientInv ==
    ASSUME ClientInv, ReceiveReconnect PROVE ClientInv'
<1>1. /\ link = "up" /\ FeedInv
      /\ partial' = partial \ feed.discarded /\ feed' = [feed EXCEPT !.marked = FALSE]
      /\ UNCHANGED <<replay, clock, node, reply, session, link, ended, current, checkpoint,
                     finality, dedup, outage>>
  BY DEF ReceiveReconnect, server, ClientInv, LinkInv
<1>2. Running'
  BY <1>1 DEF ClientInv, Running, NodeInv, OrderInv, node, Tip
<1>3. ChainStateTyped' /\ PartialAboveFinality' /\ finality'.height <= finalized'
  BY <1>1 DEF ClientInv, ChainStateTyped, PartialAboveFinality, node
<1>4. FeedInv'
  BY <1>1 DEF FeedInv
<1>5. LinkInv'
  BY <1>1, <1>4 DEF ClientInv, LinkInv, outage
<1> QED BY <1>1, <1>2, <1>3, <1>5 DEF ClientInv

LEMMA NextClientInv == ClientInv /\ [ClientNext]_cvars => ClientInv'
<1> SUFFICES ASSUME ClientInv, [ClientNext]_cvars PROVE ClientInv'
  OBVIOUS
<1>1. CASE ClientNext
  BY <1>1, NodeClientInv, LossClientInv, OpenClientInv, ConnectClientInv, RequestClientInv,
     ReceiveClientInv, ReconnectClientInv DEF ClientNext
<1>2. CASE UNCHANGED cvars
  <2>1. UNCHANGED <<replay, clock, node, reply, session, link, ended, feed, current, chainState, outage>>
    BY <1>2 DEF cvars, server, client
  <2>2. Running' /\ ChainStateTyped' /\ PartialAboveFinality' /\ finality'.height <= finalized'
    BY <2>1 DEF ClientInv, Running, NodeInv, OrderInv, ChainStateTyped, PartialAboveFinality,
                chainState, node, Tip
  <2>3. LinkInv'
    BY <2>1 DEF ClientInv, LinkInv, FeedInv, Asks, Agrees, ReplayHeight, outage, chainState
  <2> QED BY <2>1, <2>2, <2>3 DEF ClientInv
<1> QED BY <1>1, <1>2

\* What the client holds, asks for and is still to receive agrees with the node's
\* finality, in every reachable state.
THEOREM ClientInvariant == ClientSpec => []ClientInv
<1> QED BY InitClientInv, NextClientInv, PTL DEF ClientSpec

\* The link, the chain state and the deduplication have their types: no more heights
\* than the retention, no more attempts than allowed and one.
THEOREM ClientTypeCorrect == ClientSpec => []ClientTypeOK
<1>1. ClientInv => ClientTypeOK
  <2> SUFFICES ASSUME ClientInv PROVE ClientTypeOK
    OBVIOUS
  <2>1. TypeOK
    BY DEF ClientInv, Running, NodeInv, OrderInv, Sound, Typed, TypeOK, RepliesFromWindow
  <2>2. finality \in [height : 1 .. MaxHeight, fork : Forks] \union {NoAnchor}
        /\ partial \subseteq [height : 1 .. MaxHeight, fork : Forks]
    BY DEF ClientInv, ChainStateTyped, Anchors, Blocks
  <2> QED BY <2>1, <2>2 DEF ClientTypeOK, ClientInv, ChainStateTyped, LinkInv
<1> QED BY <1>1, ClientInvariant, PTL

\* No subscription ends with INVALID_ARGUMENT: the blocks a resume gives up are above
\* its checkpoint.
THEOREM RequestsAreValid == ClientSpec => []RequestsNeverInvalid
<1>1. ClientInv => RequestsNeverInvalid
  BY DEF ClientInv, LinkInv, RequestsNeverInvalid
<1> QED BY <1>1, ClientInvariant, PTL

\* The block the client would resume from never moves back, except to none at all.
THEOREM FinalityNeverMovesBack == ClientSpec => FinalityAdvances
<1>1. ASSUME ClientInv, [ClientNext]_cvars
      PROVE  [finality'.height >= finality.height \/ finality' = NoAnchor]_cvars
  <2>1. finality.height \in Nat /\ MaxHeight \in Nat
    BY <1>1, AnchorHeight, ChainAssumption DEF ClientInv, ChainStateTyped
  <2>2. CASE finality' = finality
    BY <2>1, <2>2
  <2>3. CASE Open
    <3>1. finality = NoAnchor
      BY <1>1, <2>3 DEF Open, ClientInv, LinkInv
    <3>2. finality'.height \in Nat
      BY <1>1, <2>3, OpenClientInv, AnchorHeight, ChainAssumption DEF ClientInv, ChainStateTyped
    <3> QED BY <3>1, <3>2 DEF NoAnchor
  <2>4. CASE Connect
    <3>1. finality' \in {finality, NoAnchor}
      BY <2>4 DEF Connect, OutOfRange
    <3> QED BY <2>2, <3>1
  <2>5. CASE ReceiveReplay \/ ReceiveLive
    <3>1. PICK i \in feed.captured \union {feed.position + 1} :
            HandleUpdate(i) /\ (i \in feed.captured \/ feed.position < Len(replay.pushed))
      BY <2>5 DEF ReceiveReplay, ReceiveLive
    <3>2. FeedInv /\ session' = session
      BY <1>1, <2>5 DEF ReceiveReplay, ReceiveLive, ClientInv, LinkInv, server
    <3>3. Len(replay.pushed) \in Nat
      BY <1>1, LenProperties DEF ClientInv, Running, OrderInv, Sound, Typed
    <3>4. /\ i \in 1 .. Len(replay.pushed)
          /\ Final(replay.pushed[i]) => replay.pushed[i].height >= finality.height
      BY <3>1, <3>2, <3>3 DEF FeedInv
    <3> QED BY <1>1, <2>1, <2>2, <3>1, <3>2, <3>4, HandleKeeps
  <2> QED BY <1>1, <2>2, <2>3, <2>4, <2>5
          DEF ClientNext, NodeEvent, Restart, Disconnect, UpdateRequest, ReplaceFilter,
              ConnectFails, ReceiveReconnect, cvars, client, chainState
<1> QED BY <1>1, ClientInvariant, PTL DEF ClientSpec, FinalityAdvances

-----------------------------------------------------------------------------
(***************************************************************************)
(* Nothing missed after finality.  The two policies that skip data do not  *)
(* promise it: SkipMissedData asks for no replay after an outage, and      *)
(* SkipToLive gives up the blocks the server no longer has.                *)
(***************************************************************************)
RecoversAll == ~SkipMissedData /\ ~SkipToLive

Positions == 1 .. Len(replay.pushed)

\* A position the connection, while there is one, has yet to deliver.
Coming(i) == link = "up" => i \in feed.captured \/ i > feed.position

\* What the application has been given: of this session, positions of the history.  The
\* deduplication knows nothing else.
OutputTyped ==
    /\ output \in Seq(Nat \X Nat)
    /\ \A k \in 1 .. Len(output) :
        /\ output[k][1] <= session
        /\ output[k][1] = session => output[k][2] \in Positions
    /\ \A key \in Seen : \E k \in 1 .. Len(output) : output[k] = key

\* A request in force asks for the kinds that every filter asks for.
KindsAsked ==
    /\ link # "new" => AlwaysAsked \subseteq current.kinds
    /\ link = "up" => AlwaysAsked \subseteq feed.kinds

\* What follows a finalized block that is still to come is still to come as well.
FeedClosed ==
    link = "up" =>
        \A j \in Positions : Final(replay.pushed[j]) /\ Coming(j) =>
            \A i \in j .. Len(replay.pushed) : Coming(i)

\* The block the client would resume from, when it was given position a, is at some
\* position f from a on, and what it lacks is behind f and still to come.
CoveredBy(a, f) ==
    /\ Final(replay.pushed[f])
    /\ replay.pushed[f].height = finality.height
    /\ \A i \in a .. Len(replay.pushed) :
        replay.pushed[i].item.kind \in AlwaysAsked => Given(i) \/ (i > f /\ Coming(i))

Covered ==
    \A a \in Positions : Final(replay.pushed[a]) /\ Given(a) =>
        \E f \in a .. Len(replay.pushed) : CoveredBy(a, f)

MissInv ==
    /\ OutputTyped
    /\ KindsAsked
    /\ FeedClosed
    /\ Covered
    /\ link = "down" => ask.resume = finality
-----------------------------------------------------------------------------
\* The deduplication learns of nothing but the update observed.
LEMMA RecordedKeys ==
    ASSUME dedup \in Seq([height : Nat, keys : SUBSET (Nat \X Nat)]), session \in Nat,
           NEW i \in Nat, NEW height \in Nat, NEW k \in DOMAIN Recorded(i, height)
    PROVE  Recorded(i, height)[k].keys \subseteq Seen \union {Key(i)}
<1> DEFINE B == [height : Nat, keys : SUBSET (Nat \X Nat)]
           K == Seen \union {Key(i)}
           C == {b \in B : b.keys \subseteq K}
           known == \E n \in DOMAIN dedup : dedup[n].height = height
           kept == [n \in DOMAIN dedup |->
                        IF dedup[n].height = height
                        THEN [dedup[n] EXCEPT !.keys = @ \union {Key(i)}] ELSE dedup[n]]
           more == Append(dedup, [height |-> height, keys |-> {Key(i)}])
           added == IF known THEN kept ELSE more
<1>1. Key(i) \in Nat \X Nat /\ Key(i) \in K
  BY DEF Key
<1>2. Len(dedup) \in Nat /\ DOMAIN dedup = 1 .. Len(dedup) /\ \A n \in DOMAIN dedup : dedup[n] \in B
  <2>1. dedup \in Seq(B)
    OBVIOUS
  <2> HIDE DEF B
  <2> QED BY <2>1
<1>3. \A n \in DOMAIN dedup : dedup[n] \in C
  <2> TAKE n \in DOMAIN dedup
  <2>1. dedup[n].keys \subseteq Seen
    BY DEF Seen
  <2> QED BY <1>2, <2>1
<1>4. kept \in Seq(C)
  <2>1. ASSUME NEW n \in DOMAIN dedup PROVE kept[n] \in C
    <3>1. /\ dedup[n] \in C
          /\ dedup[n].keys \union {Key(i)} \in SUBSET (Nat \X Nat)
          /\ dedup[n].keys \union {Key(i)} \subseteq K
      BY <1>1, <1>2, <1>3
    <3>2. [dedup[n] EXCEPT !.keys = @ \union {Key(i)}] \in C
      BY <3>1
    <3> QED BY <3>1, <3>2
  <2>2. kept = [n \in 1 .. Len(dedup) |-> kept[n]]
    BY <1>2
  <2> HIDE DEF kept, C
  <2> QED BY <1>2, <2>1, <2>2
<1>5. more \in Seq(C)
  <2>1. [height |-> height, keys |-> {Key(i)}] \in C
    BY <1>1
  <2>2. dedup \in Seq(C)
    <3>1. dedup = [n \in 1 .. Len(dedup) |-> dedup[n]]
      BY <1>2
    <3> HIDE DEF C
    <3> QED BY <1>2, <1>3, <3>1, SMTT(30)
  <2> HIDE DEF C
  <2> QED BY <2>1, <2>2, AppendProperties
<1>6. added \in Seq(C)
  <2> HIDE DEF C, kept, more, known
  <2> QED BY <1>4, <1>5
<1>7. Recorded(i, height) = IF Len(added) > HeightRetention THEN Tail(added) ELSE added
  BY DEF Recorded
<1>8. Recorded(i, height) \in Seq(C)
  <2>1. CASE Len(added) > HeightRetention
    <3> HIDE DEF added, C
    <3>1. added # <<>>
      BY <2>1, ClientAssumption
    <3>2. Tail(added) \in Seq(C)
      BY <1>6, <3>1, HeadTailProperties
    <3> QED BY <1>7, <2>1, <3>2
  <2>2. CASE ~(Len(added) > HeightRetention)
    <3> HIDE DEF added, C
    <3> QED BY <1>6, <1>7, <2>2
  <2> QED BY <2>1, <2>2
<1>9. Recorded(i, height)[k] \in C
  <2> HIDE DEF C
  <2> QED BY <1>8, ElementOfSeq
<1> QED BY <1>9

\* What the invariant says of the client's types.
LEMMA MissTypes ==
    ASSUME ClientInv, OutputTyped
    PROVE  /\ Len(replay.pushed) \in Nat /\ Len(output) \in Nat /\ session \in Nat
           /\ DOMAIN output = 1 .. Len(output)
           /\ \A i \in Positions : replay.pushed[i].height \in 1 .. MaxHeight
           /\ MaxHeight \in Nat
           /\ \A i : Given(i) => i \in Positions
<1>1. Len(replay.pushed) \in Nat /\ Len(output) \in Nat /\ DOMAIN output = 1 .. Len(output)
  BY LenProperties DEF ClientInv, Running, OrderInv, Sound, Typed, OutputTyped
<1>2. \A i : Given(i) => i \in Positions
  <2> SUFFICES ASSUME NEW i, Given(i) PROVE i \in Positions
    OBVIOUS
  <2>1. PICK k \in 1 .. Len(output) : output[k] = <<session, i>>
    BY <1>1 DEF Given, Key
  <2>2. output[k][1] = session /\ output[k][2] = i
    BY <2>1
  <2> QED BY <2>2 DEF OutputTyped
<1> QED BY <1>1, <1>2, ChainAssumption DEF ClientInv, Running, OrderInv, Positions

\* What follows a finalized bucket is higher than it.
LEMMA HigherAfterFinal ==
    ASSUME ClientInv, NEW j \in Positions, Final(replay.pushed[j]),
           NEW i \in (j + 1) .. Len(replay.pushed)
    PROVE  replay.pushed[i].height > replay.pushed[j].height
BY DEF ClientInv, Running, OrderInv, Positions

\* A stream opens with all that follows a finalized block in it.
LEMMA OpensClosed ==
    ASSUME Running', NEW a \in [from : MaybeHeight, resume : Anchors, discarded : SUBSET Blocks,
                                second : BOOLEAN],
           NEW kinds, feed' = Stream(a, kinds)
    PROVE  FeedClosed'
<1>1. /\ Len(replay'.pushed) \in Nat /\ replay'.popped \in Nat /\ MaxHeight \in Nat
      /\ \A i \in 1 .. Len(replay'.pushed) : replay'.pushed[i].height \in 1 .. MaxHeight
  BY LenProperties, ChainAssumption DEF Running, OrderInv, Sound, Typed
<1>2. /\ feed'.position = Len(replay'.pushed)
      /\ feed'.captured = IF ReplayHeight(a) = NoHeight THEN {} ELSE ReplayFrom(replay', ReplayHeight(a))
  BY DEF Stream
<1>3. ReplayHeight(a) \in Int
  BY AnchorHeight, ChainAssumption DEF ReplayHeight, NoHeight, MaybeHeight
<1>4. SUFFICES ASSUME NEW j \in 1 .. Len(replay'.pushed), Final(replay'.pushed[j]),
                      j \in feed'.captured \/ j > feed'.position,
                      NEW i \in j .. Len(replay'.pushed)
               PROVE  i \in feed'.captured
  BY DEF FeedClosed, Positions, Coming
<1>5. /\ ReplayHeight(a) # NoHeight /\ feed'.captured = ReplayFrom(replay', ReplayHeight(a))
      /\ j > replay'.popped /\ replay'.pushed[j].height >= ReplayHeight(a)
  BY <1>1, <1>2, <1>4 DEF ReplayFrom, Retained
<1>6. i = j \/ replay'.pushed[i].height > replay'.pushed[j].height
  <2>1. i # j => i \in (j + 1) .. Len(replay'.pushed)
    BY <1>1
  <2> QED BY <1>4, <2>1 DEF Running, OrderInv
<1>7. /\ i \in (replay'.popped + 1) .. Len(replay'.pushed) /\ i \in 1 .. Len(replay'.pushed)
      /\ replay'.pushed[i].height \in Nat /\ replay'.pushed[j].height \in Nat
  BY <1>1, <1>5
<1>8. replay'.pushed[i].height >= ReplayHeight(a)
  BY <1>3, <1>5, <1>6, <1>7
<1> QED BY <1>5, <1>7, <1>8 DEF ReplayFrom, Retained

LEMMA InitMiss == ClientInit => MissInv
<1> SUFFICES ASSUME ClientInit PROVE MissInv
  OBVIOUS
<1>1. output = <<>> /\ dedup = <<>> /\ link = "new" /\ replay.pushed = <<>>
  BY DEF ClientInit, Init, EmptyReplay
<1>2. OutputTyped
  BY <1>1 DEF OutputTyped, Seen
<1> QED BY <1>1, <1>2 DEF MissInv, KindsAsked, FeedClosed, Covered, Positions

\* What is given stays given when neither the output nor the session changes.
LEMMA SameGiven ==
    ASSUME UNCHANGED <<output, session>>
    PROVE  \A i : Given(i)' <=> Given(i)
BY DEF Given, Key

\* An event of the node is still to come.
LEMMA NodeMiss ==
    ASSUME ClientInv, MissInv, NodeEvent PROVE MissInv'
<1>1. Running' /\ HistoryGrows
  BY EventRunning DEF ClientInv, NodeEvent, EventLeaves
<1>2. /\ UNCHANGED <<session, link, feed, current, finality, dedup, ask, output>>
      /\ link = "up" => FeedInv
  BY DEF NodeEvent, client, chainState, outage, application, ClientInv, LinkInv
<1>3. /\ Len(replay.pushed) \in Nat /\ Len(replay'.pushed) \in Nat
      /\ Len(replay.pushed) <= Len(replay'.pushed)
      /\ \A i \in Positions : replay'.pushed[i] = replay.pushed[i]
      /\ \A i : Given(i) => i \in Positions
  <2>1. Len(replay'.pushed) \in Nat
    BY <1>1, LenProperties DEF Running, OrderInv, Sound, Typed
  <2> QED BY <1>1, <2>1, MissTypes DEF HistoryGrows, Positions, MissInv
<1>4. \A i : Given(i)' <=> Given(i)
  BY <1>2, SameGiven
<1>5. /\ \A i : Coming(i)' <=> Coming(i)
      /\ \A i \in (Len(replay.pushed) + 1) .. Len(replay'.pushed) : Coming(i)
  <2>1. link = "up" => feed.position \in Nat /\ feed.position <= Len(replay.pushed)
    BY <1>2 DEF FeedInv
  <2> QED BY <1>2, <1>3, <2>1 DEF Coming
<1>6. OutputTyped'
  BY <1>2, <1>3, SMTT(30) DEF MissInv, OutputTyped, Positions, Seen
<1>7. KindsAsked'
  BY <1>2 DEF MissInv, KindsAsked
<1>8. FeedClosed'
  <2> SUFFICES ASSUME link = "up", NEW j \in 1 .. Len(replay'.pushed), Final(replay'.pushed[j]), Coming(j),
                      NEW i \in j .. Len(replay'.pushed)
               PROVE  Coming(i)
    BY <1>2, <1>5 DEF FeedClosed, Positions
  <2>1. CASE i \in Positions
    <3>1. j \in Positions /\ i \in j .. Len(replay.pushed)
      BY <1>3, <2>1 DEF Positions
    <3> QED BY <1>3, <3>1 DEF MissInv, FeedClosed
  <2>2. CASE i \notin Positions
    <3>1. i \in (Len(replay.pushed) + 1) .. Len(replay'.pushed)
      BY <1>3, <2>2 DEF Positions
    <3> QED BY <1>5, <3>1
  <2> QED BY <2>1, <2>2
<1>9. Covered'
  <2> SUFFICES ASSUME NEW a \in 1 .. Len(replay'.pushed), Final(replay'.pushed[a]), Given(a)
               PROVE  \E f \in a .. Len(replay'.pushed) : CoveredBy(a, f)'
    BY <1>4 DEF Covered, Positions
  <2>1. a \in Positions /\ Final(replay.pushed[a])
    BY <1>3
  <2>2. PICK f \in a .. Len(replay.pushed) : CoveredBy(a, f)
    BY <2>1 DEF MissInv, Covered
  <2>3. f \in Positions /\ f \in a .. Len(replay'.pushed)
    BY <1>3, <2>1 DEF Positions
  <2>4. Final(replay'.pushed[f]) /\ replay'.pushed[f].height = finality'.height
    BY <1>2, <1>3, <2>2, <2>3 DEF CoveredBy
  <2>5. ASSUME NEW i \in a .. Len(replay'.pushed), replay'.pushed[i].item.kind \in AlwaysAsked
        PROVE  Given(i) \/ (i > f /\ Coming(i))
    <3>1. CASE i \in Positions
      <4>1. i \in a .. Len(replay.pushed)
        BY <1>3, <2>1, <3>1 DEF Positions
      <4> QED BY <1>3, <2>2, <2>5, <3>1, <4>1 DEF CoveredBy
    <3>2. CASE i \notin Positions
      <4>1. i \in (Len(replay.pushed) + 1) .. Len(replay'.pushed)
        BY <1>3, <2>1, <3>2 DEF Positions
      <4> QED BY <1>3, <1>5, <2>1, <4>1 DEF Positions
    <3> QED BY <3>1, <3>2
  <2>6. CoveredBy(a, f)'
    BY <1>4, <1>5, <2>4, <2>5 DEF CoveredBy
  <2> QED BY <2>3, <2>6
<1> QED BY <1>2, <1>6, <1>7, <1>8, <1>9 DEF MissInv

\* A connection is lost: the client asks for all from its finalized block on, and in a
\* new session there is nothing yet to miss.
LEMMA LossMiss ==
    ASSUME RecoversAll, ClientInv, MissInv, Disconnect \/ Restart PROVE MissInv'
<1>1. UNCHANGED <<current, finality, dedup, output>>
  BY DEF Disconnect, Restart, chainState, application
<1>2. \/ link = "up" /\ link' = "down" /\ ask'.resume = finality
      \/ link # "up" /\ UNCHANGED <<link, ask>>
  <2>1. CASE link = "up"
    BY <2>1 DEF Disconnect, Restart, LoseConnection, Ask, Anchor, RecoversAll
  <2>2. CASE link # "up"
    BY <2>2 DEF Disconnect, Restart, outage
  <2> QED BY <2>1, <2>2
<1>3. (link' = "down" => ask'.resume = finality') /\ FeedClosed' /\ KindsAsked'
  BY <1>1, <1>2 DEF MissInv, FeedClosed, KindsAsked, AlwaysAsked
<1>4. \A i : Coming(i)'
  BY <1>2 DEF Coming
<1>5. CASE Disconnect
  <2>1. UNCHANGED <<replay, session>>
    BY <1>5 DEF Disconnect, server
  <2>2. \A i : Given(i)' <=> Given(i)
    BY <1>1, <2>1, SameGiven
  <2>3. OutputTyped'
    BY <1>1, <2>1 DEF MissInv, OutputTyped, Positions, Seen
  <2>4. Covered'
    BY <1>1, <1>4, <2>1, <2>2 DEF MissInv, Covered, CoveredBy, Positions
  <2> QED BY <1>3, <2>3, <2>4 DEF MissInv
<1>6. CASE Restart
  <2>1. replay'.pushed = <<>> /\ session' = session + 1
    BY <1>6 DEF Restart, EmptyReplay
  <2>2. Covered'
    BY <2>1 DEF Covered, Positions
  <2>3. OutputTyped'
    <3>1. output \in Seq(Nat \X Nat) /\ session \in Nat
      BY DEF MissInv, OutputTyped, ClientInv
    <3>2. ASSUME NEW k \in 1 .. Len(output)
          PROVE  output[k][1] <= session' /\ output[k][1] # session'
      <4>1. output[k] \in Nat \X Nat
        BY <3>1, ElementOfSeq
      <4>2. output[k][1] \in Nat /\ output[k][1] <= session
        BY <4>1 DEF MissInv, OutputTyped
      <4> QED BY <2>1, <3>1, <4>2
    <3> QED BY <1>1, <3>1, <3>2 DEF MissInv, OutputTyped, Seen
  <2> QED BY <1>3, <2>2, <2>3 DEF MissInv
<1> QED BY <1>5, <1>6

\* A read of the window leaves its history, and what was given of it.
LEMMA ReadMiss ==
    ASSUME ClientInv, MissInv, EvictsTo(replay, clock, replay') \/ UNCHANGED replay,
           UNCHANGED <<clock, node, session, dedup, output>>
    PROVE  /\ Running' /\ replay'.pushed = replay.pushed
           /\ OutputTyped'
           /\ \A i : Given(i)' <=> Given(i)
<1>1. Running' /\ replay'.pushed = replay.pushed
  BY ReadKeeps DEF ClientInv
<1> QED BY <1>1, SameGiven DEF MissInv, OutputTyped, Positions, Seen

\* The application's first request: it has been given nothing finalized.
LEMMA OpenMiss ==
    ASSUME ClientInv, MissInv, Open PROVE MissInv'
<1>1. PICK kept \in Kept, from \in {NoHeight, 1}, kinds \in Filters :
        LET a == [from |-> from, resume |-> kept.resume, discarded |-> kept.discarded, second |-> FALSE]
        IN
        /\ LetIn(a)
        /\ current' = [from |-> from, kinds |-> kinds]
        /\ feed' = Stream(a, kinds)
  BY DEF Open
<1> DEFINE a == [from |-> from, resume |-> kept.resume, discarded |-> kept.discarded, second |-> FALSE]
<1>2. link = "new" /\ link' = "up" /\ UNCHANGED <<clock, node, session, dedup, output>>
  BY DEF Open
<1>3. /\ Running' /\ replay'.pushed = replay.pushed
      /\ OutputTyped' /\ \A i : Given(i)' <=> Given(i)
  BY <1>1, <1>2, ReadMiss DEF LetIn
<1>4. FeedClosed'
  <2>1. a \in [from : MaybeHeight, resume : Anchors, discarded : SUBSET Blocks, second : BOOLEAN]
    <3>1. kept.resume \in Anchors /\ kept.discarded \in SUBSET Blocks /\ from \in MaybeHeight
      BY KeptTyped DEF ClientInv, NoHeight, MaybeHeight
    <3> QED BY <3>1
  <2> HIDE DEF a
  <2> QED BY <1>1, <1>3, <2>1, OpensClosed DEF a
<1>5. KindsAsked'
  <2>1. current'.kinds = kinds /\ feed'.kinds = kinds
    BY <1>1 DEF Stream
  <2>2. AlwaysAsked \subseteq kinds
    BY DEF AlwaysAsked
  <2> QED BY <2>1, <2>2 DEF KindsAsked, AlwaysAsked
<1>6. Covered'
  <2>1. ASSUME NEW i \in Positions, Final(replay.pushed[i]), Given(i) PROVE FALSE
    <3>1. PICK f \in i .. Len(replay.pushed) : replay.pushed[f].height = finality.height
      BY <2>1 DEF MissInv, Covered, CoveredBy
    <3>2. f \in Positions /\ finality.height = 0
      BY <1>2, <3>1, MissTypes DEF MissInv, ClientInv, LinkInv, NoAnchor, Positions
    <3> QED BY <3>1, <3>2, MissTypes DEF MissInv
  <2> QED BY <1>3, <2>1 DEF Covered, Positions
<1> QED BY <1>2, <1>3, <1>4, <1>5, <1>6 DEF MissInv

\* A request let in from the finalized block captures all that is behind it: a height
\* as low is still retained, and so is everything pushed after it.
LEMMA ResumedStreamCovers ==
    ASSUME ClientInv, MissInv, link = "down", LetIn(ask), replay'.pushed = replay.pushed, Running',
           feed' = Stream(ask, current.kinds),
           NEW f \in Positions, Final(replay.pushed[f]), replay.pushed[f].height = finality.height,
           NEW i \in (f + 1) .. Len(replay.pushed)
    PROVE  i \in feed'.captured
<1>1. /\ Len(replay.pushed) \in Nat /\ MaxHeight \in Nat /\ replay'.popped \in Nat
      /\ \A j \in Positions : replay.pushed[j].height \in 1 .. MaxHeight
  BY MissTypes, LenProperties DEF MissInv, Running, OrderInv, Sound, Typed
<1>2. finality.height \in 1 .. MaxHeight /\ ReplayHeight(ask) = finality.height
  BY <1>1 DEF MissInv, ReplayHeight, NoAnchor
<1>3. HeightAvailable(replay', finality.height) /\ ReplayHeight(ask) # NoHeight
  BY <1>2 DEF LetIn, NoHeight
<1>4. PICK j \in Retained(replay') : replay'.pushed[j].height <= finality.height
  BY <1>3, AvailableIsRetained DEF Running, OrderInv
<1>5. j \in Positions /\ j > replay'.popped
  BY <1>1, <1>4 DEF Retained, Positions
<1>6. j <= f
  <2>1. j > f => j \in (f + 1) .. Len(replay.pushed)
    BY <1>1, <1>5 DEF Positions
  <2> QED BY <1>1, <1>2, <1>4, <1>5, <2>1, HigherAfterFinal DEF Positions
<1>7. i \in Retained(replay') /\ i \in Positions
  BY <1>1, <1>5, <1>6 DEF Retained, Positions
<1>8. replay'.pushed[i].height >= finality.height
  <2>1. replay.pushed[i].height > finality.height
    BY HigherAfterFinal
  <2> QED BY <1>1, <1>2, <1>7, <2>1
<1> QED BY <1>2, <1>3, <1>7, <1>8 DEF Stream, ReplayFrom

LEMMA ConnectMiss ==
    ASSUME RecoversAll, ClientInv, MissInv, Connect PROVE MissInv'
<1>1. link = "down" /\ UNCHANGED <<clock, node, session, dedup, output>>
  BY DEF Connect, application
<1>2. ask \in [from : MaybeHeight, resume : Anchors, discarded : SUBSET Blocks, second : BOOLEAN]
  BY <1>1 DEF ClientInv, LinkInv, Asks
<1>3. CASE /\ LetIn(ask) /\ link' = "up" /\ feed' = Stream(ask, current.kinds)
           /\ UNCHANGED <<ended, current, checkpoint, finality, partial, outage>>
  <2>1. /\ Running' /\ replay'.pushed = replay.pushed
        /\ OutputTyped' /\ \A i : Given(i)' <=> Given(i)
    BY <1>1, <1>3, ReadMiss DEF LetIn
  <2>2. FeedClosed'
    BY <1>2, <1>3, <2>1, OpensClosed
  <2>3. KindsAsked'
    BY <1>1, <1>3 DEF MissInv, KindsAsked, Stream
  <2>4. Covered'
    <3> SUFFICES ASSUME NEW a \in Positions, Final(replay.pushed[a]), Given(a)
                 PROVE  \E f \in a .. Len(replay.pushed) : CoveredBy(a, f)'
      BY <2>1 DEF Covered, Positions
    <3>1. PICK f \in a .. Len(replay.pushed) : CoveredBy(a, f)
      BY DEF MissInv, Covered
    <3>2. f \in Positions /\ Final(replay.pushed[f]) /\ replay.pushed[f].height = finality.height
      BY <3>1, MissTypes DEF MissInv, CoveredBy, Positions
    <3>3. ASSUME NEW i \in a .. Len(replay.pushed), i > f PROVE Coming(i)'
      <4>1. i \in (f + 1) .. Len(replay.pushed)
        BY <3>2, <3>3, MissTypes DEF MissInv, Positions
      <4>2. i \in feed'.captured
        BY <1>1, <1>3, <2>1, <3>2, <4>1, ResumedStreamCovers
      <4> QED BY <4>2 DEF Coming
    <3>4. CoveredBy(a, f)'
      BY <1>3, <2>1, <3>1, <3>3 DEF CoveredBy, AlwaysAsked
    <3> QED BY <3>4
  <2> QED BY <1>3, <2>1, <2>2, <2>3, <2>4 DEF MissInv
<1>4. ASSUME EvictsTo(replay, clock, replay') \/ UNCHANGED replay, link' = "ended",
             UNCHANGED <<current, finality>>
      PROVE  MissInv'
  <2>1. /\ replay'.pushed = replay.pushed
        /\ OutputTyped' /\ \A i : Given(i)' <=> Given(i)
    BY <1>1, <1>4, ReadMiss
  <2>2. \A i : Coming(i)'
    BY <1>4 DEF Coming
  <2>3. Covered'
    BY <1>4, <2>1, <2>2 DEF MissInv, Covered, CoveredBy, Positions
  <2>4. FeedClosed' /\ KindsAsked'
    BY <1>1, <1>4 DEF FeedClosed, KindsAsked, MissInv
  <2> QED BY <1>4, <2>1, <2>3, <2>4 DEF MissInv
<1>5. CASE OutOfRange(ask) /\ (EvictsTo(replay, clock, replay') \/ UNCHANGED replay)
  BY <1>4, <1>5 DEF OutOfRange, End, RecoversAll
<1>6. CASE /\ Verified(ask) \in {"failed_precondition", "invalid_argument"}
           /\ End(Verified(ask))
           /\ UNCHANGED <<replay, feed, current, checkpoint, finality, partial, outage>>
  BY <1>4, <1>6 DEF End
<1> QED BY <1>3, <1>5, <1>6 DEF Connect

\* What changes only the request, the attempts, the filter at the server or the mark.
LEMMA RequestMiss ==
    ASSUME ClientInv, MissInv, UpdateRequest \/ ReplaceFilter \/ ConnectFails \/ ReceiveReconnect
    PROVE  MissInv'
<1>1. UNCHANGED <<replay, session, finality, dedup, output, ask>>
  BY DEF UpdateRequest, ReplaceFilter, ConnectFails, ReceiveReconnect, server, chainState,
         application, outage
<1>2. /\ link' = link \/ (link = "down" /\ link' = "ended")
      /\ link = "up" => feed'.captured = feed.captured /\ feed'.position = feed.position
  <2>1. link = "up" => FeedInv
    BY DEF ClientInv, LinkInv
  <2> QED BY <2>1 DEF UpdateRequest, ReplaceFilter, ConnectFails, ReceiveReconnect, End, FeedInv
<1>3. \A i : (Given(i)' <=> Given(i)) /\ (Coming(i) => Coming(i)')
             /\ (link' = "up" => link = "up" /\ (Coming(i)' <=> Coming(i)))
  BY <1>1, <1>2, SameGiven DEF Coming
<1>4. OutputTyped'
  BY <1>1 DEF MissInv, OutputTyped, Positions, Seen
<1>5. Covered'
  BY <1>1, <1>3 DEF MissInv, Covered, CoveredBy, Positions
<1>6. FeedClosed'
  BY <1>1, <1>3 DEF MissInv, FeedClosed, Positions
<1>7. KindsAsked'
  <2>1. CASE UpdateRequest
    <3>1. PICK kinds \in Filters : current' = [from |-> NoHeight, kinds |-> kinds]
      BY <2>1 DEF UpdateRequest
    <3>2. current'.kinds = kinds /\ UNCHANGED <<link, feed>> /\ link = "up"
      BY <2>1, <3>1 DEF UpdateRequest
    <3> QED BY <3>2 DEF MissInv, KindsAsked, AlwaysAsked
  <2>2. CASE ReplaceFilter
    <3>1. /\ feed' = [feed EXCEPT !.kinds = current.kinds] /\ link = "up"
          /\ UNCHANGED <<link, current>> /\ FeedInv
      BY <2>2 DEF ReplaceFilter, ClientInv, LinkInv
    <3>2. feed'.kinds = current.kinds
      BY <3>1 DEF FeedInv
    <3> QED BY <3>1, <3>2 DEF MissInv, KindsAsked, AlwaysAsked
  <2>3. CASE ConnectFails
    <3>1. link = "down" /\ UNCHANGED <<feed, current>> /\ link' \in {"down", "ended"}
      BY <2>3 DEF ConnectFails, End
    <3> QED BY <3>1 DEF MissInv, KindsAsked, AlwaysAsked
  <2>4. CASE ReceiveReconnect
    <3>1. /\ feed' = [feed EXCEPT !.marked = FALSE] /\ link = "up"
          /\ UNCHANGED <<link, current>> /\ FeedInv
      BY <2>4 DEF ReceiveReconnect, ClientInv, LinkInv
    <3>2. feed'.kinds = feed.kinds
      BY <3>1 DEF FeedInv
    <3> QED BY <3>1, <3>2 DEF MissInv, KindsAsked, AlwaysAsked
  <2> QED BY <2>1, <2>2, <2>3, <2>4
<1> QED BY <1>1, <1>2, <1>4, <1>5, <1>6, <1>7 DEF MissInv

\* The update a client receives is the least of those to come, and no longer to come.
LEMMA ReceivesLeast ==
    ASSUME ClientInv, ReceiveReplay \/ ReceiveLive
    PROVE  \E i \in Positions :
            /\ Coming(i) /\ HandleUpdate(i)
            /\ \A j \in Positions : Coming(j) => i <= j
            /\ \A j \in Positions : (feed'.position < j \/ j \in feed'.captured) <=> (Coming(j) /\ j # i)
            /\ feed'.kinds = feed.kinds
<1>1. /\ link = "up" /\ FeedInv /\ Len(replay.pushed) \in Nat
      /\ feed.position \in Nat /\ feed.captured \subseteq 1 .. feed.position
      /\ feed.position <= Len(replay.pushed)
  BY LenProperties DEF ReceiveReplay, ReceiveLive, ClientInv, LinkInv, FeedInv, Running, OrderInv, Sound, Typed
<1>2. CASE ReceiveReplay
  <2>1. PICK i \in feed.captured : /\ \A j \in feed.captured : i <= j
                                   /\ HandleUpdate(i)
                                   /\ feed' = [feed EXCEPT !.captured = @ \ {i}]
    BY <1>2 DEF ReceiveReplay
  <2>2. /\ feed'.captured = feed.captured \ {i} /\ feed'.position = feed.position
        /\ feed'.kinds = feed.kinds
    BY <1>1, <2>1 DEF FeedInv
  <2>3. i \in Positions /\ i \in 1 .. feed.position
    BY <1>1, <2>1 DEF Positions
  <2>4. \A j \in Positions : Coming(j) => i <= j
    BY <1>1, <2>1, <2>3 DEF Coming, Positions
  <2>5. \A j \in Positions : (feed'.position < j \/ j \in feed'.captured) <=> (Coming(j) /\ j # i)
    BY <1>1, <2>1, <2>2, <2>3 DEF Coming, Positions
  <2> QED BY <2>1, <2>2, <2>3, <2>4, <2>5 DEF Coming
<1>3. CASE ReceiveLive
  <2> DEFINE i == feed.position + 1
  <2>1. /\ feed.captured = {} /\ feed.position < Len(replay.pushed)
        /\ HandleUpdate(i)
        /\ feed' = [feed EXCEPT !.position = @ + 1]
    BY <1>3 DEF ReceiveLive
  <2>2. feed'.captured = {} /\ feed'.position = i /\ feed'.kinds = feed.kinds
    BY <1>1, <2>1 DEF FeedInv
  <2>3. i \in Positions
    BY <1>1, <2>1 DEF Positions
  <2>4. \A j \in Positions : Coming(j) => i <= j
    BY <1>1, <2>1 DEF Coming, Positions
  <2>5. \A j \in Positions : (feed'.position < j \/ j \in feed'.captured) <=> (Coming(j) /\ j # i)
    BY <1>1, <2>1, <2>2 DEF Coming, Positions
  <2>6. Coming(i)
    BY <1>1 DEF Coming
  <2> HIDE DEF i
  <2> QED BY <2>1, <2>2, <2>3, <2>4, <2>5, <2>6
<1> QED BY <1>2, <1>3

\* An update the server's filter lets through has been given to the application, now or
\* before; no other is, and only such a finalized block moves the finality.
LEMMA HandleGives ==
    ASSUME RecoversAll, ClientInv, MissInv, NEW i \in Positions, HandleUpdate(i),
           UNCHANGED <<replay, session>>
    PROVE  LET asked == replay.pushed[i].item.kind \in feed.kinds IN
           /\ OutputTyped'
           /\ \A k : Given(k) => Given(k)'
           /\ \A k : Given(k)' => Given(k) \/ k = i
           /\ asked => Given(i)'
           /\ Given(i)' => Given(i) \/ asked
           /\ finality' = IF asked /\ Final(replay.pushed[i])
                          THEN Block(replay.pushed[i].height, replay.pushed[i].item.fork) ELSE finality
<1> DEFINE b == replay.pushed[i]
           asked == b.item.kind \in feed.kinds
<1>1. /\ output \in Seq(Nat \X Nat) /\ Len(output) \in Nat /\ session \in Nat /\ i \in Nat
      /\ DOMAIN output = 1 .. Len(output) /\ b.height \in Nat
      /\ dedup \in Seq([height : Nat, keys : SUBSET (Nat \X Nat)])
  <2>1. /\ Len(output) \in Nat /\ session \in Nat /\ DOMAIN output = 1 .. Len(output)
        /\ b.height \in 1 .. MaxHeight /\ MaxHeight \in Nat /\ Len(replay.pushed) \in Nat
    BY MissTypes DEF MissInv
  <2>2. dedup \in Seq([height : Nat, keys : SUBSET (Nat \X Nat)])
    BY DEF ClientInv, ChainStateTyped
  <2>3. output \in Seq(Nat \X Nat)
    BY DEF MissInv, OutputTyped
  <2>4. i \in Nat /\ b.height \in Nat
    BY <2>1 DEF Positions
  <2> QED BY <2>1, <2>2, <2>3, <2>4
<1>2. ASSUME UNCHANGED <<output, dedup>>
      PROVE  OutputTyped' /\ \A k : Given(k)' <=> Given(k)
  BY <1>2, SameGiven DEF MissInv, OutputTyped, Positions, Seen
<1>3. CASE ~asked
  <2>1. UNCHANGED <<output, dedup, finality>>
    BY <1>3 DEF HandleUpdate, chainState, application
  <2> QED BY <1>2, <1>3, <2>1
<1>4. CASE asked
  <2>1. finality' = IF Final(b) THEN Block(b.height, b.item.fork) ELSE finality
    BY <1>4 DEF HandleUpdate, Observe, Final
  <2>2. CASE ~Fresh(i)
    <3>1. UNCHANGED <<output, dedup>> /\ Key(i) \in Seen
      BY <1>4, <2>2 DEF HandleUpdate, application, Fresh
    <3>2. Given(i)
      BY <1>1, <3>1 DEF MissInv, OutputTyped, Given
    <3> QED BY <1>2, <1>4, <2>1, <3>1, <3>2
  <2>3. CASE Fresh(i)
    <3>1. /\ output' = Append(output, Key(i))
          /\ dedup' = dedup \/ dedup' = Recorded(i, b.height)
      BY <1>4, <2>3 DEF HandleUpdate, Deliver
    <3>2. Key(i) \in Nat \X Nat /\ Key(i)[1] = session /\ Key(i)[2] = i
      BY <1>1 DEF Key
    <3>3. /\ output' \in Seq(Nat \X Nat) /\ Len(output') = Len(output) + 1
          /\ DOMAIN output' = 1 .. Len(output')
          /\ \A k \in 1 .. Len(output) : output'[k] = output[k]
          /\ output'[Len(output) + 1] = Key(i)
      BY <1>1, <3>1, <3>2, AppendProperties
    <3>4. /\ \A k : Given(k) => Given(k)'
          /\ \A k : Given(k)' => Given(k) \/ k = i
          /\ Given(i)'
      <4>1. \A k : Key(k)' = Key(k) /\ (Key(k) = Key(i) => k = i)
        BY DEF Key
      <4>2. \A k : Given(k)' <=> \E n \in 1 .. Len(output') : output'[n] = Key(k)
        BY <3>3, <4>1 DEF Given
      <4>4. 1 .. Len(output') = (1 .. Len(output)) \union {Len(output) + 1}
        BY <1>1, <3>3
      <4>3. \A k : Given(k) <=> \E n \in 1 .. Len(output) : output[n] = Key(k)
        BY <1>1 DEF Given
      <4>5. ASSUME NEW k, Given(k) PROVE Given(k)'
        <5>1. PICK n \in 1 .. Len(output) : output[n] = Key(k)
          BY <4>3, <4>5
        <5>2. output'[n] = Key(k) /\ n \in 1 .. Len(output')
          BY <3>3, <4>4, <5>1
        <5> QED BY <4>2, <5>2
      <4>6. ASSUME NEW k, Given(k)', k # i PROVE Given(k)
        <5>1. PICK n \in 1 .. Len(output') : output'[n] = Key(k)
          BY <4>2, <4>6
        <5>2. n \in 1 .. Len(output) /\ output[n] = Key(k)
          BY <3>3, <4>1, <4>4, <4>6, <5>1
        <5> QED BY <4>3, <5>2
      <4>7. Given(i)'
        BY <3>3, <4>2, <4>4
      <4> QED BY <4>5, <4>6, <4>7
    <3>5. \A key \in Seen' : key \in Seen \/ key = Key(i)
      <4>1. CASE dedup' = dedup
        BY <4>1 DEF Seen
      <4>2. CASE dedup' = Recorded(i, b.height)
        <5>1. \A k \in DOMAIN Recorded(i, b.height) :
                Recorded(i, b.height)[k].keys \subseteq Seen \union {Key(i)}
          BY <1>1, RecordedKeys
        <5>2. Seen' = UNION {dedup'[k].keys : k \in DOMAIN dedup'}
          BY DEF Seen
        <5> QED BY <4>2, <5>1, <5>2
      <4> QED BY <3>1, <4>1, <4>2
    <3>6. OutputTyped'
      <4>1. \A k \in 1 .. Len(output') : k \in 1 .. Len(output) \/ k = Len(output) + 1
        BY <1>1, <3>3
      <4>2. \A k \in 1 .. Len(output') :
                /\ output'[k][1] <= session
                /\ output'[k][1] = session => output'[k][2] \in Positions
        <5> TAKE k \in 1 .. Len(output')
        <5>1. CASE k \in 1 .. Len(output)
          <6>1. output'[k] = output[k]
            BY <3>3, <5>1
          <6> QED BY <5>1, <6>1 DEF MissInv, OutputTyped
        <5>2. CASE k = Len(output) + 1
          <6>1. output'[k][1] = session /\ output'[k][2] = i
            BY <3>2, <3>3, <5>2
          <6> QED BY <1>1, <6>1
        <5> QED BY <4>1, <5>1, <5>2
      <4>3. \A key \in Seen' : \E k \in 1 .. Len(output') : output'[k] = key
        <5> TAKE key \in Seen'
        <5>1. CASE key \in Seen
          <6>1. PICK k \in 1 .. Len(output) : output[k] = key
            BY <5>1 DEF MissInv, OutputTyped
          <6>2. output'[k] = key
            BY <3>3, <6>1
          <6>3. Len(output') = Len(output) + 1
            BY <3>3
          <6>4. k \in 1 .. Len(output')
            BY <1>1, <6>3
          <6> QED BY <6>2, <6>4
        <5>2. CASE key = Key(i)
          <6>1. Len(output) + 1 \in 1 .. Len(output')
            BY <1>1, <3>3
          <6> QED BY <3>3, <5>2, <6>1
        <5> QED BY <3>5, <5>1, <5>2
      <4> QED BY <3>3, <4>2, <4>3 DEF OutputTyped, Positions
    <3> QED BY <1>4, <2>1, <3>4, <3>6
  <2> QED BY <2>2, <2>3
<1> QED BY <1>3, <1>4

\* What is received was to come, and the rest still is.
LEMMA ReceiveMiss ==
    ASSUME RecoversAll, ClientInv, MissInv, ReceiveReplay \/ ReceiveLive PROVE MissInv'
<1>1. /\ link = "up" /\ UNCHANGED <<replay, session, link, current>>
  BY DEF ReceiveReplay, ReceiveLive, server
<1>2. PICK i \in Positions :
        /\ Coming(i) /\ HandleUpdate(i)
        /\ \A j \in Positions : Coming(j) => i <= j
        /\ \A j \in Positions : (feed'.position < j \/ j \in feed'.captured) <=> (Coming(j) /\ j # i)
        /\ feed'.kinds = feed.kinds
  BY ReceivesLeast
<1> DEFINE b == replay.pushed[i]
           asked == b.item.kind \in feed.kinds
<1>3. /\ OutputTyped'
      /\ \A k : Given(k) => Given(k)'
      /\ \A k : Given(k)' => Given(k) \/ k = i
      /\ asked => Given(i)'
      /\ Given(i)' => Given(i) \/ asked
      /\ finality' = IF asked /\ Final(b) THEN Block(b.height, b.item.fork) ELSE finality
  BY <1>1, <1>2, HandleGives
<1>4. /\ Len(replay.pushed) \in Nat /\ MaxHeight \in Nat /\ i \in Nat
      /\ \A j \in Positions : replay.pushed[j].height \in 1 .. MaxHeight
  BY MissTypes DEF MissInv, Positions
<1>5. \A j \in Positions : Coming(j)' <=> (Coming(j) /\ j # i)
  <2>1. feed'.position \in Nat
    BY <1>1, ReceiveClientInv DEF ClientInv, LinkInv, FeedInv
  <2> QED BY <1>1, <1>2, <2>1 DEF Coming, Positions
<1>6. KindsAsked'
  BY <1>1, <1>2 DEF MissInv, KindsAsked, AlwaysAsked
<1>7. \A k \in Positions :
        replay.pushed[k].item.kind \in AlwaysAsked /\ Coming(k) => Given(k)' \/ (k > i /\ Coming(k)')
  <2> TAKE k \in Positions
  <2> HAVE replay.pushed[k].item.kind \in AlwaysAsked /\ Coming(k)
  <2>1. CASE k = i
    BY <1>1, <1>3, <2>1 DEF MissInv, KindsAsked
  <2>2. CASE k # i
    BY <1>2, <1>4, <1>5, <2>2 DEF Positions
  <2> QED BY <2>1, <2>2
<1>8. FeedClosed'
  <2> SUFFICES ASSUME NEW j \in Positions, Final(replay.pushed[j]), Coming(j), j # i,
                      NEW k \in j .. Len(replay.pushed)
               PROVE  Coming(k) /\ k # i
    <3>1. \A j \in Positions : \A k \in j .. Len(replay.pushed) : k \in Positions
      BY <1>4 DEF Positions
    <3> QED BY <1>1, <1>5, <3>1 DEF FeedClosed, Positions
  <2>1. Coming(k)
    BY <1>1 DEF MissInv, FeedClosed
  <2>2. i < j
    BY <1>2, <1>4 DEF Positions
  <2> QED BY <1>4, <2>1, <2>2 DEF Positions
<1>9. Covered'
  <2> SUFFICES ASSUME NEW a \in Positions, Final(replay.pushed[a]), Given(a)'
               PROVE  \E f \in a .. Len(replay.pushed) : CoveredBy(a, f)'
    BY <1>1 DEF Covered, Positions
  <2> DEFINE Has(k, f) == Given(k)' \/ (k > f /\ Coming(k)')
  <2>1. ASSUME NEW f \in a .. Len(replay.pushed), Final(replay.pushed[f]),
               replay.pushed[f].height = finality'.height,
               \A k \in a .. Len(replay.pushed) :
                    replay.pushed[k].item.kind \in AlwaysAsked => Has(k, f)
        PROVE  \E g \in a .. Len(replay.pushed) : CoveredBy(a, g)'
    <3>1. CoveredBy(a, f)'
      BY <1>1, <2>1 DEF CoveredBy, AlwaysAsked
    <3> QED BY <3>1
  <2>2. \A k \in a .. Len(replay.pushed) : k \in Positions
    BY <1>4 DEF Positions
  <2>3. CASE asked /\ Final(b)
    <3>1. finality'.height = b.height
      BY <1>3, <2>3 DEF Block
    <3>2. a <= i
      <4>1. CASE Given(a)
        <5>1. PICK f \in a .. Len(replay.pushed) : CoveredBy(a, f)
          BY <4>1 DEF MissInv, Covered
        <5>2. f \in Positions /\ Final(replay.pushed[f]) /\ replay.pushed[f].height = finality.height
          BY <2>2, <5>1 DEF CoveredBy
        <5>3. b.height >= finality.height
          BY <1>1, <1>2, <2>3, SMTT(30) DEF ClientInv, LinkInv, FeedInv, Coming, Positions
        <5>4. i < f => f \in (i + 1) .. Len(replay.pushed)
          BY <1>4, <5>2 DEF Positions
        <5>5. ~(i < f)
          BY <1>4, <2>3, <5>2, <5>3, <5>4, HigherAfterFinal
        <5> QED BY <1>4, <5>1, <5>5 DEF Positions
      <4>2. CASE ~Given(a)
        BY <1>3, <1>4, <4>2
      <4> QED BY <4>1, <4>2
    <3>3. i \in a .. Len(replay.pushed)
      BY <1>4, <3>2 DEF Positions
    <3>4. \A k \in a .. Len(replay.pushed) : replay.pushed[k].item.kind \in AlwaysAsked => Has(k, i)
      <4> TAKE k \in a .. Len(replay.pushed)
      <4> HAVE replay.pushed[k].item.kind \in AlwaysAsked
      <4>1. CASE Coming(k)
        BY <1>7, <2>2, <4>1
      <4>2. CASE ~Coming(k)
        <5>1. ~(k >= i)
          <6>1. k >= i => k \in i .. Len(replay.pushed)
            BY <1>4, <2>2 DEF Positions
          <6>2. \A j \in i .. Len(replay.pushed) : Coming(j)
            BY <1>1, <1>2, <2>3 DEF MissInv, FeedClosed
          <6> QED BY <4>2, <6>1, <6>2
        <5>2. Given(a)
          BY <1>3, <1>4, <2>2, <5>1 DEF Positions
        <5>3. PICK f \in a .. Len(replay.pushed) : CoveredBy(a, f)
          BY <5>2 DEF MissInv, Covered
        <5> QED BY <1>3, <4>2, <5>3 DEF CoveredBy
      <4> QED BY <4>1, <4>2
    <3> HIDE DEF Has
    <3> QED BY <2>1, <2>3, <3>1, <3>3, <3>4
  <2>4. CASE ~(asked /\ Final(b))
    <3>1. finality' = finality
      BY <1>3, <2>4
    <3>2. Given(a)
      BY <1>3, <2>4
    <3>3. PICK f \in a .. Len(replay.pushed) : CoveredBy(a, f)
      BY <3>2 DEF MissInv, Covered
    <3>4. \A k \in a .. Len(replay.pushed) : replay.pushed[k].item.kind \in AlwaysAsked => Has(k, f)
      <4> TAKE k \in a .. Len(replay.pushed)
      <4> HAVE replay.pushed[k].item.kind \in AlwaysAsked
      <4>1. Given(k) \/ (k > f /\ Coming(k))
        BY <3>3 DEF CoveredBy
      <4>2. CASE Given(k)
        BY <1>3, <4>2
      <4>3. CASE k > f /\ Coming(k)
        <5>1. Given(k)' \/ Coming(k)'
          BY <1>7, <2>2, <4>3
        <5> QED BY <4>3, <5>1
      <4> QED BY <4>1, <4>2, <4>3
    <3>5. Final(replay.pushed[f]) /\ replay.pushed[f].height = finality'.height
      BY <3>1, <3>3 DEF CoveredBy
    <3> HIDE DEF Has
    <3> QED BY <2>1, <3>4, <3>5
  <2> QED BY <2>3, <2>4
<1> QED BY <1>1, <1>3, <1>6, <1>8, <1>9 DEF MissInv

LEMMA NextMiss ==
    RecoversAll /\ ClientInv /\ MissInv /\ [ClientNext]_cvars => MissInv'
<1> SUFFICES ASSUME RecoversAll, ClientInv, MissInv, [ClientNext]_cvars PROVE MissInv'
  OBVIOUS
<1>1. CASE ClientNext
  BY <1>1, NodeMiss, LossMiss, OpenMiss, ConnectMiss, RequestMiss, ReceiveMiss DEF ClientNext
<1>2. CASE UNCHANGED cvars
  <2>1. UNCHANGED <<replay, session, link, feed, current, finality, dedup, ask, output>>
    BY <1>2 DEF cvars, server, client, chainState, outage, application
  <2>2. \A i : (Given(i)' <=> Given(i)) /\ (Coming(i)' <=> Coming(i))
    BY <2>1, SameGiven DEF Coming
  <2>3. OutputTyped' /\ KindsAsked'
    BY <2>1 DEF MissInv, OutputTyped, KindsAsked, AlwaysAsked, Positions, Seen
  <2>4. FeedClosed' /\ Covered'
    BY <2>1, <2>2 DEF MissInv, FeedClosed, Covered, CoveredBy, AlwaysAsked, Positions
  <2> QED BY <2>1, <2>3, <2>4 DEF MissInv
<1> QED BY <1>1, <1>2

\* A client that recovers missed data is given everything the node publishes after the
\* first finalized block it was given in the session, through any outages, whatever the
\* window, the buffer and the retention are: the server refuses the resume or replays
\* all that follows its anchor.
THEOREM NothingIsMissed == RecoversAll => (ClientSpec => []NothingMissedAfterFinality)
<1>1. ASSUME ClientInv, MissInv PROVE NothingMissedAfterFinality
  <2> SUFFICES ASSUME Drained, NEW a \in Positions, Final(replay.pushed[a]), Given(a),
                      NEW i \in a .. Len(replay.pushed),
                      replay.pushed[i].item.kind \in AlwaysAsked
               PROVE  Given(i)
    BY DEF NothingMissedAfterFinality, Positions, Final
  <2>1. PICK f \in a .. Len(replay.pushed) : CoveredBy(a, f)
    BY <1>1 DEF MissInv, Covered
  <2>2. ~Coming(i)
    BY <1>1, MissTypes DEF Coming, Drained, Positions, MissInv
  <2> QED BY <2>1, <2>2 DEF CoveredBy
<1>2. ClientInit => MissInv
  BY InitMiss
<1> SUFFICES ASSUME RecoversAll PROVE ClientSpec => []NothingMissedAfterFinality
  OBVIOUS
<1>3. ClientInv /\ ClientInv' /\ MissInv /\ [ClientNext]_cvars => MissInv'
  BY NextMiss
<1> QED BY <1>1, <1>2, <1>3, ClientInvariant, PTL DEF ClientSpec

-----------------------------------------------------------------------------
(***************************************************************************)
(* Nothing missed without a finalized block.  The client then asks from    *)
(* the last height less a buffer.  That is enough because the updates of a *)
(* node reach back less than FinalityDepth: GapInv follows what that means *)
(* for what is still to come, what the next request asks for, and what was *)
(* captured before the client was given anything.                          *)
(***************************************************************************)
\* The height the node's tip has or is about to have: what it last accepted on its chain.
Reach == IF next = "grow" THEN Tip + 1 ELSE Tip

\* The node keeps to its finality depth, but for the block it is about to finalize.
DepthKept ==
    Reach - finalized <= IF next \in {"grow", "finalize"} THEN FinalityDepth + 1 ELSE FinalityDepth

\* How far back the updates of a node can go: none is above the reach, and no unfinalized
\* one is FinalityDepth or more below an earlier one.
DepthInv ==
    /\ DepthKept
    /\ \A i \in Positions : replay.pushed[i].height <= Reach
    /\ \A i \in Positions : ~Final(replay.pushed[i]) =>
        \A q \in 1 .. i : replay.pushed[q].height < replay.pushed[i].height + FinalityDepth

\* What a node step adds to the history.
NewPositions == (Len(replay.pushed) + 1) .. Len(replay'.pushed)

\* A published bucket is at the end of the history, whose oldest buckets stay evicted.
LEMMA PublishAppends ==
    ASSUME Running, NEW height \in 1 .. MaxHeight, NEW item \in Items, Publish(height, item)
    PROVE  /\ Len(replay.pushed) \in Nat
           /\ replay'.popped \in Nat /\ replay.popped \in Nat /\ replay'.popped >= replay.popped
           /\ NewPositions \subseteq {Len(replay.pushed) + 1}
           /\ \A i \in NewPositions :
                replay'.pushed[i].height = height /\ replay'.pushed[i].item = item
<1> DEFINE n == Len(replay.pushed)
           b == Batch(height, item, n + 1, n + 1, 1)
<1>1. /\ n \in Nat /\ Sound(replay', Items)
      /\ IF HeightCapacity = 0 THEN replay' = replay
         ELSE /\ Len(replay'.pushed) = n + 1
              /\ replay'.pushed[n + 1].height = height
              /\ replay'.pushed[n + 1].item = item
  BY PublishKeeps
<1>2. replay.popped \in Nat /\ replay'.popped \in Nat /\ Len(replay'.pushed) \in Nat
  BY <1>1, LenProperties DEF Running, OrderInv, Sound, Typed
<1>3. replay'.popped >= replay.popped
  <2>1. PushesTo(replay, b, clock, replay')
    BY DEF Publish
  <2>2. CASE HeightCapacity = 0
    BY <1>1, <1>2, <2>2
  <2>3. CASE HeightCapacity # 0
    <3>1. PushBack(replay, b, clock).popped = replay.popped
      BY DEF PushBack
    <3>2. PICK k \in replay.popped .. Len(PushBack(replay, b, clock).pushed) :
            replay' = PopThrough(PushBack(replay, b, clock), k)
      BY <2>1, <2>3, <3>1 DEF PushesTo, EvictsTo
    <3>3. replay'.popped = k
      BY <3>2 DEF PopThrough
    <3> QED BY <1>2, <3>2, <3>3
  <2> QED BY <2>2, <2>3
<1>4. /\ NewPositions \subseteq {n + 1}
      /\ \A i \in NewPositions : replay'.pushed[i].height = height /\ replay'.pushed[i].item = item
  <2>1. CASE HeightCapacity = 0
    BY <1>1, <2>1 DEF NewPositions
  <2>2. CASE HeightCapacity # 0
    BY <1>1, <2>2 DEF NewPositions
  <2> QED BY <2>1, <2>2
<1> QED BY <1>1, <1>2, <1>3, <1>4

\* An event of the node: an unfinalized block it is about is less than FinalityDepth below
\* the reach, which never falls.
LEMMA EventDepth ==
    ASSUME Running, DepthKept, NodeStep
    PROVE  /\ DepthKept'
           /\ Reach \in Nat /\ Reach' \in Nat /\ Reach' >= Reach
           /\ Len(replay.pushed) \in Nat
           /\ replay'.popped \in Nat /\ replay.popped \in Nat /\ replay'.popped >= replay.popped
           /\ NewPositions \subseteq {Len(replay.pushed) + 1}
           /\ \A i \in NewPositions :
                /\ replay'.pushed[i].height > finalized
                /\ replay'.pushed[i].height <= Reach'
                /\ ~Final(replay'.pushed[i]) => replay'.pushed[i].height + FinalityDepth > Reach'
<1>1. /\ Tip \in Nat /\ finalized \in Nat /\ finalized <= Tip /\ Tip <= MaxHeight
      /\ MaxHeight \in Nat /\ best \in [0 .. Tip -> Forks]
      /\ branch \in [from : 0 .. Tip, to : 0 .. Tip]
      /\ FinalityDepth \in Nat /\ FinalityDepth > 0
  BY ChainAssumption DEF Running, NodeInv
<1>2. Reach \in Nat
  BY <1>1 DEF Reach
<1>3. ASSUME NEW height \in 1 .. MaxHeight, NEW item \in Items, Publish(height, item),
             DepthKept', Reach' \in Nat, Reach' >= Reach, height > finalized, height <= Reach',
             item.kind # "finalized" => height + FinalityDepth > Reach'
      PROVE  /\ DepthKept'
             /\ Reach \in Nat /\ Reach' \in Nat /\ Reach' >= Reach
             /\ Len(replay.pushed) \in Nat
             /\ replay'.popped \in Nat /\ replay.popped \in Nat /\ replay'.popped >= replay.popped
             /\ NewPositions \subseteq {Len(replay.pushed) + 1}
             /\ \A i \in NewPositions :
                  /\ replay'.pushed[i].height > finalized
                  /\ replay'.pushed[i].height <= Reach'
                  /\ ~Final(replay'.pushed[i]) => replay'.pushed[i].height + FinalityDepth > Reach'
  <2>1. /\ Len(replay.pushed) \in Nat
        /\ replay'.popped \in Nat /\ replay.popped \in Nat /\ replay'.popped >= replay.popped
        /\ NewPositions \subseteq {Len(replay.pushed) + 1}
        /\ \A i \in NewPositions :
                replay'.pushed[i].height = height /\ replay'.pushed[i].item = item
    BY <1>3, PublishAppends
  <2>2. \A i \in NewPositions :
            /\ replay'.pushed[i].height > finalized
            /\ replay'.pushed[i].height <= Reach'
            /\ ~Final(replay'.pushed[i]) => replay'.pushed[i].height + FinalityDepth > Reach'
    BY <1>3, <2>1 DEF Final
  <2> QED BY <1>2, <1>3, <2>1, <2>2
<1>4. ASSUME NEW from, NEW height \in Int, next \in {"accept", "branch"},
             finalized < height, height <= Tip, AcceptSideBlock(from, height)
      PROVE  /\ height \in 1 .. MaxHeight /\ Item("accepted", "side") \in Items
             /\ Item("accepted", "side").kind = "accepted"
             /\ Publish(height, Item("accepted", "side"))
             /\ DepthKept' /\ Reach' \in Nat /\ Reach' >= Reach /\ height <= Reach'
             /\ height + FinalityDepth > Reach'
  <2>1. Tip' = Tip /\ finalized' = finalized /\ next' \in {"branch", "reset"}
    BY <1>4 DEF AcceptSideBlock, Tip
  <2>2. Reach' = Tip /\ Reach = Tip
    BY <1>4, <2>1 DEF Reach
  <2>3. DepthKept'
    BY <1>4, <2>1, <2>2 DEF DepthKept
  <2> QED BY <1>1, <1>4, <2>2, <2>3, ItemKinds DEF AcceptSideBlock, Forks, DepthKept
<1>5. CASE AcceptBlock
  <2>1. /\ next = "accept" /\ next' = "grow" /\ finalized' = finalized /\ Tip' = Tip
        /\ Tip + 1 \in 1 .. MaxHeight /\ Publish(Tip + 1, Item("accepted", "main"))
        /\ Item("accepted", "main") \in Items
    <3>1. Tip' = Tip
      BY <1>5 DEF AcceptBlock, Tip
    <3> QED BY <1>1, <1>5, <3>1, ItemKinds DEF AcceptBlock, Forks
  <2>2. Reach' = Tip + 1 /\ Reach = Tip
    BY <2>1 DEF Reach
  <2>3. DepthKept'
    BY <1>1, <2>1, <2>2 DEF DepthKept
  <2>4. /\ Item("accepted", "main").kind # "finalized" => Tip + 1 + FinalityDepth > Reach'
        /\ Reach' \in Nat /\ Reach' >= Reach /\ Tip + 1 > finalized /\ Tip + 1 <= Reach'
    BY <1>1, <2>2
  <2> QED BY <1>3, <2>1, <2>3, <2>4
<1>6. CASE BeginBranch
  <2>1. PICK height \in (finalized + 1) .. Tip : AcceptSideBlock(height, height)
    BY <1>6 DEF BeginBranch
  <2>2. height \in Int /\ finalized < height /\ height <= Tip /\ next = "accept"
    BY <1>1, <1>6 DEF BeginBranch
  <2>3. /\ height \in 1 .. MaxHeight /\ Item("accepted", "side") \in Items
        /\ Item("accepted", "side").kind = "accepted"
        /\ Publish(height, Item("accepted", "side"))
        /\ DepthKept' /\ Reach' \in Nat /\ Reach' >= Reach /\ height <= Reach'
        /\ height + FinalityDepth > Reach'
    BY <1>4, <2>1, <2>2
  <2> QED BY <1>3, <2>2, <2>3
<1>7. CASE GrowBranch
  <2> DEFINE height == branch.to + 1
  <2>1. AcceptSideBlock(branch.from, height)
    BY <1>7 DEF GrowBranch
  <2>2. /\ height \in Int /\ finalized < height /\ height <= Tip /\ next = "branch"
    BY <1>1, <1>7 DEF GrowBranch, Running, NodeInv
  <2> HIDE DEF height
  <2>3. /\ height \in 1 .. MaxHeight /\ Item("accepted", "side") \in Items
        /\ Item("accepted", "side").kind = "accepted"
        /\ Publish(height, Item("accepted", "side"))
        /\ DepthKept' /\ Reach' \in Nat /\ Reach' >= Reach /\ height <= Reach'
        /\ height + FinalityDepth > Reach'
    BY <1>4, <2>1, <2>2
  <2> QED BY <1>3, <2>2, <2>3
<1>8. CASE GrowBestChain
  <2>1. /\ next = "grow" /\ Tip < MaxHeight /\ Publish(Tip + 1, Item("best", "main"))
        /\ finalized' = finalized
        /\ next' = IF Tip + 1 - finalized > FinalityDepth THEN "finalize" ELSE "accept"
        /\ Item("best", "main") \in Items
    BY <1>8, ItemKinds DEF GrowBestChain, Running, NodeInv, Forks
  <2>2. best' = [h \in 0 .. (Tip + 1) |-> IF h = Tip + 1 THEN "main" ELSE best[h]]
    <3>1. DOMAIN best \union {Tip + 1} = 0 .. (Tip + 1)
      BY <1>1
    <3> QED BY <1>8, <3>1 DEF GrowBestChain
  <2>3. Tip' = Tip + 1
    <3>1. DOMAIN best' = 0 .. (Tip + 1) /\ Tip + 1 \in Nat
      BY <1>1, <2>2
    <3>2. Tip' = CHOOSE h \in 0 .. (Tip + 1) : \A g \in 0 .. (Tip + 1) : g <= h
      BY <3>1 DEF Tip
    <3> QED BY <3>1, <3>2, LastHeight
  <2>4. Reach = Tip + 1 /\ Reach' = Tip + 1
    BY <2>1, <2>3 DEF Reach
  <2>5. DepthKept'
    BY <1>1, <2>1, <2>4 DEF DepthKept
  <2> QED BY <1>1, <1>3, <2>1, <2>4, <2>5
<1>9. CASE ResetBestChain
  <2>1. /\ Publish(Tip, Reset(branch.from)) /\ finalized' = finalized /\ next = "reset"
        /\ next' = "accept" /\ finalized < branch.from /\ branch.from \in 1 .. Tip
        /\ DOMAIN best' = DOMAIN best
        /\ Reset(branch.from) \in Items
    BY <1>1, <1>9, ItemKinds DEF ResetBestChain, Running, NodeInv
  <2>2. Tip' = Tip
    BY <2>1 DEF Tip
  <2>3. Reach = Tip /\ Reach' = Tip /\ Tip \in 1 .. MaxHeight
    BY <1>1, <2>1, <2>2 DEF Reach
  <2>4. DepthKept'
    BY <1>1, <2>1, <2>3 DEF DepthKept
  <2> QED BY <1>1, <1>3, <2>1, <2>3, <2>4
<1>10. CASE FinalizeBlock
  <2>1. /\ next = "finalize" /\ next' = "accept" /\ finalized < Tip
        /\ finalized' = finalized + 1 /\ best' = best
        /\ Publish(finalized + 1, Item("finalized", best[finalized + 1]))
        /\ Item("finalized", best[finalized + 1]) \in Items
        /\ Item("finalized", best[finalized + 1]).kind = "finalized"
    <3>1. finalized < Tip
      BY <1>10 DEF FinalizeBlock, Running, NodeInv
    <3>2. best[finalized + 1] \in Forks
      BY <1>1, <3>1
    <3> QED BY <1>10, <3>1, <3>2, ItemKinds DEF FinalizeBlock
  <2>2. Tip' = Tip
    BY <2>1 DEF Tip
  <2>3. Reach = Tip /\ Reach' = Tip
    BY <2>1, <2>2 DEF Reach
  <2>4. DepthKept'
    BY <1>1, <2>1, <2>3 DEF DepthKept
  <2>5. finalized + 1 \in 1 .. MaxHeight
    BY <1>1, <2>1
  <2> QED BY <1>1, <1>3, <2>1, <2>3, <2>4, <2>5
<1> QED BY <1>5, <1>6, <1>7, <1>8, <1>9, <1>10 DEF NodeStep

-----------------------------------------------------------------------------
\* The buffer reaches below the last height as far as an unfinalized block can be.
BufferSuffices == HeightBuffer + 1 >= FinalityDepth

Unfinalized(i) == ~Final(replay.pushed[i])

\* The application has been given nothing in this session.
NoneGiven == \A k \in DOMAIN output : output[k][1] # session

\* What the next request of an outage is made from.
ResumeInv ==
    /\ checkpoint <= Reach \/ checkpoint <= 1
    /\ current.from \in {NoHeight, 1}
    /\ output # <<>> => checkpoint >= 1
    /\ link = "new" => output = <<>>
    /\ link = "down" => ask = Ask

\* An update still to come is not below the finalized block, and without one not below
\* what the buffer makes of the last height.
FeedInReach ==
    link = "up" =>
        \A i \in Positions : Coming(i) =>
            /\ replay.pushed[i].height >= finality.height
            /\ finality = NoAnchor /\ Unfinalized(i)
               => replay.pushed[i].height + HeightBuffer >= checkpoint

\* A last height left from the session before is no obstacle either.
OldCheckpoint ==
    NoneGiven =>
        \A i \in Positions : Unfinalized(i) => replay.pushed[i].height + FinalityDepth > checkpoint

\* A client that has been given nothing yet has no gap in what is to come.
FeedUnbroken ==
    link = "up" /\ NoneGiven =>
        \A j \in Positions : Coming(j) =>
            \A i \in Retained(replay) :
                i > j /\ Unfinalized(i) => Coming(i) \/ BelowFinality(i)

\* The connection has yet to deliver position i, or the next request asks for it.
Owed(i) ==
    /\ Coming(i)
    /\ link = "down" =>
        ReplayHeight(ask) # NoHeight /\ replay.pushed[i].height >= ReplayHeight(ask)

Owing ==
    \A a \in Positions : FirstGiven(a) =>
        \A i \in Retained(replay) :
            i >= a /\ replay.pushed[i].item.kind \in AlwaysAsked \ {"finalized"}
            => Given(i) \/ Owed(i) \/ BelowFinality(i)

GapInv ==
    /\ DepthInv /\ ResumeInv
    /\ FeedInReach /\ OldCheckpoint /\ FeedUnbroken
    /\ Owing

\* The invariants a step starts from.
Client == ClientInv /\ MissInv /\ GapInv

-----------------------------------------------------------------------------
\* What is used of the types.
LEMMA GapTypes ==
    ASSUME Client
    PROVE  /\ Len(replay.pushed) \in Nat /\ replay.popped \in Nat
           /\ \A i \in Positions : replay.pushed[i].height \in Nat /\ replay.pushed[i].height >= 1
           /\ checkpoint \in Int /\ finality.height \in Nat /\ Reach \in Nat
           /\ checkpoint = NoHeight \/ checkpoint \in Nat
           /\ HeightBuffer \in Nat /\ FinalityDepth \in Nat /\ FinalityDepth >= 1
           /\ finality = NoAnchor \/ finality.height >= 1
           /\ Retained(replay) \subseteq Positions
           /\ Len(output) \in Nat /\ DOMAIN output = 1 .. Len(output)
<1>1. /\ Len(replay.pushed) \in Nat /\ replay.popped \in Nat /\ MaxHeight \in Nat
      /\ \A i \in Positions : replay.pushed[i].height \in 1 .. MaxHeight
      /\ Len(output) \in Nat /\ DOMAIN output = 1 .. Len(output)
  BY MissTypes, SMTT(30) DEF Client, MissInv, ClientInv, Running, OrderInv, Sound, Typed
<1>2. Tip \in Nat
  BY <1>1 DEF Client, ClientInv, Running, NodeInv
<1>3. Reach \in Nat
  BY <1>2 DEF Reach
<1>4. checkpoint \in Int /\ (checkpoint = NoHeight \/ checkpoint \in Nat)
      /\ finality.height \in 0 .. MaxHeight
      /\ (finality # NoAnchor => finality.height \in 1 .. MaxHeight)
  BY <1>1, AnchorHeight DEF Client, ClientInv, ChainStateTyped, NoHeight
<1>5. Retained(replay) \subseteq Positions
  BY <1>1 DEF Retained, Positions
<1>6. \A i \in Positions : replay.pushed[i].height \in Nat /\ replay.pushed[i].height >= 1
  BY <1>1
<1>7. finality.height \in Nat /\ (finality = NoAnchor \/ finality.height >= 1)
  BY <1>1, <1>4
<1>8. HeightBuffer \in Nat /\ FinalityDepth \in Nat /\ FinalityDepth >= 1
  BY ChainAssumption, ClientAssumption
<1> QED BY <1>1, <1>3, <1>4, <1>5, <1>6, <1>7, <1>8, Zenon

LEMMA SameFirstGiven ==
    ASSUME UNCHANGED <<output, session>>
    PROVE  (\A a : FirstGiven(a)' <=> FirstGiven(a)) /\ (NoneGiven' <=> NoneGiven)
BY DEF FirstGiven, NoneGiven, Key

\* A longer history puts nothing above or below the finalized blocks given.
LEMMA SameBelow ==
    ASSUME Client, UNCHANGED <<output, session, finality>>,
           \A i \in Positions : replay'.pushed[i] = replay.pushed[i],
           NEW i \in Positions, BelowFinality(i)
    PROVE  BelowFinality(i)'
<1>1. replay'.pushed[i].height < finality'.height
  BY DEF BelowFinality
<1>2. ASSUME NEW j \in 1 .. Len(replay'.pushed), replay'.pushed[j].item.kind = "finalized", Given(j)'
      PROVE  replay'.pushed[i].height < replay'.pushed[j].height
  <2>1. Given(j)
    BY <1>2, SameGiven
  <2>2. j \in Positions
    BY <2>1, MissTypes DEF Client, MissInv
  <2> QED BY <1>2, <2>1, <2>2 DEF BelowFinality, Positions
<1> QED BY <1>1, <1>2 DEF BelowFinality

\* The first request of an outage asks for whatever is not below the finalized block, or
\* without one not below what the buffer makes of the last height.
LEMMA AskReaches ==
    ASSUME RecoversAll, Client, checkpoint >= 1, NEW h \in Nat, h >= 1, h >= finality.height,
           finality = NoAnchor => h + HeightBuffer >= checkpoint
    PROVE  ReplayHeight(Ask) # NoHeight /\ h >= ReplayHeight(Ask)
<1>1. /\ checkpoint \in Int /\ finality.height \in Nat /\ HeightBuffer \in Nat
      /\ finality = NoAnchor \/ finality.height >= 1
  BY GapTypes
<1>2. Ask.resume = finality
  BY DEF Ask, Anchor, RecoversAll
<1>3. CASE finality # NoAnchor
  <2>1. ReplayHeight(Ask) = finality.height
    BY <1>2, <1>3 DEF ReplayHeight
  <2> QED BY <1>1, <1>3, <2>1 DEF NoHeight
<1>4. CASE finality = NoAnchor
  <2> DEFINE low == LowerBy(checkpoint, HeightBuffer)
  <2>1. ReplayHeight(Ask) = low
    BY <1>2, <1>4, <1>1 DEF ReplayHeight, Ask, RecoversAll, NoHeight
  <2>2. low \in Nat /\ low <= h
    BY <1>1, <1>4 DEF LowerBy
  <2> HIDE DEF low
  <2> QED BY <2>1, <2>2 DEF NoHeight
<1> QED BY <1>3, <1>4

LEMMA InitGap == ClientInit => GapInv
<1> SUFFICES ASSUME ClientInit PROVE GapInv
  OBVIOUS
<1>1. /\ output = <<>> /\ link = "new" /\ replay.pushed = <<>> /\ checkpoint = NoHeight
      /\ current.from = NoHeight /\ next = "accept" /\ finalized = 0 /\ best = [h \in 0 .. 0 |-> "main"]
  BY DEF ClientInit, Init, EmptyReplay, NoRequest, NoHeight
<1>2. Tip = 0
  <2>1. Tip = CHOOSE h \in 0 .. 0 : \A g \in 0 .. 0 : g <= h
    BY <1>1 DEF Tip
  <2> QED BY <2>1, LastHeight
<1>3. Positions = {}
  BY <1>1 DEF Positions
<1>4. DepthInv
  BY <1>1, <1>2, <1>3, ChainAssumption DEF DepthInv, DepthKept, Reach
<1>5. ResumeInv
  BY <1>1, <1>2 DEF ResumeInv, NoHeight
<1> QED BY <1>1, <1>3, <1>4, <1>5 DEF GapInv, FeedInReach, OldCheckpoint, FeedUnbroken, Owing

\* An event of the node: a new unfinalized block is above the finalized one, and less than
\* FinalityDepth below the last height.
LEMMA NodeGap ==
    ASSUME RecoversAll, BufferSuffices, Client, NodeEvent PROVE GapInv'
<1> DEFINE n == Len(replay.pushed)
<1>1. /\ DepthKept'
      /\ Reach' \in Nat /\ Reach' >= Reach
      /\ replay'.popped \in Nat /\ replay.popped \in Nat /\ replay'.popped >= replay.popped
      /\ NewPositions \subseteq {n + 1}
      /\ \A i \in NewPositions :
            /\ replay'.pushed[i].height > finalized
            /\ replay'.pushed[i].height <= Reach'
            /\ Unfinalized(i)' => replay'.pushed[i].height + FinalityDepth > Reach'
  <2>1. Running /\ DepthKept /\ NodeStep
    BY DEF Client, ClientInv, GapInv, DepthInv, NodeEvent
  <2> QED BY <2>1, EventDepth DEF Unfinalized
<1>2. /\ UNCHANGED <<session, link, feed, current, checkpoint, finality, partial, ask, output>>
      /\ link = "up" => FeedInv
  BY DEF NodeEvent, client, chainState, outage, application, Client, ClientInv, LinkInv
<1>3. /\ Len(replay'.pushed) \in Nat /\ n \in Nat /\ n <= Len(replay'.pushed)
      /\ \A i \in Positions : replay'.pushed[i] = replay.pushed[i]
      /\ \A i \in Positions' : replay'.pushed[i].height \in Nat
  <2>1. Running' /\ HistoryGrows
    BY EventRunning DEF Client, ClientInv, NodeEvent, EventLeaves
  <2>2. Len(replay'.pushed) \in Nat
    BY <2>1, LenProperties DEF Running, OrderInv, Sound, Typed
  <2>3. \A i \in Positions' : replay'.pushed[i].height \in Nat
    BY <2>1, ChainAssumption DEF Running, OrderInv, Positions
  <2> QED BY <2>1, <2>2, <2>3, GapTypes DEF HistoryGrows, Positions
<1>4. \A i \in Positions' : i \in Positions \/ (i \in NewPositions /\ i = n + 1)
  BY <1>1, <1>3 DEF Positions, NewPositions
<1>5. /\ checkpoint \in Int /\ finality.height \in Nat /\ Reach \in Nat /\ HeightBuffer \in Nat
      /\ FinalityDepth \in Nat /\ FinalityDepth >= 1 /\ finalized \in Nat
      /\ finality.height <= finalized
      /\ \A i \in Positions : replay.pushed[i].height <= Reach
      /\ checkpoint <= Reach \/ checkpoint <= 1
  <2>1. finalized \in Nat
    BY ChainAssumption DEF Client, ClientInv, Running, NodeInv
  <2> QED BY <2>1, GapTypes DEF Client, ClientInv, GapInv, DepthInv, ResumeInv
<1>6. ASSUME NEW i \in NewPositions, Unfinalized(i)'
      PROVE  /\ replay'.pushed[i].height >= 1 /\ replay'.pushed[i].height >= finality.height
             /\ replay'.pushed[i].height + FinalityDepth > checkpoint
             /\ replay'.pushed[i].height + HeightBuffer >= checkpoint
  <2> DEFINE h == replay'.pushed[i].height
  <2>1. h \in Nat
    BY <1>3 DEF NewPositions, Positions
  <2>2. h > finalized /\ h + FinalityDepth > Reach'
    BY <1>1, <1>6
  <2> HIDE DEF h
  <2>3. h >= 1 /\ h >= finality.height
    BY <1>5, <2>1, <2>2
  <2>4. h + FinalityDepth > checkpoint
    BY <1>1, <1>5, <2>1, <2>2, <2>3
  <2>5. h + HeightBuffer >= checkpoint
    BY <1>5, <2>1, <2>4 DEF BufferSuffices
  <2> QED BY <2>3, <2>4, <2>5 DEF h
<1>7. \A i \in Positions : Unfinalized(i)' <=> Unfinalized(i)
  BY <1>3 DEF Unfinalized, Final
<1>8. \A i \in Positions : i \in Retained(replay') => i \in Retained(replay)
  BY <1>1, <1>3 DEF Retained, Positions
<1>9. /\ \A i : Coming(i)' <=> Coming(i)
      /\ \A i \in NewPositions : Coming(i)
  <2>1. link = "up" => feed.position \in Nat /\ feed.position <= n
    BY <1>2 DEF FeedInv
  <2> QED BY <1>2, <1>3, <2>1 DEF Coming, NewPositions
<1>10. \A i \in Retained(replay') : i \in Positions'
  BY <1>1, <1>3 DEF Retained, Positions
<1>11. DepthInv'
  <2>1. ASSUME NEW i \in Positions' PROVE replay'.pushed[i].height <= Reach'
    <3>1. CASE i \in Positions
      BY <1>1, <1>3, <1>5, <2>1, <3>1, SMTT(30)
    <3>2. CASE i \in NewPositions
      BY <1>1, <3>2
    <3> QED BY <1>4, <3>1, <3>2
  <2>2. ASSUME NEW i \in Positions', Unfinalized(i)', NEW q \in 1 .. i
        PROVE  replay'.pushed[q].height < replay'.pushed[i].height + FinalityDepth
    <3>1. CASE i \in Positions
      <4>1. q \in Positions /\ replay'.pushed[q] = replay.pushed[q] /\ replay'.pushed[i] = replay.pushed[i]
        BY <1>3, <3>1 DEF Positions
      <4> QED BY <1>7, <2>2, <3>1, <4>1 DEF Client, GapInv, DepthInv, Unfinalized
    <3>2. CASE i \in NewPositions
      <4>1. q \in Positions'
        BY <1>3, <2>2 DEF Positions
      <4>2. replay'.pushed[q].height <= Reach' /\ replay'.pushed[i].height + FinalityDepth > Reach'
        BY <1>1, <2>1, <2>2, <3>2, <4>1
      <4>3. replay'.pushed[q].height \in Nat /\ replay'.pushed[i].height \in Nat
        BY <1>3, <4>1
      <4>4. Reach' \in Int
        BY <1>1, <1>5
      <4> QED BY <1>5, <4>2, <4>3, <4>4
    <3> QED BY <1>4, <3>1, <3>2
  <2> QED BY <1>1, <2>1, <2>2 DEF DepthInv, Unfinalized
<1>12. ResumeInv'
  <2>1. Ask' = Ask
    BY <1>2 DEF Ask, Anchor
  <2> QED BY <1>1, <1>2, <1>5, <2>1 DEF Client, GapInv, ResumeInv
<1>13. FeedInReach'
  <2> SUFFICES ASSUME link = "up", NEW i \in Positions', Coming(i)
               PROVE  /\ replay'.pushed[i].height >= finality.height
                      /\ finality = NoAnchor /\ Unfinalized(i)'
                         => replay'.pushed[i].height + HeightBuffer >= checkpoint
    BY <1>2, <1>9 DEF FeedInReach
  <2>1. CASE i \in Positions
    BY <1>3, <1>7, <2>1 DEF Client, GapInv, FeedInReach
  <2>2. CASE i \in NewPositions
    BY <1>1, <1>3, <1>5, <1>6, <2>2, SMTT(30)
  <2> QED BY <1>4, <2>1, <2>2
<1>14. OldCheckpoint'
  <2> SUFFICES ASSUME NoneGiven, NEW i \in Positions', Unfinalized(i)'
               PROVE  replay'.pushed[i].height + FinalityDepth > checkpoint
    BY <1>2, SameFirstGiven DEF OldCheckpoint
  <2>1. CASE i \in Positions
    BY <1>3, <1>7, <2>1 DEF Client, GapInv, OldCheckpoint
  <2>2. CASE i \in NewPositions
    BY <1>6, <2>2
  <2> QED BY <1>4, <2>1, <2>2
<1>15. FeedUnbroken'
  <2> SUFFICES ASSUME link = "up", NoneGiven, NEW j \in Positions', Coming(j),
                      NEW i \in Retained(replay'), i > j, Unfinalized(i)'
               PROVE  Coming(i) \/ BelowFinality(i)'
    BY <1>2, <1>9, SameFirstGiven DEF FeedUnbroken
  <2>1. CASE i \in Positions
    <3>1. i \in Retained(replay) /\ Unfinalized(i) /\ j \in Positions
      BY <1>3, <1>7, <1>8, <2>1 DEF Positions
    <3>2. Coming(i) \/ BelowFinality(i)
      BY <3>1 DEF Client, GapInv, FeedUnbroken
    <3> QED BY <1>2, <1>3, <2>1, <3>2, SameBelow
  <2>2. CASE i \in NewPositions
    BY <1>9, <2>2
  <2> QED BY <1>4, <1>10, <2>1, <2>2
<1>16. Owing'
  <2> SUFFICES ASSUME NEW a \in Positions', FirstGiven(a), NEW i \in Retained(replay'), i >= a,
                      replay'.pushed[i].item.kind \in AlwaysAsked \ {"finalized"}
               PROVE  Given(i)' \/ Owed(i)' \/ BelowFinality(i)'
    BY <1>2, SameFirstGiven DEF Owing, AlwaysAsked
  <2>1. Unfinalized(i)'
    BY DEF Unfinalized, Final
  <2>2. CASE i \in Positions
    <3>1. i \in Retained(replay) /\ a \in Positions /\ replay'.pushed[i] = replay.pushed[i]
      BY <1>3, <1>8, <2>2 DEF Positions
    <3>2. Given(i) \/ Owed(i) \/ BelowFinality(i)
      BY <3>1 DEF Client, GapInv, Owing
    <3>3. CASE Given(i)
      BY <1>2, <3>3, SameGiven
    <3>4. CASE Owed(i)
      <4>1. ReplayHeight(ask)' = ReplayHeight(ask)
        BY <1>2 DEF ReplayHeight
      <4> QED BY <1>2, <1>9, <3>1, <3>4, <4>1 DEF Owed
    <3>5. CASE BelowFinality(i)
      BY <1>2, <1>3, <2>2, <3>5, SameBelow
    <3> QED BY <3>2, <3>3, <3>4, <3>5
  <2>3. CASE i \in NewPositions
    <3>1. checkpoint >= 1
      BY DEF FirstGiven, Client, GapInv, ResumeInv
    <3>2. /\ replay'.pushed[i].height \in Nat /\ replay'.pushed[i].height >= 1
          /\ replay'.pushed[i].height >= finality.height
          /\ replay'.pushed[i].height + HeightBuffer >= checkpoint
      BY <1>3, <1>6, <1>10, <2>1, <2>3
    <3>3. ReplayHeight(Ask) # NoHeight /\ replay'.pushed[i].height >= ReplayHeight(Ask)
      BY <3>1, <3>2, AskReaches
    <3>4. link = "down" => ask' = Ask
      BY <1>2 DEF Client, GapInv, ResumeInv
    <3>5. Owed(i)'
      BY <1>2, <1>9, <2>3, <3>3, <3>4 DEF Owed, ReplayHeight
    <3> QED BY <3>5
  <2> QED BY <1>4, <1>10, <2>2, <2>3
<1> QED BY <1>11, <1>12, <1>13, <1>14, <1>15, <1>16 DEF GapInv

\* A connection is lost: what it had yet to deliver is asked for again.
LEMMA DisconnectGap ==
    ASSUME RecoversAll, Client, Disconnect PROVE GapInv'
<1>1. /\ link = "up" /\ link' = "down" /\ ask' = Ask
      /\ UNCHANGED <<replay, best, finalized, next, session, current, checkpoint, finality, partial,
                     output>>
  BY DEF Disconnect, LoseConnection, server, node, chainState, application
<1>2. Ask' = Ask /\ Reach' = Reach
  BY <1>1 DEF Ask, Anchor, Reach, Tip
<1>3. DepthInv' /\ ResumeInv'
  BY <1>1, <1>2 DEF Client, GapInv, DepthInv, DepthKept, Positions, ResumeInv
<1>4. FeedInReach' /\ FeedUnbroken'
  BY <1>1 DEF FeedInReach, FeedUnbroken
<1>5. OldCheckpoint'
  BY <1>1, SameFirstGiven DEF Client, GapInv, OldCheckpoint, Unfinalized, Positions
<1>6. Owing'
  <2> SUFFICES ASSUME NEW a \in Positions, FirstGiven(a), NEW i \in Retained(replay), i >= a,
                      replay.pushed[i].item.kind \in AlwaysAsked \ {"finalized"}
               PROVE  Given(i)' \/ Owed(i)' \/ BelowFinality(i)'
    BY <1>1, SameFirstGiven DEF Owing, Positions, AlwaysAsked
  <2>1. i \in Positions /\ Unfinalized(i)
    BY GapTypes DEF Unfinalized, Final
  <2>2. Given(i) \/ Owed(i) \/ BelowFinality(i)
    BY DEF Client, GapInv, Owing
  <2>3. CASE Given(i)
    BY <1>1, <2>3, SameGiven
  <2>4. CASE Owed(i)
    <3>1. checkpoint >= 1
      BY DEF FirstGiven, Client, GapInv, ResumeInv
    <3>2. /\ replay.pushed[i].height \in Nat /\ replay.pushed[i].height >= 1
          /\ replay.pushed[i].height >= finality.height
          /\ finality = NoAnchor => replay.pushed[i].height + HeightBuffer >= checkpoint
      BY <1>1, <2>1, <2>4, GapTypes DEF Owed, Client, GapInv, FeedInReach
    <3>3. ReplayHeight(Ask) # NoHeight /\ replay.pushed[i].height >= ReplayHeight(Ask)
      BY <3>1, <3>2, AskReaches
    <3> QED BY <1>1, <3>3 DEF Owed, ReplayHeight, Coming
  <2>5. CASE BelowFinality(i)
    BY <1>1, <2>1, <2>5, SameBelow
  <2> QED BY <2>2, <2>3, <2>4, <2>5
<1> QED BY <1>3, <1>4, <1>5, <1>6 DEF GapInv

\* The node restarts: in the new session there is nothing yet to miss.
LEMMA RestartGap ==
    ASSUME Client, Restart PROVE GapInv'
<1>1. /\ UNCHANGED <<best, finalized, next, current, checkpoint, finality, partial, output>>
      /\ replay'.pushed = <<>> /\ replay'.popped = 0
      /\ IF link = "up" THEN link' = "down" /\ ask' = Ask ELSE UNCHANGED <<link, ask>>
  BY DEF Restart, LoseConnection, node, chainState, application, EmptyReplay, outage
<1>2. Ask' = Ask /\ Reach' = Reach
  BY <1>1 DEF Ask, Anchor, Reach, Tip
<1>3. Positions' = {} /\ Retained(replay') = {}
  BY <1>1 DEF Positions, Retained
<1>4. DepthInv'
  BY <1>1, <1>2, <1>3 DEF Client, GapInv, DepthInv, DepthKept
<1>5. ResumeInv'
  BY <1>1, <1>2 DEF Client, GapInv, ResumeInv
<1>6. FeedInReach' /\ FeedUnbroken' /\ OldCheckpoint' /\ Owing'
  BY <1>3 DEF FeedInReach, FeedUnbroken, OldCheckpoint, Owing
<1> QED BY <1>4, <1>5, <1>6 DEF GapInv

\* What is to come when a request is let in: what is retained from the height asked for.
LEMMA OpensWith ==
    ASSUME Running', NEW a, NEW kinds, feed' = Stream(a, kinds), link' = "up"
    PROVE  /\ \A i \in Positions' : Coming(i)' <=>
                /\ ReplayHeight(a) # NoHeight
                /\ i \in Retained(replay') /\ replay'.pushed[i].height >= ReplayHeight(a)
           /\ Retained(replay') \subseteq Positions'
<1>1. Len(replay'.pushed) \in Nat /\ replay'.popped \in Nat
  BY LenProperties DEF Running, OrderInv, Sound, Typed
<1>2. /\ feed'.position = Len(replay'.pushed)
      /\ feed'.captured = IF ReplayHeight(a) = NoHeight THEN {} ELSE ReplayFrom(replay', ReplayHeight(a))
  BY DEF Stream
<1>3. Retained(replay') \subseteq Positions'
  BY <1>1 DEF Retained, Positions
<1>4. \A i \in Positions' : Coming(i)' <=> i \in feed'.captured
  BY <1>1, <1>2 DEF Coming, Positions
<1> QED BY <1>2, <1>3, <1>4 DEF ReplayFrom

\* A read of the window evicts at most.
LEMMA ReadForward ==
    ASSUME Client, EvictsTo(replay, clock, replay') \/ UNCHANGED replay, UNCHANGED <<clock, node>>
    PROVE  /\ Running' /\ replay'.pushed = replay.pushed
           /\ Retained(replay') \subseteq Retained(replay)
           /\ Reach' = Reach /\ DepthInv'
<1>1. /\ Running' /\ replay'.pushed = replay.pushed
      /\ replay'.popped \in replay.popped .. Len(replay.pushed)
  BY ReadKeeps DEF Client, ClientInv
<1>2. Retained(replay') \subseteq Retained(replay)
  BY <1>1, GapTypes DEF Retained
<1>3. Reach' = Reach
  BY DEF Reach, Tip, node
<1> QED BY <1>1, <1>2, <1>3 DEF Client, GapInv, DepthInv, DepthKept, Positions, node

\* The application's first request.
LEMMA OpenGap ==
    ASSUME Client, Open PROVE GapInv'
<1>1. PICK kept \in Kept, from \in {NoHeight, 1}, kinds \in Filters :
        LET a == [from |-> from, resume |-> kept.resume, discarded |-> kept.discarded, second |-> FALSE]
        IN
        /\ LetIn(a)
        /\ current' = [from |-> from, kinds |-> kinds]
        /\ checkpoint' = from
        /\ finality' = kept.resume
        /\ feed' = Stream(a, kinds)
  BY DEF Open
<1> DEFINE a == [from |-> from, resume |-> kept.resume, discarded |-> kept.discarded, second |-> FALSE]
<1>2. /\ link = "new" /\ link' = "up" /\ UNCHANGED <<clock, node, session, output>>
      /\ output = <<>>
  BY DEF Open, Client, GapInv, ResumeInv
<1>3. /\ Running' /\ replay'.pushed = replay.pushed /\ Reach' = Reach /\ DepthInv'
  BY <1>1, <1>2, ReadForward DEF LetIn
<1>4. /\ a.resume = finality' /\ a.from = from /\ from \in {NoHeight, 1} /\ feed' = Stream(a, kinds)
      /\ checkpoint' = from /\ current'.from = from
  BY <1>1 DEF NoHeight
<1> HIDE DEF a
<1>5. ReplayHeight(a) = IF finality' = NoAnchor THEN from ELSE finality'.height
  BY <1>4 DEF ReplayHeight
<1>6. /\ \A i \in Positions' : Coming(i)' <=>
                /\ ReplayHeight(a) # NoHeight
                /\ i \in Retained(replay') /\ replay'.pushed[i].height >= ReplayHeight(a)
      /\ Retained(replay') \subseteq Positions'
  BY <1>2, <1>3, <1>4, OpensWith
<1>7. /\ Positions' = Positions
      /\ \A i \in Positions : replay'.pushed[i].height \in Nat /\ replay'.pushed[i].height >= 1
      /\ HeightBuffer \in Nat /\ FinalityDepth \in Nat /\ FinalityDepth >= 1
  BY <1>3, GapTypes DEF Positions
<1>8. finality'.height \in Nat
  <2>1. kept.resume \in Anchors
    BY KeptTyped DEF Client, ClientInv
  <2>2. kept.resume.height \in 0 .. MaxHeight /\ MaxHeight \in Nat
    BY <2>1, AnchorHeight, ChainAssumption
  <2> QED BY <1>1, <2>2
<1>9. \A i : ~Given(i)' /\ ~FirstGiven(i)'
  BY <1>2 DEF Given, FirstGiven
<1>10. ResumeInv'
  BY <1>2, <1>4 DEF ResumeInv, NoHeight
<1>11. FeedInReach'
  <2> SUFFICES ASSUME NEW i \in Positions, Coming(i)'
               PROVE  /\ replay'.pushed[i].height >= finality'.height
                      /\ finality' = NoAnchor /\ Unfinalized(i)'
                         => replay'.pushed[i].height + HeightBuffer >= checkpoint'
    BY <1>7 DEF FeedInReach
  <2>1. replay'.pushed[i].height >= finality'.height
    BY <1>5, <1>6, <1>7 DEF NoAnchor
  <2> QED BY <1>4, <1>7, <2>1 DEF NoHeight
<1>12. OldCheckpoint'
  BY <1>4, <1>7 DEF OldCheckpoint, NoHeight
<1>13. FeedUnbroken'
  <2> SUFFICES ASSUME NEW j \in Positions, Coming(j)', NEW i \in Retained(replay'), ~Coming(i)'
               PROVE  BelowFinality(i)'
    BY <1>7 DEF FeedUnbroken
  <2>1. ReplayHeight(a) # NoHeight /\ ~(replay'.pushed[i].height >= ReplayHeight(a)) /\ i \in Positions
    BY <1>6, <1>7 DEF NoHeight
  <2>2. replay'.pushed[i].height \in Nat /\ replay'.pushed[i].height >= 1
    BY <1>7, <2>1
  <2>3. finality' # NoAnchor
    BY <1>4, <1>5, <2>1, <2>2
  <2>4. replay'.pushed[i].height < finality'.height
    BY <1>5, <1>8, <2>1, <2>2, <2>3
  <2> QED BY <1>9, <2>4 DEF BelowFinality
<1>14. Owing'
  BY <1>9 DEF Owing
<1> QED BY <1>3, <1>10, <1>11, <1>12, <1>13, <1>14 DEF GapInv

\* A request of an outage is let in: what it asks for is to come, and the rest is below.
LEMMA LetInGap ==
    ASSUME RecoversAll, BufferSuffices, Client, link = "down", LetIn(ask),
           link' = "up", feed' = Stream(ask, current.kinds),
           UNCHANGED <<clock, node, session, output, current, checkpoint, finality, partial, ask>>
    PROVE  GapInv'
<1>1. /\ Running' /\ replay'.pushed = replay.pushed /\ Reach' = Reach /\ DepthInv'
      /\ Retained(replay') \subseteq Retained(replay)
  BY ReadForward DEF LetIn
<1>2. /\ \A i \in Positions : Coming(i)' <=>
                /\ ReplayHeight(ask) # NoHeight
                /\ i \in Retained(replay') /\ replay.pushed[i].height >= ReplayHeight(ask)
      /\ Retained(replay') \subseteq Positions
      /\ Positions' = Positions
  BY <1>1, OpensWith DEF Positions
<1>3. /\ \A i \in Positions : replay.pushed[i].height \in Nat /\ replay.pushed[i].height >= 1
      /\ HeightBuffer \in Nat /\ FinalityDepth \in Nat /\ FinalityDepth >= 1
      /\ checkpoint \in Int /\ finality.height \in Nat
      /\ finality = NoAnchor \/ finality.height >= 1
  BY GapTypes
<1>4. /\ ask = Ask /\ current.from \in {NoHeight, 1}
      /\ OldCheckpoint
  BY DEF Client, GapInv, ResumeInv
<1>5. finality # NoAnchor => ReplayHeight(ask) = finality.height
  BY <1>4 DEF ReplayHeight, Ask, Anchor, RecoversAll
<1>6. finality = NoAnchor =>
        ReplayHeight(ask) = IF checkpoint # NoHeight
                            THEN LowerBy(checkpoint, HeightBuffer)
                            ELSE current.from
  BY <1>4 DEF ReplayHeight, Ask, Anchor, RecoversAll, NoHeight, NoAnchor
<1>7. LowerBy(checkpoint, HeightBuffer) \in Nat /\ LowerBy(checkpoint, HeightBuffer) + HeightBuffer >= checkpoint
  BY <1>3 DEF LowerBy
<1>8. ResumeInv'
  <2>1. Ask' = Ask
    BY DEF Ask, Anchor
  <2> QED BY <1>1, <2>1 DEF Client, GapInv, ResumeInv
<1>9. FeedInReach'
  <2> SUFFICES ASSUME NEW i \in Positions, Coming(i)'
               PROVE  /\ replay.pushed[i].height >= finality.height
                      /\ finality = NoAnchor => replay.pushed[i].height + HeightBuffer >= checkpoint
    BY <1>1, <1>2 DEF FeedInReach
  <2> DEFINE h == replay.pushed[i].height
  <2>1. h >= ReplayHeight(ask) /\ h \in Nat
    BY <1>2, <1>3
  <2> HIDE DEF h
  <2>2. CASE finality # NoAnchor
    BY <1>3, <1>5, <2>1, <2>2 DEF h
  <2>3. CASE finality = NoAnchor /\ checkpoint = NoHeight
    BY <1>3, <2>1, <2>3 DEF h, NoAnchor, NoHeight
  <2>4. CASE finality = NoAnchor /\ checkpoint # NoHeight
    <3> DEFINE low == LowerBy(checkpoint, HeightBuffer)
    <3>1. low \in Nat /\ low + HeightBuffer >= checkpoint
      BY <1>7
    <3>2. h >= low
      BY <1>6, <2>1, <2>4
    <3> HIDE DEF low
    <3>3. h + HeightBuffer >= checkpoint /\ h >= 0
      BY <1>3, <2>1, <3>1, <3>2
    <3> QED BY <2>4, <3>3 DEF h, NoAnchor
  <2> QED BY <2>2, <2>3, <2>4
<1>10. OldCheckpoint'
  BY <1>1, <1>2, <1>4, SameFirstGiven DEF OldCheckpoint, Unfinalized
<1>11. FeedUnbroken'
  <2> SUFFICES ASSUME NoneGiven, NEW j \in Positions, Coming(j)',
                      NEW i \in Retained(replay'), Unfinalized(i), ~Coming(i)'
               PROVE  BelowFinality(i)'
    BY <1>1, <1>2, SameFirstGiven DEF FeedUnbroken, Unfinalized
  <2> DEFINE h == replay.pushed[i].height
  <2>1. /\ ReplayHeight(ask) # NoHeight /\ ~(h >= ReplayHeight(ask)) /\ i \in Positions
        /\ h \in Nat /\ h >= 1 /\ h + FinalityDepth > checkpoint
    BY <1>2, <1>3, <1>4 DEF NoHeight, OldCheckpoint
  <2>2. CASE finality = NoAnchor
    <3> HIDE DEF h
    <3>1. CASE checkpoint = NoHeight
      BY <1>4, <1>6, <2>1, <2>2, <3>1
    <3>2. CASE checkpoint # NoHeight
      <4> DEFINE low == LowerBy(checkpoint, HeightBuffer)
      <4>1. ReplayHeight(ask) = low
        BY <1>6, <2>2, <3>2
      <4>2. h + HeightBuffer >= checkpoint
        BY <1>3, <2>1 DEF BufferSuffices
      <4>3. low \in Nat /\ low <= h
        BY <1>3, <2>1, <4>2 DEF LowerBy
      <4> HIDE DEF low
      <4> QED BY <2>1, <4>1, <4>3
    <3> QED BY <3>1, <3>2
  <2>3. CASE finality # NoAnchor
    <3>1. h < finality.height
      BY <1>3, <1>5, <2>1, <2>3
    <3>2. \A k : ~Given(k)'
      <4> SUFFICES ASSUME NEW k, Given(k) PROVE FALSE
        BY SameGiven
      <4> QED BY DEF Given, NoneGiven, Key
    <3> QED BY <1>1, <3>1, <3>2 DEF BelowFinality
  <2> QED BY <2>2, <2>3
<1>12. Owing'
  <2> SUFFICES ASSUME NEW b \in Positions, FirstGiven(b), NEW i \in Retained(replay'), i >= b,
                      replay.pushed[i].item.kind \in AlwaysAsked \ {"finalized"}
               PROVE  Given(i)' \/ Owed(i)' \/ BelowFinality(i)'
    BY <1>1, <1>2, SameFirstGiven DEF Owing, AlwaysAsked
  <2>1. i \in Retained(replay) /\ i \in Positions
    BY <1>1, <1>2
  <2>2. Given(i) \/ Owed(i) \/ BelowFinality(i)
    BY <2>1 DEF Client, GapInv, Owing
  <2>3. CASE Given(i)
    BY <2>3, SameGiven
  <2>4. CASE Owed(i)
    BY <1>2, <2>1, <2>4 DEF Owed
  <2>5. CASE BelowFinality(i)
    BY <1>1, <2>1, <2>5, SameBelow
  <2> QED BY <2>2, <2>3, <2>4, <2>5
<1> QED BY <1>1, <1>8, <1>9, <1>10, <1>11, <1>12 DEF GapInv

\* The subscription ends: nothing is owed.
LEMMA EndGap ==
    ASSUME Client, link = "down", EvictsTo(replay, clock, replay') \/ UNCHANGED replay, link' = "ended",
           UNCHANGED <<clock, node, session, output, current, checkpoint, finality>>
    PROVE  GapInv'
<1>1. /\ replay'.pushed = replay.pushed /\ Reach' = Reach /\ DepthInv'
      /\ Retained(replay') \subseteq Retained(replay) /\ Positions' = Positions
      /\ Retained(replay) \subseteq Positions
  BY ReadForward, GapTypes DEF Positions
<1>2. ResumeInv'
  BY <1>1 DEF Client, GapInv, ResumeInv
<1>3. FeedInReach' /\ FeedUnbroken'
  BY DEF FeedInReach, FeedUnbroken
<1>4. OldCheckpoint'
  BY <1>1, SameFirstGiven DEF Client, GapInv, OldCheckpoint, Unfinalized
<1>5. Owing'
  BY DEF Owing, Owed, Coming
<1> QED BY <1>1, <1>2, <1>3, <1>4, <1>5 DEF GapInv

LEMMA ConnectGap ==
    ASSUME RecoversAll, BufferSuffices, Client, Connect PROVE GapInv'
<1>1. link = "down" /\ UNCHANGED <<clock, node, session, output>>
  BY DEF Connect, application
<1>2. CASE /\ LetIn(ask) /\ link' = "up" /\ feed' = Stream(ask, current.kinds)
           /\ UNCHANGED <<ended, current, checkpoint, finality, partial, outage>>
  BY <1>1, <1>2, LetInGap DEF outage
<1>3. CASE OutOfRange(ask) /\ (EvictsTo(replay, clock, replay') \/ UNCHANGED replay)
  BY <1>1, <1>3, EndGap DEF OutOfRange, End, RecoversAll
<1>4. CASE /\ Verified(ask) \in {"failed_precondition", "invalid_argument"}
           /\ End(Verified(ask))
           /\ UNCHANGED <<replay, feed, current, checkpoint, finality, partial, outage>>
  BY <1>1, <1>4, EndGap DEF End
<1> QED BY <1>2, <1>3, <1>4 DEF Connect

\* What changes only the request, the attempts, the filter at the server or the mark.
LEMMA RequestGap ==
    ASSUME Client, UpdateRequest \/ ReplaceFilter \/ ConnectFails \/ ReceiveReconnect
    PROVE  GapInv'
<1>1. UNCHANGED <<replay, best, finalized, next, session, checkpoint, finality, output, ask>>
  BY DEF UpdateRequest, ReplaceFilter, ConnectFails, ReceiveReconnect, server, node, chainState,
         application, outage
<1>2. /\ link' = link \/ (link = "down" /\ link' = "ended")
      /\ link = "up" => feed'.captured = feed.captured /\ feed'.position = feed.position
      /\ current'.from = current.from \/ current'.from = NoHeight
      /\ link' = "down" => Ask' = Ask
  <2>1. link = "up" => FeedInv
    BY DEF Client, ClientInv, LinkInv
  <2>2. link' = "down" => UNCHANGED <<current, partial>>
    BY DEF UpdateRequest, ReplaceFilter, ConnectFails, ReceiveReconnect, chainState
  <2>3. link' = "down" => Ask' = Ask
    BY <1>1, <2>2 DEF Ask, Anchor
  <2>4. current'.from = current.from \/ current'.from = NoHeight
    BY DEF UpdateRequest, ReplaceFilter, ConnectFails, ReceiveReconnect, chainState, NoHeight
  <2> QED BY <2>1, <2>3, <2>4 DEF UpdateRequest, ReplaceFilter, ConnectFails, ReceiveReconnect, End, FeedInv
<1>3. \A i : (Given(i)' <=> Given(i)) /\ (Owed(i) => Owed(i)')
             /\ (link' = "up" => link = "up" /\ (Coming(i)' <=> Coming(i)))
  BY <1>1, <1>2, SameGiven DEF Coming, Owed, ReplayHeight
<1>4. \A i \in Positions : BelowFinality(i) => BelowFinality(i)'
  BY <1>1, SameBelow
<1>5. Reach' = Reach /\ DepthInv'
  BY <1>1 DEF Client, GapInv, DepthInv, DepthKept, Reach, Tip, Positions
<1>6. ResumeInv'
  BY <1>1, <1>2, <1>5 DEF Client, GapInv, ResumeInv
<1>7. FeedInReach'
  BY <1>1, <1>3 DEF Client, GapInv, FeedInReach, Unfinalized, Positions
<1>8. OldCheckpoint'
  BY <1>1, SameFirstGiven DEF Client, GapInv, OldCheckpoint, Unfinalized, Positions
<1>9. Retained(replay) \subseteq Positions
  BY GapTypes
<1>10. FeedUnbroken'
  BY <1>1, <1>3, <1>4, <1>9, SameFirstGiven DEF Client, GapInv, FeedUnbroken, Unfinalized, Positions
<1>11. Owing'
  BY <1>1, <1>3, <1>4, <1>9, SameFirstGiven DEF Client, GapInv, Owing, AlwaysAsked, Positions
<1> QED BY <1>5, <1>6, <1>7, <1>8, <1>10, <1>11 DEF GapInv

\* The first update given in a session is the one before which none was.
LEMMA FirstGivenAfter ==
    ASSUME Client, NEW i \in Positions, HandleUpdate(i), UNCHANGED <<replay, session>>,
           NEW a, FirstGiven(a)'
    PROVE  FirstGiven(a) \/ (a = i /\ NoneGiven)
<1>1. /\ Len(output) \in Nat /\ DOMAIN output = 1 .. Len(output) /\ output \in Seq(Nat \X Nat)
      /\ Key(i) \in Nat \X Nat /\ session \in Nat
  <2>1. i \in Nat
    BY GapTypes DEF Positions
  <2>2. Len(output) \in Nat /\ DOMAIN output = 1 .. Len(output) /\ output \in Seq(Nat \X Nat)
    BY GapTypes DEF Client, MissInv, OutputTyped
  <2> QED BY <2>1, <2>2 DEF Key, Client, ClientInv
<1>2. output' = output \/ output' = Append(output, Key(i))
  BY DEF HandleUpdate, application, Deliver
<1>3. CASE output' = output
  BY <1>3, SameFirstGiven
<1>4. CASE output' = Append(output, Key(i))
  <2>1. /\ DOMAIN output' = 1 .. (Len(output) + 1)
        /\ \A k \in 1 .. Len(output) : output'[k] = output[k]
        /\ output'[Len(output) + 1] = Key(i)
    <3>1. /\ output' \in Seq(Nat \X Nat) /\ Len(output') = Len(output) + 1
          /\ \A k \in 1 .. Len(output) : output'[k] = output[k]
          /\ output'[Len(output) + 1] = Key(i)
      BY <1>1, <1>4, AppendProperties
    <3>2. DOMAIN output' = 1 .. Len(output')
      BY <3>1
    <3> QED BY <3>1, <3>2
  <2>2. PICK k \in 1 .. (Len(output) + 1) :
            output'[k] = Key(a) /\ \A j \in 1 .. (k - 1) : output'[j][1] # session
    BY <2>1 DEF FirstGiven, Key
  <2>3. CASE k \in 1 .. Len(output)
    <3>1. \A j \in 1 .. (k - 1) : j \in 1 .. Len(output)
      BY <1>1, <2>3
    <3>2. output[k] = Key(a) /\ \A j \in 1 .. (k - 1) : output[j][1] # session
      BY <2>1, <2>2, <2>3, <3>1
    <3> QED BY <1>1, <2>3, <3>2 DEF FirstGiven
  <2>4. CASE k = Len(output) + 1
    <3>1. a = i
      BY <2>1, <2>2, <2>4 DEF Key
    <3>2. 1 .. (k - 1) = 1 .. Len(output)
      BY <1>1, <2>4
    <3>3. NoneGiven
      BY <1>1, <2>1, <2>2, <3>2 DEF NoneGiven
    <3> QED BY <3>1, <3>3
  <2> QED BY <1>1, <2>3, <2>4
<1> QED BY <1>2, <1>3, <1>4

\* What is received is given, and the rest stays to come.
LEMMA ReceiveGap ==
    ASSUME RecoversAll, BufferSuffices, Client, ReceiveReplay \/ ReceiveLive PROVE GapInv'
<1>1. /\ link = "up" /\ UNCHANGED <<replay, best, finalized, next, session, link, current, ask>>
  BY DEF ReceiveReplay, ReceiveLive, server, node, outage
<1>2. PICK i \in Positions :
        /\ Coming(i) /\ HandleUpdate(i)
        /\ \A j \in Positions : Coming(j) => i <= j
        /\ \A j \in Positions : (feed'.position < j \/ j \in feed'.captured) <=> (Coming(j) /\ j # i)
        /\ feed'.kinds = feed.kinds
  BY ReceivesLeast DEF Client
<1> DEFINE b == replay.pushed[i]
           asked == b.item.kind \in feed.kinds
<1>3. /\ \A k : Given(k) => Given(k)'
      /\ \A k : Given(k)' => Given(k) \/ k = i
      /\ asked => Given(i)'
      /\ Given(i)' => Given(i) \/ asked
      /\ finality' = IF asked /\ Final(b) THEN Block(b.height, b.item.fork) ELSE finality
  BY <1>1, <1>2, HandleGives DEF Client
<1>4. /\ asked => checkpoint' = b.height
      /\ ~asked => UNCHANGED <<checkpoint, finality, output>>
  BY <1>2 DEF HandleUpdate, chainState, application
<1> HIDE DEF asked
<1>5. /\ Len(replay.pushed) \in Nat
      /\ \A j \in Positions : replay.pushed[j].height \in Nat /\ replay.pushed[j].height >= 1
      /\ checkpoint \in Int /\ finality.height \in Nat /\ Reach \in Nat
      /\ HeightBuffer \in Nat /\ FinalityDepth \in Nat /\ FinalityDepth >= 1
      /\ Retained(replay) \subseteq Positions
      /\ Positions' = Positions /\ Reach' = Reach
  <2>1. Positions' = Positions /\ Reach' = Reach
    BY <1>1 DEF Positions, Reach, Tip
  <2> QED BY <2>1, GapTypes
<1>6. \A j \in Positions : Coming(j)' <=> (Coming(j) /\ j # i)
  <2>1. feed'.position \in Nat
    BY <1>1, ReceiveClientInv DEF Client, ClientInv, LinkInv, FeedInv
  <2> QED BY <1>1, <1>2, <2>1 DEF Coming, Positions
<1>7. \A j \in Positions : Coming(j)' => Coming(j) /\ j > i
  BY <1>2, <1>5, <1>6 DEF Positions
<1>8. b.height >= finality.height /\ finality'.height >= finality.height
      /\ (finality' = NoAnchor => finality = NoAnchor)
      /\ (finality' # finality => asked /\ Final(b) /\ finality'.height = b.height)
  <2>1. b.height >= finality.height /\ b.height \in Nat /\ b.height >= 1
    BY <1>1, <1>2, <1>5 DEF Client, GapInv, FeedInReach
  <2>2. finality' # finality => asked /\ Final(b) /\ finality'.height = b.height
    BY <1>3 DEF Block
  <2> QED BY <1>5, <2>1, <2>2 DEF NoAnchor
<1>9. DepthInv'
  BY <1>1, <1>5 DEF Client, GapInv, DepthInv, DepthKept
<1>10. ResumeInv'
  <2>1. b.height <= Reach /\ b.height >= 1
    BY <1>5 DEF Client, GapInv, DepthInv
  <2>2. checkpoint' <= Reach \/ checkpoint' <= 1
    BY <1>4, <2>1 DEF Client, GapInv, ResumeInv
  <2>3. output' # <<>> => checkpoint' >= 1
    BY <1>4, <2>1 DEF Client, GapInv, ResumeInv
  <2> QED BY <1>1, <1>5, <2>2, <2>3 DEF Client, GapInv, ResumeInv
<1>11. FeedInReach'
  <2> SUFFICES ASSUME NEW j \in Positions, Coming(j)'
               PROVE  /\ replay.pushed[j].height >= finality'.height
                      /\ finality' = NoAnchor /\ Unfinalized(j)
                         => replay.pushed[j].height + HeightBuffer >= checkpoint'
    BY <1>1, <1>5 DEF FeedInReach, Unfinalized
  <2>1. Coming(j) /\ j > i
    BY <1>7
  <2>2. /\ replay.pushed[j].height >= finality.height
        /\ finality = NoAnchor /\ Unfinalized(j) => replay.pushed[j].height + HeightBuffer >= checkpoint
    BY <1>1, <2>1 DEF Client, GapInv, FeedInReach
  <2>3. replay.pushed[j].height >= finality'.height
    <3>1. CASE finality' = finality
      BY <2>2, <3>1
    <3>2. CASE finality' # finality
      <4>1. j \in (i + 1) .. Len(replay.pushed)
        BY <1>5, <2>1 DEF Positions
      <4>2. replay.pushed[j].height > b.height
        BY <1>8, <3>2, <4>1, HigherAfterFinal DEF Client
      <4> QED BY <1>5, <1>8, <3>2, <4>2
    <3> QED BY <3>1, <3>2
  <2>4. ASSUME finality' = NoAnchor, Unfinalized(j)
        PROVE  replay.pushed[j].height + HeightBuffer >= checkpoint'
    <3>1. CASE asked
      <4>1. i \in 1 .. j
        BY <2>1 DEF Positions
      <4>2. b.height < replay.pushed[j].height + FinalityDepth
        BY <2>4, <4>1 DEF Client, GapInv, DepthInv, Unfinalized
      <4>3. ASSUME NEW r \in Nat, NEW g \in Nat, g < r + FinalityDepth PROVE r + HeightBuffer >= g
        BY <1>5, <4>3 DEF BufferSuffices
      <4>4. replay.pushed[j].height \in Nat /\ b.height \in Nat /\ checkpoint' = b.height
        BY <1>4, <1>5, <2>1, <3>1
      <4> QED BY <4>2, <4>3, <4>4
    <3>2. CASE ~asked
      BY <1>4, <1>8, <2>2, <2>4, <3>2
    <3> QED BY <3>1, <3>2
  <2> QED BY <2>3, <2>4
<1>12. NoneGiven' => NoneGiven /\ ~asked
  <2>1. CASE asked
    <3>1. PICK k \in DOMAIN output' : output'[k] = <<session, i>>
      BY <1>1, <1>3, <2>1 DEF Given, Key
    <3> QED BY <1>1, <3>1 DEF NoneGiven
  <2>2. CASE ~asked
    BY <1>1, <1>4, <2>2, SameFirstGiven
  <2> QED BY <2>1, <2>2
<1>13. OldCheckpoint'
  BY <1>1, <1>4, <1>5, <1>12 DEF Client, GapInv, OldCheckpoint, Unfinalized
<1>14. ASSUME NEW j \in Positions, BelowFinality(j) PROVE BelowFinality(j)'
  <2>1. replay.pushed[j].height < finality.height /\ replay.pushed[j].height \in Nat
    BY <1>5, <1>14 DEF BelowFinality
  <2>2. finality'.height \in Nat /\ b.height \in Nat
    BY <1>5, <1>8
  <2>3. replay.pushed[j].height < finality'.height
    BY <1>5, <1>8, <2>1, <2>2
  <2>4. ASSUME NEW k \in Positions, replay.pushed[k].item.kind = "finalized", Given(k)'
        PROVE  replay.pushed[j].height < replay.pushed[k].height
    <3>1. CASE Given(k)
      BY <1>14, <2>4, <3>1 DEF BelowFinality, Positions
    <3>2. CASE k = i
      BY <1>5, <1>8, <2>1, <2>2, <3>2
    <3> QED BY <1>3, <2>4, <3>1, <3>2
  <2> QED BY <1>1, <2>3, <2>4 DEF BelowFinality, Positions
<1>15. FeedUnbroken'
  <2> SUFFICES ASSUME NoneGiven, NEW j \in Positions, Coming(j)',
                      NEW m \in Retained(replay), m > j, Unfinalized(m)
               PROVE  Coming(m)' \/ BelowFinality(m)'
    BY <1>1, <1>5, <1>12 DEF FeedUnbroken, Unfinalized
  <2>1. Coming(j) /\ j > i
    BY <1>7
  <2>2. Coming(m) \/ BelowFinality(m)
    BY <1>1, <2>1 DEF Client, GapInv, FeedUnbroken
  <2>3. m \in Positions /\ m # i
    BY <1>5, <2>1 DEF Positions
  <2> QED BY <1>6, <1>14, <2>2, <2>3
<1>16. Owing'
  <2> SUFFICES ASSUME NEW a \in Positions, FirstGiven(a)', NEW m \in Retained(replay), m >= a,
                      replay.pushed[m].item.kind \in AlwaysAsked \ {"finalized"}
               PROVE  Given(m)' \/ Coming(m)' \/ BelowFinality(m)'
    BY <1>1, <1>5 DEF Owing, Owed, AlwaysAsked
  <2>1. m \in Positions /\ Unfinalized(m)
    BY <1>5 DEF Unfinalized, Final
  <2>2. ASSUME m = i PROVE Given(m)'
    <3>1. asked
      BY <1>1, <2>2 DEF Client, MissInv, KindsAsked, asked
    <3> QED BY <1>3, <2>2, <3>1
  <2>3. Given(m) \/ m = i \/ Coming(m) \/ BelowFinality(m)
    <3>1. CASE FirstGiven(a)
      BY <3>1 DEF Client, GapInv, Owing, Owed
    <3>2. CASE a = i /\ NoneGiven
      <4>1. m = i \/ m > i
        BY <1>5, <2>1, <3>2 DEF Positions
      <4> QED BY <1>1, <1>2, <2>1, <3>2, <4>1 DEF Client, GapInv, FeedUnbroken
    <3> QED BY <1>1, <1>2, <3>1, <3>2, FirstGivenAfter
  <2> QED BY <1>3, <1>6, <1>14, <2>1, <2>2, <2>3
<1> QED BY <1>9, <1>10, <1>11, <1>13, <1>15, <1>16 DEF GapInv

LEMMA NextGap ==
    RecoversAll /\ BufferSuffices /\ Client /\ [ClientNext]_cvars => GapInv'
<1> SUFFICES ASSUME RecoversAll, BufferSuffices, Client, [ClientNext]_cvars PROVE GapInv'
  OBVIOUS
<1>1. CASE ClientNext
  BY <1>1, NodeGap, RestartGap, DisconnectGap, OpenGap, ConnectGap, RequestGap, ReceiveGap
     DEF ClientNext
<1>2. CASE UNCHANGED cvars
  <2>1. UNCHANGED <<replay, best, finalized, next, session, link, feed, current, checkpoint, finality,
                    partial, ask, output>>
    BY <1>2 DEF cvars, server, node, client, chainState, outage, application
  <2>2. \A i : (Given(i)' <=> Given(i)) /\ (Coming(i)' <=> Coming(i)) /\ (Owed(i)' <=> Owed(i))
    BY <2>1, SameGiven DEF Coming, Owed, ReplayHeight
  <2>3. \A i \in Positions : BelowFinality(i) => BelowFinality(i)'
    BY <2>1, SameBelow
  <2>4. Ask' = Ask /\ Reach' = Reach /\ Retained(replay) \subseteq Positions
    BY <2>1, GapTypes DEF Ask, Anchor, Reach, Tip
  <2>5. DepthInv' /\ ResumeInv'
    BY <2>1, <2>4 DEF Client, GapInv, DepthInv, DepthKept, ResumeInv, Positions
  <2>6. FeedInReach' /\ OldCheckpoint'
    BY <2>1, <2>2, SameFirstGiven DEF Client, GapInv, FeedInReach, OldCheckpoint, Unfinalized, Positions
  <2>7. FeedUnbroken'
    BY <2>1, <2>2, <2>3, <2>4, SameFirstGiven DEF Client, GapInv, FeedUnbroken, Unfinalized, Positions
  <2>8. Owing'
    BY <2>1, <2>2, <2>3, <2>4, SameFirstGiven DEF Client, GapInv, Owing, AlwaysAsked, Positions
  <2> QED BY <2>5, <2>6, <2>7, <2>8 DEF GapInv
<1> QED BY <1>1, <1>2

\* With a buffer that covers the depth of the node's reorganisations, a client that recovers
\* missed data is given every unfinalized block the server still has, from the first update
\* of the session on and through any outages, whether or not it ever sees a finalized block.
THEOREM BufferCoversReorganisations ==
    RecoversAll /\ BufferSuffices => (ClientSpec => []UnfinalizedNotMissed)
<1>1. ASSUME ClientInv, MissInv, GapInv PROVE UnfinalizedNotMissed
  <2> SUFFICES ASSUME Drained, NEW a \in Positions, FirstGiven(a), NEW i \in Retained(replay), i >= a,
                      replay.pushed[i].item.kind \in AlwaysAsked \ {"finalized"}
               PROVE  Given(i) \/ BelowFinality(i)
    BY DEF UnfinalizedNotMissed, Positions
  <2>1. Given(i) \/ Owed(i) \/ BelowFinality(i)
    BY <1>1 DEF GapInv, Owing
  <2>2. i \in Positions /\ Len(replay.pushed) \in Nat
    BY <1>1, GapTypes DEF Client
  <2>3. ~Coming(i)
    BY <2>2 DEF Coming, Drained, Positions
  <2> QED BY <2>1, <2>3 DEF Owed
<1>2. ClientInit => MissInv /\ GapInv
  BY InitMiss, InitGap
<1> SUFFICES ASSUME RecoversAll, BufferSuffices PROVE ClientSpec => []UnfinalizedNotMissed
  OBVIOUS
<1>3. ClientInv /\ ClientInv' /\ MissInv /\ GapInv /\ [ClientNext]_cvars => MissInv' /\ GapInv'
  BY NextMiss, NextGap DEF Client
<1> QED BY <1>1, <1>2, <1>3, ClientInvariant, PTL DEF ClientSpec

-----------------------------------------------------------------------------
(***************************************************************************)
(* No update twice.  A replay repeats what the client has; the             *)
(* deduplication must still know it.  It forgets a height when             *)
(* HeightRetention others were first seen after it, so what counts is how  *)
(* many can be: a bucket is at most Span heights above a later one, and a  *)
(* position still to come at most Span heights below every bucket.         *)
(*                                                                         *)
(* Updates reach back FinalityDepth heights.  A client without a finalized *)
(* block asks from its last height less the buffer, the last height being  *)
(* that of the last update, be it a repeated one: an outage in the midst   *)
(* of a replay asks from a buffer further down than the one before.  A     *)
(* client whose filter lets no finalized block through asks from its first *)
(* for ever, which no retention is enough for.                             *)
(***************************************************************************)
\* Connections lost after the first EarlyLosses find the client with a finalized block.
AnchoredAfter ==
    [][link = "up" /\ link' = "down" /\ losses >= EarlyLosses => finality # NoAnchor]_cvars

FinalAsked == "finalized" \in AlwaysAsked

Span == FinalityDepth + 1 + EarlyLosses * HeightBuffer

RetentionSuffices == EarlyLosses \in Nat /\ HeightRetention > 2 * Span

\* The outages so far account for so much of it.
Drop ==
    FinalityDepth + 1 + (IF losses < EarlyLosses THEN losses ELSE EarlyLosses) * HeightBuffer

\* The deduplication knows no height that is further above this one.
Within(h) == \A k \in DOMAIN dedup : dedup[k].height <= h + Drop

\* How far back the updates of a node can go: at most FinalityDepth heights, and at most
\* one more below what follows the last finalized block.
ChainInv ==
    /\ DepthKept
    /\ \A i \in Positions : replay.pushed[i].height <= Reach
    /\ \A i \in Positions : \A q \in 1 .. i :
        replay.pushed[q].height <= replay.pushed[i].height + FinalityDepth
    /\ \A q \in Positions : Final(replay.pushed[q]) =>
        \A i \in (q + 1) .. Len(replay.pushed) : \E j \in q .. (i - 1) :
            /\ Final(replay.pushed[j])
            /\ replay.pushed[i].height <= replay.pushed[j].height + FinalityDepth + 1
    /\ \A q \in Positions : Final(replay.pushed[q]) =>
        \E j \in q .. Len(replay.pushed) :
            Final(replay.pushed[j]) /\ replay.pushed[j].height = finalized
    /\ HeightCapacity = 0 => replay.pushed = <<>>

\* The buckets of the deduplication are of different heights, none far above a later one.
Spread(buckets) ==
    \A k, l \in DOMAIN buckets : k < l =>
        /\ buckets[k].height # buckets[l].height
        /\ buckets[k].height <= buckets[l].height + Span

BucketsInv ==
    /\ Spread(dedup)
    /\ \A k \in DOMAIN dedup : dedup[k].height <= Reach
    /\ \A k \in DOMAIN dedup : \A i \in Positions :
        Key(i) \in dedup[k].keys => dedup[k].height = replay.pushed[i].height
    /\ dedup # <<>> => checkpoint >= 1
    /\ link = "new" => dedup = <<>>

\* A position the application was given is known, or so low that it never comes again.
Known(i) ==
    \/ Key(i) \in Seen
    \/ \E k \in DOMAIN dedup : dedup[k].height > replay.pushed[i].height + Span

AllKnown == \A i \in Positions : Given(i) => Known(i)

\* Nothing to come, nothing the next request asks for, and nothing a later request is
\* made from, is that low.
FeedWithin ==
    link = "up" => \A i \in Positions : Coming(i) => Within(replay.pushed[i].height)

AskWithin == link = "down" /\ ReplayHeight(ask) # NoHeight => Within(ReplayHeight(ask))

ResumeWithin ==
    /\ finality # NoAnchor => Within(finality.height)
    /\ finality = NoAnchor /\ checkpoint # NoHeight => Within(checkpoint)

\* The finalized block the client would resume from is the last it was given: later ones
\* are still to come.
AnchorInv ==
    link = "up" /\ finality # NoAnchor =>
        \E q \in Positions :
            /\ Final(replay.pushed[q]) /\ replay.pushed[q].height = finality.height
            /\ \A j \in Positions : Final(replay.pushed[j]) /\ j > q => Coming(j)

DupInv ==
    /\ NoDuplicates
    /\ losses \in 0 .. MaxDisconnects
    /\ ChainInv /\ BucketsInv /\ AllKnown
    /\ FeedWithin /\ AskWithin /\ ResumeWithin /\ AnchorInv

Buckets == [height : Nat, keys : SUBSET (Nat \X Nat)]

LEMMA FunctionSeq ==
    ASSUME NEW S, NEW n \in Nat, NEW f, f = [k \in 1 .. n |-> f[k]], \A k \in 1 .. n : f[k] \in S
    PROVE  f \in Seq(S) /\ Len(f) = n
<1>1. f \in [1 .. n -> S]
  OBVIOUS
<1> QED BY <1>1

\* More than 2 * w + 1 buckets of different heights, of which the first is at most w above
\* any other, do not all lie within w of it.
LEMMA ManyHeights ==
    ASSUME NEW s \in Seq(Buckets), Spread(s), Span \in Nat, Len(s) > 2 * Span + 1
    PROVE  \E k \in 1 .. Len(s) : s[k].height > s[1].height + Span
<1> DEFINE n == Len(s)
           g == s[1].height
           T == (g - Span) .. (g + Span)
           f == [k \in 1 .. n |-> s[k].height]
<1>1. /\ n \in Nat /\ DOMAIN s = 1 .. n /\ 1 \in 1 .. n
      /\ \A k \in 1 .. n : s[k].height \in Nat
  <2>1. n \in Nat /\ DOMAIN s = 1 .. n /\ \A k \in 1 .. n : s[k] \in Buckets
    BY LenProperties, ElementOfSeq
  <2> QED BY <2>1 DEF Buckets
<1>2. SUFFICES ASSUME \A k \in 1 .. n : s[k].height <= g + Span PROVE FALSE
  BY <1>1
<1>3. g \in Nat
  BY <1>1
<1>4. \A k \in 1 .. n : s[k].height \in T
  <2> TAKE k \in 1 .. n
  <2>1. s[k].height >= g - Span
    BY <1>1, <1>3, SMTT(30) DEF Spread
  <2> QED BY <1>1, <1>2, <1>3, <2>1
<1>5. f \in [1 .. n -> T]
  BY <1>4
<1>6. /\ IsFiniteSet(1 .. n) /\ Cardinality(1 .. n) = n
      /\ IsFiniteSet(T) /\ Cardinality(T) = 2 * Span + 1
  <2>1. IsFiniteSet(1 .. n) /\ Cardinality(1 .. n) = IF 1 > n THEN 0 ELSE n - 1 + 1
    BY <1>1, FS_Interval
  <2>2. /\ IsFiniteSet(T)
        /\ Cardinality(T) = IF g - Span > g + Span THEN 0 ELSE (g + Span) - (g - Span) + 1
    <3>1. g - Span \in Int /\ g + Span \in Int
      BY <1>3
    <3> HIDE DEF g
    <3> QED BY <3>1, FS_Interval
  <2> QED BY <1>1, <1>3, <2>1, <2>2
<1>7. \E x, y \in 1 .. n : x # y /\ f[x] = f[y]
  <2> HIDE DEF f, T, n, g
  <2>1. Cardinality(T) < Cardinality(1 .. n)
    BY <1>1, <1>6 DEF n
  <2> QED BY <1>5, <1>6, <2>1, FS_PigeonHole
<1>8. PICK x \in 1 .. n, y \in 1 .. n : x # y /\ s[x].height = s[y].height
  BY <1>7
<1>9. x < y \/ y < x
  BY <1>1, <1>8
<1> QED BY <1>1, <1>8, <1>9 DEF Spread

\* Buckets that tell what the deduplication told, and of one update more: they are spread
\* as before, and what they lost is far below something they have.
Tells(buckets, i, height) ==
    /\ Spread(buckets)
    /\ \A k \in DOMAIN buckets :
        \/ buckets[k].height = height
        \/ \E l \in DOMAIN dedup : dedup[l].height = buckets[k].height
    /\ \A k \in DOMAIN buckets : \A key \in buckets[k].keys :
        \/ key = Key(i) /\ buckets[k].height = height
        \/ \E l \in DOMAIN dedup : key \in dedup[l].keys /\ dedup[l].height = buckets[k].height
    /\ \E k \in DOMAIN buckets : Key(i) \in buckets[k].keys
    /\ \A l \in DOMAIN dedup :
        \/ \E k \in DOMAIN buckets :
            buckets[k].height = dedup[l].height /\ dedup[l].keys \subseteq buckets[k].keys
        \/ \E k \in DOMAIN buckets : buckets[k].height > dedup[l].height + Span

\* Recording an update makes such buckets.
LEMMA RecordedSpread ==
    ASSUME dedup \in Seq(Buckets), session \in Nat, Spread(dedup), Len(dedup) <= HeightRetention,
           RetentionSuffices, Span \in Nat, HeightRetention \in Nat, NEW i \in Nat, NEW height \in Nat,
           \A k \in DOMAIN dedup : dedup[k].height <= height + Span
    PROVE  Tells(Recorded(i, height), i, height)
<1> DEFINE n == Len(dedup)
           known == \E k \in DOMAIN dedup : dedup[k].height = height
           kept == [k \in DOMAIN dedup |->
                        IF dedup[k].height = height
                        THEN [dedup[k] EXCEPT !.keys = @ \union {Key(i)}] ELSE dedup[k]]
           more == Append(dedup, [height |-> height, keys |-> {Key(i)}])
           added == IF known THEN kept ELSE more
           new == Recorded(i, height)
<1>1. /\ n \in Nat /\ DOMAIN dedup = 1 .. n /\ Key(i) \in Nat \X Nat
      /\ \A k \in 1 .. n : /\ dedup[k] \in Buckets
                           /\ dedup[k].height \in Nat /\ dedup[k].keys \in SUBSET (Nat \X Nat)
  <2>1. n \in Nat /\ DOMAIN dedup = 1 .. n /\ \A k \in 1 .. n : dedup[k] \in Buckets
    BY LenProperties, ElementOfSeq
  <2> QED BY <2>1 DEF Buckets, Key
<1>2. CASE known
  <2>1. \A k \in 1 .. n : /\ kept[k].height = dedup[k].height
                          /\ dedup[k].keys \subseteq kept[k].keys
                          /\ kept[k].keys \subseteq dedup[k].keys \union {Key(i)}
                          /\ dedup[k].height # height => kept[k].keys = dedup[k].keys
                          /\ dedup[k].height = height => Key(i) \in kept[k].keys
                          /\ kept[k] \in Buckets
    <3> TAKE k \in 1 .. n
    <3>1. kept[k] = IF dedup[k].height = height
                    THEN [dedup[k] EXCEPT !.keys = @ \union {Key(i)}] ELSE dedup[k]
      BY <1>1
    <3>2. dedup[k] \in [height : Nat, keys : SUBSET (Nat \X Nat)]
      BY <1>1 DEF Buckets
    <3>3. CASE dedup[k].height = height
      <4>1. dedup[k].keys \union {Key(i)} \in SUBSET (Nat \X Nat)
        BY <1>1
      <4> HIDE DEF kept
      <4> QED BY <3>1, <3>2, <3>3, <4>1, SMTT(30) DEF Buckets
    <3>4. CASE dedup[k].height # height
      <4> HIDE DEF kept
      <4> QED BY <1>1, <3>1, <3>4
    <3> QED BY <3>3, <3>4
  <2>2. /\ DOMAIN kept = 1 .. n /\ kept = [k \in 1 .. n |-> kept[k]]
    BY <1>1
  <2>3. kept \in Seq(Buckets) /\ Len(kept) = n
    <3>1. \A k \in 1 .. n : kept[k] \in Buckets
      BY <2>1
    <3> HIDE DEF kept, n
    <3> QED BY <1>1, <2>2, <3>1, FunctionSeq
  <2>4. new = kept
    <3>1. new = IF Len(added) > HeightRetention THEN Tail(added) ELSE added
      BY DEF Recorded
    <3> HIDE DEF kept, new
    <3> QED BY <1>1, <1>2, <2>3, <3>1
  <2>5. PICK m \in 1 .. n : dedup[m].height = height
    BY <1>1, <1>2
  <2> HIDE DEF kept
  <2>6. Spread(kept)
    <3> SUFFICES ASSUME NEW k \in 1 .. n, NEW l \in 1 .. n, k < l
                 PROVE  /\ kept[k].height # kept[l].height
                        /\ kept[k].height <= kept[l].height + Span
      BY <2>2 DEF Spread
    <3>1. kept[k].height = dedup[k].height /\ kept[l].height = dedup[l].height
      BY <2>1
    <3>2. /\ dedup[k].height # dedup[l].height
          /\ dedup[k].height <= dedup[l].height + Span
      BY <1>1 DEF Spread
    <3> QED BY <3>1, <3>2
  <2>7. Tells(kept, i, height)
    <3>1. \A k \in 1 .. n : \A key \in kept[k].keys :
            \/ key = Key(i) /\ kept[k].height = height
            \/ \E l \in 1 .. n : key \in dedup[l].keys /\ dedup[l].height = kept[k].height
      <4> TAKE k \in 1 .. n
      <4> TAKE key \in kept[k].keys
      <4>1. CASE key \in dedup[k].keys
        BY <2>1, <4>1
      <4>2. CASE key \notin dedup[k].keys
        <5>1. key = Key(i) /\ dedup[k].height = height
          BY <2>1, <4>2
        <5> QED BY <2>1, <5>1
      <4> QED BY <4>1, <4>2
    <3>2. \E k \in 1 .. n : Key(i) \in kept[k].keys
      BY <2>1, <2>5
    <3> QED BY <1>1, <2>1, <2>2, <2>6, <3>1, <3>2 DEF Tells
  <2> QED BY <2>4, <2>7
<1>3. CASE ~known
  <2> DEFINE x == [height |-> height, keys |-> {Key(i)}]
  <2>1. x \in Buckets /\ x.height = height /\ x.keys = {Key(i)}
    BY <1>1 DEF Buckets
  <2>2. /\ more \in Seq(Buckets) /\ Len(more) = n + 1 /\ DOMAIN more = 1 .. (n + 1)
        /\ \A k \in 1 .. n : more[k] = dedup[k]
        /\ more[n + 1] = x /\ more # <<>>
    <3>0. more = Append(dedup, x)
      OBVIOUS
    <3> HIDE DEF x, more
    <3>1. /\ more \in Seq(Buckets) /\ Len(more) = n + 1
          /\ \A k \in 1 .. n : more[k] = dedup[k]
          /\ more[n + 1] = x /\ more # <<>>
      BY <2>1, <3>0, AppendProperties DEF n
    <3> QED BY <3>1, LenProperties
  <2> HIDE DEF more, x
  <2>3. \A k \in 1 .. (n + 1) : k \in 1 .. n \/ k = n + 1
    BY <1>1
  <2>4. Spread(more)
    <3> SUFFICES ASSUME NEW k \in 1 .. (n + 1), NEW l \in 1 .. (n + 1), k < l
                 PROVE  /\ more[k].height # more[l].height
                        /\ more[k].height <= more[l].height + Span
      BY <2>2 DEF Spread
    <3>1. k \in 1 .. n
      BY <1>1
    <3>2. CASE l \in 1 .. n
      BY <1>1, <2>2, <3>1, <3>2 DEF Spread
    <3>3. CASE l = n + 1
      BY <1>1, <1>3, <2>1, <2>2, <3>1, <3>3
    <3> QED BY <2>3, <3>2, <3>3
  <2>5. new = IF Len(more) > HeightRetention THEN Tail(more) ELSE more
    BY <1>3 DEF Recorded, more
  <2> HIDE DEF new
  <2>6. CASE ~(Len(more) > HeightRetention)
    <3>1. /\ \A k \in 1 .. n : k \in 1 .. (n + 1)
          /\ n + 1 \in 1 .. (n + 1)
      BY <1>1
    <3>2. Tells(more, i, height)
      <4>1. \A k \in 1 .. (n + 1) :
              more[k].height = height \/ \E l \in 1 .. n : dedup[l].height = more[k].height
        BY <2>1, <2>2, <2>3
      <4>2. \A k \in 1 .. (n + 1) : \A key \in more[k].keys :
              \/ key = Key(i) /\ more[k].height = height
              \/ \E l \in 1 .. n : key \in dedup[l].keys /\ dedup[l].height = more[k].height
        BY <2>1, <2>2, <2>3
      <4>3. \E k \in 1 .. (n + 1) : Key(i) \in more[k].keys
        BY <2>1, <2>2, <3>1
      <4>4. \A l \in 1 .. n : \E k \in 1 .. (n + 1) :
              more[k].height = dedup[l].height /\ dedup[l].keys \subseteq more[k].keys
        BY <2>2, <3>1
      <4>11. DOMAIN dedup = 1 .. n /\ DOMAIN more = 1 .. (n + 1)
        BY <1>1, <2>2
      <4>12. \A k \in DOMAIN more :
              more[k].height = height \/ \E l \in DOMAIN dedup : dedup[l].height = more[k].height
        BY <4>11, <4>1
      <4>13. \A k \in DOMAIN more : \A key \in more[k].keys :
              \/ key = Key(i) /\ more[k].height = height
              \/ \E l \in DOMAIN dedup : key \in dedup[l].keys /\ dedup[l].height = more[k].height
        BY <4>11, <4>2
      <4>14. \E k \in DOMAIN more : Key(i) \in more[k].keys
        BY <4>11, <4>3
      <4>15. \A l \in DOMAIN dedup :
              \/ \E k \in DOMAIN more :
                  more[k].height = dedup[l].height /\ dedup[l].keys \subseteq more[k].keys
              \/ \E k \in DOMAIN more : more[k].height > dedup[l].height + Span
        BY <4>11, <4>4
      <4> QED BY <2>4, <4>12, <4>13, <4>14, <4>15, Zenon DEF Tells
    <3> QED BY <2>5, <2>6, <3>2 DEF new
  <2>7. CASE Len(more) > HeightRetention
    <3>1. n = HeightRetention /\ Len(more) > 2 * Span + 1 /\ n >= 1
      <4>1. n <= HeightRetention /\ HeightRetention > 2 * Span
        BY DEF RetentionSuffices
      <4> HIDE DEF n
      <4> QED BY <1>1, <2>2, <2>7, <4>1
    <3>2. new = Tail(more)
      BY <2>5, <2>7
    <3>3. /\ new \in Seq(Buckets) /\ Len(new) = n /\ DOMAIN new = 1 .. n
          /\ \A k \in 1 .. n : new[k] = more[k + 1]
      <4>1. /\ new \in Seq(Buckets) /\ Len(new) = n
            /\ \A k \in 1 .. Len(new) : new[k] = more[k + 1]
        BY <1>1, <2>2, <3>2, HeadTailProperties
      <4> QED BY <4>1, LenProperties
    <3>4. PICK far \in 1 .. (n + 1) : more[far].height > more[1].height + Span
      BY <2>2, <2>4, <3>1, ManyHeights
    <3>5. more[1] = dedup[1] /\ 1 \in 1 .. n /\ dedup[1].height \in Nat
      BY <1>1, <2>2, <3>1
    <3>6. far # 1 /\ far - 1 \in 1 .. n /\ new[far - 1] = more[far]
      <4>1. far # 1
        BY <3>4, <3>5
      <4>2. far - 1 \in 1 .. n /\ (far - 1) + 1 = far
        BY <1>1, <4>1
      <4> QED BY <3>3, <4>1, <4>2
    <3>7. \A k \in 1 .. n : k + 1 \in 1 .. (n + 1) /\ (k + 1 \in 1 .. n \/ k + 1 = n + 1)
      BY <1>1
    <3>8. Tells(new, i, height)
      <4>1. Spread(new)
        <5> SUFFICES ASSUME NEW k \in 1 .. n, NEW l \in 1 .. n, k < l
                     PROVE  /\ new[k].height # new[l].height
                            /\ new[k].height <= new[l].height + Span
          BY <3>3 DEF Spread
        <5>1. k + 1 < l + 1 /\ new[k] = more[k + 1] /\ new[l] = more[l + 1]
          BY <1>1, <3>3
        <5>2. k + 1 \in DOMAIN more /\ l + 1 \in DOMAIN more
          BY <2>2, <3>7
        <5>3. \A p, q \in DOMAIN more : p < q =>
                more[p].height # more[q].height /\ more[p].height <= more[q].height + Span
          BY <2>4 DEF Spread
        <5>4. /\ more[k + 1].height # more[l + 1].height
              /\ more[k + 1].height <= more[l + 1].height + Span
          BY <5>1, <5>2, <5>3
        <5> QED BY <5>1, <5>4
      <4>2. \A k \in 1 .. n :
              new[k].height = height \/ \E l \in 1 .. n : dedup[l].height = new[k].height
        <5> TAKE k \in 1 .. n
        <5>1. new[k] = more[k + 1]
          BY <3>3
        <5> QED BY <2>1, <2>2, <3>7, <5>1
      <4>3. \A k \in 1 .. n : \A key \in new[k].keys :
              \/ key = Key(i) /\ new[k].height = height
              \/ \E l \in 1 .. n : key \in dedup[l].keys /\ dedup[l].height = new[k].height
        <5> TAKE k \in 1 .. n
        <5>1. new[k] = more[k + 1]
          BY <3>3
        <5> QED BY <2>1, <2>2, <3>7, <5>1
      <4>4. \E k \in 1 .. n : Key(i) \in new[k].keys
        <5>1. n \in 1 .. n /\ new[n] = more[n + 1]
          BY <1>1, <3>1, <3>3
        <5> QED BY <2>1, <2>2, <5>1
      <4>5. \A l \in 1 .. n :
              \/ \E k \in 1 .. n :
                    new[k].height = dedup[l].height /\ dedup[l].keys \subseteq new[k].keys
              \/ \E k \in 1 .. n : new[k].height > dedup[l].height + Span
        <5> TAKE l \in 1 .. n
        <5>1. CASE l = 1
          BY <3>4, <3>5, <3>6, <5>1
        <5>2. CASE l # 1
          <6>1. l - 1 \in 1 .. n /\ (l - 1) + 1 = l
            BY <1>1, <5>2
          <6>2. new[l - 1] = dedup[l]
            BY <2>2, <3>3, <6>1
          <6> QED BY <6>1, <6>2
        <5> QED BY <5>1, <5>2
      <4>11. DOMAIN dedup = 1 .. n /\ DOMAIN new = 1 .. n
        BY <1>1, <3>3
      <4>12. \A k \in DOMAIN new :
              new[k].height = height \/ \E l \in DOMAIN dedup : dedup[l].height = new[k].height
        BY <4>11, <4>2
      <4>13. \A k \in DOMAIN new : \A key \in new[k].keys :
              \/ key = Key(i) /\ new[k].height = height
              \/ \E l \in DOMAIN dedup : key \in dedup[l].keys /\ dedup[l].height = new[k].height
        BY <4>11, <4>3
      <4>14. \E k \in DOMAIN new : Key(i) \in new[k].keys
        BY <4>11, <4>4
      <4>15. \A l \in DOMAIN dedup :
              \/ \E k \in DOMAIN new :
                  new[k].height = dedup[l].height /\ dedup[l].keys \subseteq new[k].keys
              \/ \E k \in DOMAIN new : new[k].height > dedup[l].height + Span
        BY <4>11, <4>5
      <4> QED BY <4>1, <4>12, <4>13, <4>14, <4>15, Zenon DEF Tells
    <3> QED BY <3>8 DEF new
  <2> QED BY <2>6, <2>7
<1> QED BY <1>2, <1>3

-----------------------------------------------------------------------------
\* What is published is at the end of the history.
LEMMA Published ==
    ASSUME Running, NEW height, NEW item, Publish(height, item)
    PROVE  IF HeightCapacity = 0 THEN replay' = replay
           ELSE /\ Len(replay'.pushed) = Len(replay.pushed) + 1
                /\ \A i \in NewPositions :
                    replay'.pushed[i].height = height /\ replay'.pushed[i].item = item
<1> DEFINE n == Len(replay.pushed)
           b == Batch(height, item, n + 1, n + 1, 1)
           x == Bucket(replay, b, clock)
<1>1. PushesTo(replay, b, clock, replay')
  BY DEF Publish
<1>2. CASE HeightCapacity = 0
  BY <1>1, <1>2 DEF PushesTo
<1>3. CASE HeightCapacity # 0
  <2>1. PushBack(replay, b, clock).pushed = Append(replay.pushed, x)
    BY DEF PushBack
  <2>2. PICK k \in PushBack(replay, b, clock).popped .. Len(PushBack(replay, b, clock).pushed) :
            replay' = PopThrough(PushBack(replay, b, clock), k)
    BY <1>1, <1>3 DEF PushesTo, EvictsTo
  <2>3. replay'.pushed = Append(replay.pushed, x)
    BY <2>1, <2>2 DEF PopThrough
  <2>4. x.height = height /\ x.item = item
    BY DEF Bucket, Batch
  <2>5. n \in Nat /\ replay.pushed \in Seq(BucketsOf(Items))
    BY LenProperties DEF Running, OrderInv, Sound, Typed
  <2> HIDE DEF x, b
  <2>6. Len(replay'.pushed) = n + 1 /\ replay'.pushed[n + 1] = x
    BY <2>3, <2>5
  <2>7. NewPositions = {n + 1}
    BY <2>5, <2>6 DEF NewPositions
  <2> QED BY <1>3, <2>4, <2>6, <2>7
<1> QED BY <1>2, <1>3

\* An event is about an unfinalized block, or finalizes the next one.
LEMMA EventFinal ==
    ASSUME Running, NodeStep
    PROVE  /\ IF HeightCapacity = 0 THEN replay' = replay
              ELSE Len(replay'.pushed) = Len(replay.pushed) + 1
           /\ \/ finalized' = finalized /\ \A i \in NewPositions : ~Final(replay'.pushed[i])
              \/ /\ finalized' = finalized + 1
                 /\ \A i \in NewPositions :
                      Final(replay'.pushed[i]) /\ replay'.pushed[i].height = finalized + 1
<1>1. HeightCapacity = 0 => \A i \in NewPositions : FALSE
  <2> SUFFICES ASSUME HeightCapacity = 0 PROVE NewPositions = {}
    OBVIOUS
  <2>1. replay' = replay
    BY Published DEF NodeStep, AcceptBlock, GrowBestChain, FinalizeBlock, BeginBranch, GrowBranch,
                     AcceptSideBlock, ResetBestChain
  <2>2. Len(replay.pushed) \in Nat
    BY LenProperties DEF Running, OrderInv, Sound, Typed
  <2> QED BY <2>1, <2>2 DEF NewPositions
<1>2. ASSUME NEW height, NEW item, Publish(height, item), item.kind # "finalized",
             finalized' = finalized
      PROVE  /\ IF HeightCapacity = 0 THEN replay' = replay
                ELSE Len(replay'.pushed) = Len(replay.pushed) + 1
             /\ finalized' = finalized /\ \A i \in NewPositions : ~Final(replay'.pushed[i])
  BY <1>1, <1>2, Published DEF Final
<1>3. CASE AcceptBlock \/ GrowBestChain \/ BeginBranch \/ GrowBranch \/ ResetBestChain
  <2>1. \A kind, fork : Item(kind, fork).kind = kind
    BY DEF Item
  <2>2. \A from : Reset(from).kind = "best"
    BY DEF Reset
  <2> QED BY <1>2, <1>3, <2>1, <2>2
          DEF AcceptBlock, GrowBestChain, BeginBranch, GrowBranch, AcceptSideBlock, ResetBestChain
<1>4. CASE FinalizeBlock
  <2>1. Publish(finalized + 1, Item("finalized", best[finalized + 1])) /\ finalized' = finalized + 1
    BY <1>4 DEF FinalizeBlock
  <2>2. Item("finalized", best[finalized + 1]).kind = "finalized"
    BY DEF Item
  <2> QED BY <1>1, <2>1, <2>2, Published DEF Final
<1> QED BY <1>3, <1>4 DEF NodeStep

\* The updates of a node reach back no further after an event of it.
LEMMA EventChain ==
    ASSUME Running, ChainInv, NodeStep
    PROVE  /\ ChainInv'
           /\ Reach \in Nat /\ Reach' \in Nat /\ Reach' >= Reach
           /\ Len(replay.pushed) \in Nat /\ Len(replay'.pushed) \in Nat
           /\ \A i \in Positions : replay'.pushed[i] = replay.pushed[i]
           /\ \A i \in Positions' : i \in Positions \/ i = Len(replay.pushed) + 1
           /\ \A i \in Positions' : i \notin Positions =>
                Reach <= replay'.pushed[i].height + FinalityDepth
<1> DEFINE n == Len(replay.pushed)
<1>1. /\ DepthKept' /\ DepthKept
      /\ Reach \in Nat /\ Reach' \in Nat /\ Reach' >= Reach
      /\ NewPositions \subseteq {n + 1}
      /\ \A i \in NewPositions :
            /\ replay'.pushed[i].height > finalized
            /\ replay'.pushed[i].height <= Reach'
            /\ ~Final(replay'.pushed[i]) => replay'.pushed[i].height + FinalityDepth > Reach'
  BY EventDepth DEF ChainInv
<1>2. /\ n \in Nat /\ Len(replay'.pushed) \in Nat /\ n <= Len(replay'.pushed)
      /\ \A i \in Positions : replay'.pushed[i] = replay.pushed[i]
      /\ finalized \in Nat /\ finalized' \in Nat /\ finalized' >= finalized
      /\ FinalityDepth \in Nat
      /\ \A i \in Positions' : replay'.pushed[i].height \in Nat
  <2>1. Running' /\ HistoryGrows
    BY EventRunning DEF EventLeaves
  <2>2. n \in Nat /\ Len(replay'.pushed) \in Nat
    BY <2>1, LenProperties DEF Running, OrderInv, Sound, Typed
  <2>3. finalized \in Nat /\ finalized' \in Nat
    <3>1. Tip \in Nat /\ Tip' \in Nat
      BY <2>1, ChainAssumption DEF Running, NodeInv
    <3> QED BY <2>1, <3>1 DEF Running, NodeInv
  <2>4. \A i \in Positions' : replay'.pushed[i].height \in Nat
    BY <2>1, ChainAssumption DEF Running, OrderInv, Positions
  <2> QED BY <2>1, <2>2, <2>3, <2>4, ChainAssumption DEF HistoryGrows, Positions
<1>3. /\ IF HeightCapacity = 0 THEN replay' = replay ELSE Len(replay'.pushed) = n + 1
      /\ \/ finalized' = finalized /\ \A i \in NewPositions : ~Final(replay'.pushed[i])
         \/ /\ finalized' = finalized + 1
            /\ \A i \in NewPositions :
                 Final(replay'.pushed[i]) /\ replay'.pushed[i].height = finalized + 1
  BY EventFinal
<1>4. \A i \in Positions' : i \in Positions \/ (i \in NewPositions /\ i = n + 1)
  BY <1>1, <1>2 DEF Positions, NewPositions
<1>5. /\ \A i \in Positions : replay.pushed[i].height <= Reach /\ replay.pushed[i].height \in Nat
      /\ Positions \subseteq Positions'
  <2>1. Positions \subseteq Positions'
    BY <1>2 DEF Positions
  <2> QED BY <1>2, <2>1 DEF ChainInv
<1>6. Reach <= finalized + FinalityDepth + 1 /\ Reach' <= finalized' + FinalityDepth + 1
  <2>1. ASSUME NEW r \in Nat, NEW f \in Nat, NEW late,
               r - f <= IF late THEN FinalityDepth + 1 ELSE FinalityDepth
        PROVE  r <= f + FinalityDepth + 1
    <3>1. r - f <= FinalityDepth + 1
      BY <1>2, <2>1
    <3> QED BY <1>2, <2>1, <3>1
  <2>2. /\ Reach - finalized <= IF next \in {"grow", "finalize"} THEN FinalityDepth + 1 ELSE FinalityDepth
        /\ Reach' - finalized' <= IF next' \in {"grow", "finalize"} THEN FinalityDepth + 1 ELSE FinalityDepth
    BY <1>1 DEF DepthKept
  <2> QED BY <1>1, <1>2, <2>1, <2>2
<1>7. ASSUME NEW i \in NewPositions
      PROVE  /\ Reach <= replay'.pushed[i].height + FinalityDepth
             /\ replay'.pushed[i].height <= Reach'
             /\ replay'.pushed[i].height <= finalized + FinalityDepth + 1
             /\ replay'.pushed[i].height \in Nat
  <2>1. i \in Positions'
    BY <1>2, <1>7 DEF NewPositions, Positions
  <2>2. CASE ~Final(replay'.pushed[i])
    <3>1. finalized' = finalized
      BY <1>3, <1>7, <2>2
    <3> QED BY <1>1, <1>2, <1>6, <1>7, <2>1, <2>2, <3>1, SMTT(30)
  <2>3. CASE Final(replay'.pushed[i])
    <3>1. replay'.pushed[i].height = finalized + 1
      BY <1>3, <1>7, <2>3
    <3> QED BY <1>1, <1>2, <1>6, <1>7, <2>1, <3>1
  <2> QED BY <2>2, <2>3
<1>8. \A i \in Positions' : replay'.pushed[i].height <= Reach'
  <2> TAKE i \in Positions'
  <2>1. CASE i \in Positions
    BY <1>1, <1>2, <1>5, <2>1
  <2>2. CASE i \in NewPositions
    BY <1>7, <2>2
  <2> QED BY <1>4, <2>1, <2>2
<1>9. \A i \in Positions' : \A q \in 1 .. i :
        replay'.pushed[q].height <= replay'.pushed[i].height + FinalityDepth
  <2> TAKE i \in Positions'
  <2> TAKE q \in 1 .. i
  <2>1. CASE i \in Positions
    <3>1. q \in Positions
      BY <1>2, <2>1 DEF Positions
    <3> QED BY <1>2, <2>1, <3>1 DEF ChainInv
  <2>2. CASE i \in NewPositions
    <3>1. q = i \/ q \in Positions
      BY <1>1, <1>2, <2>2 DEF Positions
    <3>2. CASE q = i
      BY <1>2, <1>7, <2>2, <3>2
    <3>3. CASE q \in Positions
      <4> DEFINE g == replay.pushed[q].height
                 h == replay'.pushed[i].height
      <4>1. replay'.pushed[q] = replay.pushed[q]
        BY <1>2, <3>3
      <4>2. g <= Reach /\ g \in Nat /\ Reach <= h + FinalityDepth /\ h \in Nat
        BY <1>5, <1>7, <2>2, <3>3
      <4> HIDE DEF g, h
      <4>3. g <= h + FinalityDepth
        BY <1>1, <1>2, <4>2
      <4> QED BY <4>1, <4>3 DEF g, h
    <3> QED BY <3>1, <3>2, <3>3
  <2> QED BY <1>4, <2>1, <2>2
<1>10. \A q \in Positions' : Final(replay'.pushed[q]) =>
        \A i \in (q + 1) .. Len(replay'.pushed) : \E j \in q .. (i - 1) :
            /\ Final(replay'.pushed[j])
            /\ replay'.pushed[i].height <= replay'.pushed[j].height + FinalityDepth + 1
  <2> SUFFICES ASSUME NEW q \in Positions', Final(replay'.pushed[q]),
                      NEW i \in (q + 1) .. Len(replay'.pushed)
               PROVE  \E j \in q .. (i - 1) :
                        /\ Final(replay'.pushed[j])
                        /\ replay'.pushed[i].height <= replay'.pushed[j].height + FinalityDepth + 1
    OBVIOUS
  <2>1. i \in Positions' /\ q \in Positions /\ Final(replay.pushed[q])
    <3>1. i \in Positions' /\ i > q
      BY <1>2 DEF Positions
    <3>2. q \in Positions
      BY <1>2, <1>4, <3>1 DEF Positions
    <3> QED BY <1>2, <3>1, <3>2
  <2>2. CASE i \in Positions
    <3>1. i \in (q + 1) .. Len(replay.pushed)
      BY <1>2, <2>1, <2>2 DEF Positions
    <3>2. PICK j \in q .. (i - 1) :
            /\ Final(replay.pushed[j])
            /\ replay.pushed[i].height <= replay.pushed[j].height + FinalityDepth + 1
      BY <2>1, <3>1 DEF ChainInv
    <3>3. j \in Positions
      BY <1>2, <2>1, <2>2 DEF Positions
    <3> QED BY <1>2, <2>2, <3>2, <3>3
  <2>3. CASE i \in NewPositions
    <3>1. PICK j \in q .. n : Final(replay.pushed[j]) /\ replay.pushed[j].height = finalized
      BY <2>1 DEF ChainInv
    <3>2. j \in Positions /\ j \in q .. (i - 1)
      BY <1>1, <1>2, <2>1, <2>3 DEF Positions
    <3> QED BY <1>2, <1>7, <2>3, <3>1, <3>2
  <2> QED BY <1>4, <2>1, <2>2, <2>3
<1>11. \A q \in Positions' : Final(replay'.pushed[q]) =>
        \E j \in q .. Len(replay'.pushed) :
            Final(replay'.pushed[j]) /\ replay'.pushed[j].height = finalized'
  <2> SUFFICES ASSUME NEW q \in Positions', Final(replay'.pushed[q])
               PROVE  \E j \in q .. Len(replay'.pushed) :
                        Final(replay'.pushed[j]) /\ replay'.pushed[j].height = finalized'
    OBVIOUS
  <2>1. CASE q \in NewPositions
    <3>1. finalized' = finalized + 1 /\ replay'.pushed[q].height = finalized + 1
      BY <1>3, <2>1
    <3> QED BY <1>2, <3>1 DEF Positions
  <2>2. CASE q \in Positions /\ finalized' = finalized
    <3>1. PICK j \in q .. n : Final(replay.pushed[j]) /\ replay.pushed[j].height = finalized
      BY <1>2, <2>2 DEF ChainInv
    <3>2. j \in Positions /\ j \in q .. Len(replay'.pushed)
      BY <1>2, <2>2 DEF Positions
    <3> QED BY <1>2, <2>2, <3>1, <3>2
  <2>3. CASE q \in Positions /\ finalized' # finalized
    <3>1. HeightCapacity # 0
      BY <1>2, <2>3 DEF ChainInv, Positions
    <3>2. n + 1 \in NewPositions /\ n + 1 \in q .. Len(replay'.pushed)
      BY <1>2, <1>3, <2>3, <3>1 DEF NewPositions, Positions
    <3> QED BY <1>3, <2>3, <3>2
  <2> QED BY <1>4, <2>1, <2>2, <2>3
<1>12. HeightCapacity = 0 => replay'.pushed = <<>>
  BY <1>3 DEF ChainInv
<1>13. ChainInv'
  BY <1>1, <1>8, <1>9, <1>10, <1>11, <1>12 DEF ChainInv
<1>14. \A i \in Positions' : i \notin Positions =>
            Reach <= replay'.pushed[i].height + FinalityDepth
  BY <1>4, <1>7
<1> QED BY <1>1, <1>2, <1>4, <1>13, <1>14

-----------------------------------------------------------------------------
\* The invariants a step starts from, and what is used of their types.
DupClient == EarlyLosses \in Nat /\ ClientInv /\ MissInv /\ DupInv

LEMMA DropGrows ==
    ASSUME losses \in 0 .. MaxDisconnects, EarlyLosses \in Nat
    PROVE  /\ Drop \in Nat /\ Span \in Nat /\ Drop <= Span /\ HeightBuffer \in Nat
           /\ FinalityDepth \in Nat /\ Drop >= FinalityDepth + 1
           /\ losses' = losses => Drop' = Drop
           /\ losses' = losses + 1 =>
                Drop' = IF losses < EarlyLosses THEN Drop + HeightBuffer ELSE Drop
<1> DEFINE early == IF losses < EarlyLosses THEN losses ELSE EarlyLosses
           more == IF losses < EarlyLosses THEN losses + 1 ELSE EarlyLosses
<1>1. /\ losses \in Nat /\ early \in Nat /\ early <= EarlyLosses
      /\ HeightBuffer \in Nat /\ FinalityDepth \in Nat
      /\ more = IF losses < EarlyLosses THEN early + 1 ELSE early
  BY ChainAssumption, ClientAssumption
<1>2. \A a, b, c \in Nat :
        a <= c => a * b \in Nat /\ c * b \in Nat /\ a * b <= c * b /\ (a + 1) * b = a * b + b
  OBVIOUS
<1>3. Drop = FinalityDepth + 1 + early * HeightBuffer
  BY DEF Drop
<1>4. losses' = losses + 1 => Drop' = FinalityDepth + 1 + more * HeightBuffer
  <2>1. losses' = losses + 1 => more = IF losses' < EarlyLosses THEN losses' ELSE EarlyLosses
    BY <1>1
  <2> HIDE DEF more
  <2> QED BY <2>1 DEF Drop
<1> HIDE DEF early, more
<1>5. /\ early * HeightBuffer \in Nat /\ EarlyLosses * HeightBuffer \in Nat
      /\ early * HeightBuffer <= EarlyLosses * HeightBuffer
      /\ (early + 1) * HeightBuffer = early * HeightBuffer + HeightBuffer
  BY <1>1, <1>2
<1>6. losses' = losses => Drop' = Drop
  BY DEF Drop
<1>7. ASSUME losses' = losses + 1
      PROVE  Drop' = IF losses < EarlyLosses THEN Drop + HeightBuffer ELSE Drop
  BY <1>1, <1>3, <1>4, <1>5, <1>7
<1> QED BY <1>1, <1>3, <1>5, <1>6, <1>7 DEF Span

LEMMA DupTypes ==
    ASSUME DupClient
    PROVE  /\ Len(replay.pushed) \in Nat
           /\ \A i \in Positions : replay.pushed[i].height \in Nat /\ replay.pushed[i].height >= 1
           /\ checkpoint \in Int /\ (checkpoint = NoHeight \/ checkpoint \in Nat)
           /\ finality.height \in Nat /\ Reach \in Nat
           /\ finality = NoAnchor \/ finality.height >= 1
           /\ Drop \in Nat /\ Span \in Nat /\ Drop <= Span /\ HeightBuffer \in Nat
           /\ FinalityDepth \in Nat /\ Drop >= FinalityDepth + 1
           /\ dedup \in Seq(Buckets) /\ \A k \in DOMAIN dedup : dedup[k].height \in Nat
<1>1. /\ Len(replay.pushed) \in Nat /\ MaxHeight \in Nat
      /\ \A i \in Positions : replay.pushed[i].height \in 1 .. MaxHeight
  BY MissTypes DEF DupClient, MissInv
<1>2. Reach \in Nat
  <2>1. Tip \in Nat
    BY <1>1 DEF DupClient, ClientInv, Running, NodeInv
  <2> QED BY <2>1 DEF Reach
<1>3. checkpoint \in Int /\ (checkpoint = NoHeight \/ checkpoint \in Nat)
      /\ finality.height \in 0 .. MaxHeight
      /\ (finality # NoAnchor => finality.height \in 1 .. MaxHeight)
  BY <1>1, AnchorHeight DEF DupClient, ClientInv, ChainStateTyped, NoHeight
<1>4. dedup \in Seq(Buckets) /\ \A k \in DOMAIN dedup : dedup[k].height \in Nat
  <2>1. dedup \in Seq(Buckets)
    BY DEF DupClient, ClientInv, ChainStateTyped, Buckets
  <2>2. \A k \in DOMAIN dedup : dedup[k] \in Buckets
    BY <2>1
  <2> QED BY <2>1, <2>2 DEF Buckets
<1> QED BY <1>1, <1>2, <1>3, <1>4, DropGrows, SMTT(30) DEF DupClient, DupInv

\* What is within stays within, as long as nothing is recorded.
LEMMA StillWithin ==
    ASSUME DupClient, dedup' = dedup, losses' = losses \/ losses' = losses + 1, NEW h \in Nat, Within(h)
    PROVE  /\ Within(h)'
           /\ losses' = losses + 1 /\ losses < EarlyLosses =>
                \A g \in Nat : g + HeightBuffer >= h => Within(g)'
<1>1. /\ Drop \in Nat /\ HeightBuffer \in Nat /\ \A k \in DOMAIN dedup : dedup[k].height \in Nat
      /\ losses' = losses => Drop' = Drop
      /\ losses' = losses + 1 =>
            Drop' = IF losses < EarlyLosses THEN Drop + HeightBuffer ELSE Drop
  BY DupTypes, DropGrows DEF DupClient, DupInv
<1>2. \A k \in DOMAIN dedup : dedup[k].height <= h + Drop
  BY DEF Within
<1>3. Within(h)'
  <2> SUFFICES ASSUME NEW k \in DOMAIN dedup PROVE dedup[k].height <= h + Drop'
    BY DEF Within
  <2> QED BY <1>1, <1>2
<1>4. ASSUME losses' = losses + 1, losses < EarlyLosses, NEW g \in Nat, g + HeightBuffer >= h
      PROVE  Within(g)'
  <2> SUFFICES ASSUME NEW k \in DOMAIN dedup PROVE dedup[k].height <= g + Drop'
    BY DEF Within
  <2> QED BY <1>1, <1>2, <1>4
<1> QED BY <1>3, <1>4

\* What a step that gives the application nothing, in the same session, leaves.
LEMMA DupKept ==
    ASSUME DupClient, UNCHANGED <<session, dedup, output, best, finalized, next>>,
           replay'.pushed = replay.pushed, losses' \in 0 .. MaxDisconnects,
           checkpoint' = checkpoint \/ dedup = <<>>, link' = "new" => link = "new"
    PROVE  /\ NoDuplicates' /\ losses' \in 0 .. MaxDisconnects
           /\ ChainInv' /\ BucketsInv' /\ AllKnown'
<1>1. Reach' = Reach /\ Positions' = Positions
  BY DEF Reach, Tip, Positions
<1>2. ChainInv'
  BY <1>1 DEF DupClient, DupInv, ChainInv, DepthKept
<1>3. \A i : Key(i)' = Key(i)
  BY DEF Key
<1>4. BucketsInv'
  BY <1>1, <1>3 DEF DupClient, DupInv, BucketsInv, Spread
<1>5. AllKnown'
  <2>1. \A i : (Given(i)' <=> Given(i)) /\ (Known(i)' <=> Known(i))
    BY <1>3, SameGiven DEF Known, Seen
  <2> QED BY <1>1, <2>1 DEF DupClient, DupInv, AllKnown
<1>6. NoDuplicates'
  BY DEF DupClient, DupInv, NoDuplicates
<1> QED BY <1>2, <1>4, <1>5, <1>6

LEMMA InitDup == ClientInit => DupInv
<1> SUFFICES ASSUME ClientInit PROVE DupInv
  OBVIOUS
<1>1. /\ output = <<>> /\ link = "new" /\ replay.pushed = <<>> /\ checkpoint = NoHeight /\ dedup = <<>>
      /\ losses = 0 /\ finality = NoAnchor
      /\ next = "accept" /\ finalized = 0 /\ best = [h \in 0 .. 0 |-> "main"]
  BY DEF ClientInit, Init, EmptyReplay, NoRequest, NoHeight
<1>2. Tip = 0
  <2>1. Tip = CHOOSE h \in 0 .. 0 : \A g \in 0 .. 0 : g <= h
    BY <1>1 DEF Tip
  <2> QED BY <2>1, LastHeight
<1>3. Positions = {}
  BY <1>1 DEF Positions
<1>4. ChainInv
  BY <1>1, <1>2, <1>3, ChainAssumption DEF ChainInv, DepthKept, Reach
<1>5. BucketsInv
  BY <1>1 DEF BucketsInv, Spread
<1>6. AllKnown /\ NoDuplicates /\ losses \in 0 .. MaxDisconnects
  BY <1>1, <1>3, ClientAssumption DEF AllKnown, NoDuplicates
<1>7. FeedWithin /\ AskWithin /\ ResumeWithin /\ AnchorInv
  BY <1>1 DEF FeedWithin, AskWithin, ResumeWithin, AnchorInv, NoHeight
<1> QED BY <1>4, <1>5, <1>6, <1>7 DEF DupInv

\* An event of the node: what is new is not far below what the client knows.
LEMMA NodeDup ==
    ASSUME DupClient, NodeEvent PROVE DupInv'
<1>1. /\ UNCHANGED <<session, link, losses, feed, ask, checkpoint, finality, dedup, output>>
      /\ NodeStep /\ Running
  BY DEF NodeEvent, client, chainState, outage, application, DupClient, ClientInv
<1>2. /\ ChainInv'
      /\ Reach \in Nat /\ Reach' \in Nat /\ Reach' >= Reach
      /\ Len(replay.pushed) \in Nat /\ Len(replay'.pushed) \in Nat
      /\ \A i \in Positions : replay'.pushed[i] = replay.pushed[i]
      /\ \A i \in Positions' : i \in Positions \/ i = Len(replay.pushed) + 1
      /\ \A i \in Positions' : i \notin Positions => Reach <= replay'.pushed[i].height + FinalityDepth
  BY <1>1, EventChain DEF DupClient, DupInv
<1>3. /\ Drop \in Nat /\ FinalityDepth \in Nat /\ Drop >= FinalityDepth + 1
      /\ \A k \in DOMAIN dedup : dedup[k].height \in Nat
      /\ Drop' = Drop
  BY <1>1, DupTypes, DropGrows DEF DupClient, DupInv
<1>4. \A i : Key(i)' = Key(i) /\ (Given(i)' <=> Given(i))
  BY <1>1, SameGiven DEF Key
<1>5. \A i : i \notin Positions => ~Given(i) /\ Key(i) \notin Seen
  <2>1. \A i : Given(i) => i \in Positions
    BY MissTypes DEF DupClient, MissInv
  <2>2. \A i : Key(i) \in Seen => Given(i)
    BY MissTypes DEF DupClient, MissInv, OutputTyped, Given
  <2> QED BY <2>1, <2>2
<1>6. BucketsInv'
  <2>1. \A k \in DOMAIN dedup : dedup[k].height <= Reach'
    BY <1>2, <1>3 DEF DupClient, DupInv, BucketsInv
  <2>2. ASSUME NEW k \in DOMAIN dedup, NEW i \in Positions', Key(i) \in dedup[k].keys
        PROVE  dedup[k].height = replay'.pushed[i].height
    <3>1. i \in Positions
      BY <1>5, <2>2 DEF Seen
    <3> QED BY <1>2, <2>2, <3>1 DEF DupClient, DupInv, BucketsInv
  <2> QED BY <1>1, <1>4, <2>1, <2>2 DEF DupClient, DupInv, BucketsInv, Spread
<1>7. AllKnown'
  <2> SUFFICES ASSUME NEW i \in Positions', Given(i) PROVE Known(i)'
    BY <1>4 DEF AllKnown
  <2>1. i \in Positions
    BY <1>5
  <2> QED BY <1>1, <1>2, <1>4, <2>1 DEF DupClient, DupInv, AllKnown, Known, Seen
<1>8. NoDuplicates'
  BY <1>1 DEF DupClient, DupInv, NoDuplicates
<1>9. FeedWithin'
  <2> SUFFICES ASSUME link = "up", NEW i \in Positions', Coming(i)' PROVE Within(replay.pushed[i].height)'
    BY <1>1 DEF FeedWithin
  <2>1. CASE i \in Positions
    <3>1. Within(replay.pushed[i].height)
      BY <1>1, <2>1 DEF Coming, DupClient, DupInv, FeedWithin
    <3> QED BY <1>1, <1>2, <1>3, <2>1, <3>1 DEF Within
  <2>2. CASE i \notin Positions
    <3>1. Reach <= replay'.pushed[i].height + FinalityDepth /\ replay'.pushed[i].height \in Nat
      <4>1. replay'.pushed[i].height \in Nat
        BY <1>1, EventRunning, ChainAssumption DEF Running, OrderInv, Positions
      <4> QED BY <1>2, <2>2, <4>1
    <3>2. ASSUME NEW k \in DOMAIN dedup PROVE dedup[k].height <= replay'.pushed[i].height + Drop
      <4>1. dedup[k].height <= Reach /\ dedup[k].height \in Nat
        BY <1>3 DEF DupClient, DupInv, BucketsInv
      <4> QED BY <1>2, <1>3, <3>1, <4>1, SMTT(30)
    <3> QED BY <1>1, <1>3, <3>2 DEF Within
  <2> QED BY <2>1, <2>2
<1>10. AskWithin' /\ ResumeWithin'
  BY <1>1, <1>3 DEF DupClient, DupInv, AskWithin, ResumeWithin, Within, ReplayHeight
<1>11. AnchorInv'
  <2> SUFFICES ASSUME link = "up", finality # NoAnchor
               PROVE  \E q \in Positions' :
                        /\ Final(replay'.pushed[q]) /\ replay'.pushed[q].height = finality.height
                        /\ \A j \in Positions' : Final(replay'.pushed[j]) /\ j > q => Coming(j)'
    BY <1>1 DEF AnchorInv
  <2>1. PICK q \in Positions :
            /\ Final(replay.pushed[q]) /\ replay.pushed[q].height = finality.height
            /\ \A j \in Positions : Final(replay.pushed[j]) /\ j > q => Coming(j)
    BY DEF DupClient, DupInv, AnchorInv
  <2>2. q \in Positions'
    BY <1>1, <1>2, EventRunning DEF Positions, EventLeaves, HistoryGrows
  <2>3. ASSUME NEW j \in Positions', Final(replay'.pushed[j]), j > q PROVE Coming(j)'
    <3>1. CASE j \in Positions
      <4>1. Coming(j)
        BY <1>2, <2>1, <2>3, <3>1
      <4> QED BY <1>1, <4>1 DEF Coming
    <3>2. CASE j \notin Positions
      <4>1. j = Len(replay.pushed) + 1 /\ feed.position \in Nat /\ feed.position <= Len(replay.pushed)
        BY <1>2, <3>2 DEF DupClient, ClientInv, LinkInv, FeedInv
      <4>2. j > feed.position
        BY <1>2, <4>1
      <4> QED BY <1>1, <4>2 DEF Coming
    <3> QED BY <3>1, <3>2
  <2> QED BY <1>2, <2>1, <2>2, <2>3
<1> QED BY <1>1, <1>2, <1>6, <1>7, <1>8, <1>9, <1>10, <1>11 DEF DupClient, DupInv

\* A connection is lost: what the client asks for is lower than its last height by the
\* buffer, and it allows for that much more.
LEMMA LossDup ==
    ASSUME RecoversAll, DupClient, Disconnect \/ Restart,
           link = "up" /\ link' = "down" /\ losses >= EarlyLosses => finality # NoAnchor
    PROVE  DupInv'
<1>1. /\ UNCHANGED <<best, finalized, next, current, checkpoint, finality, partial, dedup, output>>
      /\ losses < MaxDisconnects /\ losses' = losses + 1
      /\ IF link = "up" THEN link' = "down" /\ ask' = Ask
         ELSE UNCHANGED <<link, ask>>
  BY DEF Disconnect, Restart, LoseConnection, server, node, chainState, application, outage
<1>2. /\ checkpoint \in Int /\ (checkpoint = NoHeight \/ checkpoint \in Nat)
      /\ finality.height \in Nat /\ HeightBuffer \in Nat
      /\ losses' \in 0 .. MaxDisconnects
      /\ checkpoint = NoHeight /\ finality = NoAnchor => dedup = <<>>
  <2>1. losses' \in 0 .. MaxDisconnects
    BY <1>1, ClientAssumption DEF DupClient, DupInv
  <2>2. checkpoint \in Int /\ (checkpoint = NoHeight \/ checkpoint \in Nat)
        /\ finality.height \in Nat /\ HeightBuffer \in Nat
    BY DupTypes
  <2>3. dedup # <<>> => checkpoint >= 1
    BY DEF DupClient, DupInv, BucketsInv
  <2> QED BY <2>1, <2>2, <2>3 DEF NoHeight
<1>3. ResumeWithin'
  BY <1>1, <1>2, StillWithin DEF DupClient, DupInv, ResumeWithin
<1>4. AskWithin'
  <2> SUFFICES ASSUME link' = "down", ReplayHeight(ask') # NoHeight
               PROVE  \A k \in DOMAIN dedup : dedup[k].height <= ReplayHeight(ask') + Drop'
    BY <1>1 DEF AskWithin, ReplayHeight, Within
  <2>1. CASE link # "up"
    <3>1. link = "down" /\ ask' = ask /\ ReplayHeight(ask) # NoHeight /\ Within(ReplayHeight(ask))
      BY <1>1, <2>1 DEF DupClient, DupInv, AskWithin, ReplayHeight
    <3>2. ReplayHeight(ask) \in Nat
      <4>1. ask.resume.height \in 0 .. MaxHeight /\ ask.from \in MaybeHeight /\ MaxHeight \in Nat
        BY <3>1, AnchorHeight, ChainAssumption DEF DupClient, ClientInv, LinkInv, Asks
      <4> QED BY <3>1, <4>1 DEF ReplayHeight, NoHeight, MaybeHeight
    <3>3. Within(ReplayHeight(ask))'
      BY <1>1, <3>1, <3>2, StillWithin
    <3> QED BY <1>1, <3>1, <3>3 DEF Within, ReplayHeight
  <2>2. CASE link = "up" /\ finality # NoAnchor
    <3>1. ReplayHeight(ask') = finality.height
      BY <1>1, <2>2 DEF ReplayHeight, Ask, Anchor, RecoversAll
    <3> QED BY <1>1, <1>3, <2>2, <3>1 DEF ResumeWithin, Within
  <2>3. CASE link = "up" /\ finality = NoAnchor /\ checkpoint # NoHeight
    <3> DEFINE r == LowerBy(checkpoint, HeightBuffer)
    <3>1. ReplayHeight(ask') = r
      BY <1>1, <2>3 DEF ReplayHeight, Ask, Anchor, RecoversAll, NoHeight
    <3>2. r \in Nat /\ r + HeightBuffer >= checkpoint
      BY <1>2 DEF LowerBy
    <3>3. Within(checkpoint)
      BY <2>3 DEF DupClient, DupInv, ResumeWithin, NoHeight
    <3> HIDE DEF r
    <3>4. \A g \in Nat : g + HeightBuffer >= checkpoint => Within(g)'
      <4>1. losses < EarlyLosses
        BY <1>1, <2>3, ClientAssumption DEF DupClient, DupInv
      <4> QED BY <1>1, <1>2, <2>3, <3>3, <4>1, StillWithin
    <3>5. \A g \in Nat : g + HeightBuffer >= checkpoint =>
            \A k \in DOMAIN dedup : dedup[k].height <= g + Drop'
      BY <1>1, <3>4 DEF Within
    <3> QED BY <3>1, <3>2, <3>5
  <2>4. CASE link = "up" /\ finality = NoAnchor /\ checkpoint = NoHeight
    BY <1>1, <1>2, <2>4 DEF Within
  <2> QED BY <2>1, <2>2, <2>3, <2>4
<1>5. FeedWithin' /\ AnchorInv'
  BY <1>1 DEF FeedWithin, AnchorInv
<1>6. NoDuplicates' /\ losses' \in 0 .. MaxDisconnects /\ ChainInv' /\ BucketsInv' /\ AllKnown'
  <2>1. CASE Disconnect
    <3>1. UNCHANGED <<replay, session>> /\ (link' = "new" => link = "new")
      BY <1>1, <2>1 DEF Disconnect, server
    <3> QED BY <1>1, <1>2, <3>1, DupKept
  <2>2. CASE Restart
    <3>1. replay'.pushed = <<>> /\ Positions' = {}
      BY <2>2 DEF Restart, EmptyReplay, Positions
    <3>2. Reach' = Reach
      BY <1>1 DEF Reach, Tip
    <3>3. ChainInv'
      BY <1>1, <3>1, <3>2 DEF DupClient, DupInv, ChainInv, DepthKept
    <3>4. BucketsInv'
      BY <1>1, <3>1, <3>2 DEF DupClient, DupInv, BucketsInv, Spread
    <3>5. NoDuplicates'
      BY <1>1 DEF DupClient, DupInv, NoDuplicates
    <3> QED BY <1>2, <3>1, <3>3, <3>4, <3>5 DEF AllKnown
  <2> QED BY <2>1, <2>2
<1> QED BY <1>3, <1>4, <1>5, <1>6 DEF DupInv

\* A request with an anchor is let in only if the server has the finalized block; what it
\* finalized later is captured.
LEMMA ResumesAtAnchor ==
    ASSUME DupClient, NEW a, NEW kinds, LetIn(a), a.resume # NoAnchor,
           a.resume.height \in Nat, a.resume.height >= 1,
           UNCHANGED <<clock, node>>, feed' = Stream(a, kinds), link' = "up"
    PROVE  \E q \in Positions :
            /\ Final(replay.pushed[q]) /\ replay.pushed[q].height = a.resume.height
            /\ \A j \in Positions : Final(replay.pushed[j]) /\ j > q => Coming(j)'
<1>1. Running' /\ replay'.pushed = replay.pushed
  BY ReadKeeps DEF LetIn, DupClient, ClientInv
<1>2. /\ Len(replay.pushed) \in Nat /\ replay.popped \in Nat /\ replay'.popped \in Nat
      /\ Positions' = Positions
      /\ \A i \in Positions : replay.pushed[i].height \in Nat
  <2>1. replay.popped \in Nat /\ replay'.popped \in Nat
    BY <1>1 DEF DupClient, ClientInv, Running, OrderInv, Sound, Typed
  <2> QED BY <1>1, <2>1, DupTypes DEF Positions
<1>3. /\ \A i \in Positions : Coming(i)' <=>
                /\ ReplayHeight(a) # NoHeight
                /\ i \in Retained(replay') /\ replay.pushed[i].height >= ReplayHeight(a)
      /\ Retained(replay') \subseteq Positions
  BY <1>1, <1>2, OpensWith
<1>4. ReplayHeight(a) = a.resume.height /\ ReplayHeight(a) # NoHeight
  BY DEF ReplayHeight, NoHeight
<1>5. PICK q \in Retained(replay) :
        replay.pushed[q].height = a.resume.height
        /\ replay.pushed[q].item = Item("finalized", a.resume.fork)
  <2>1. VerifyCheckpoint(replay, a.resume.height, Item("finalized", a.resume.fork)) = "ok"
    BY DEF LetIn, Verified
  <2> QED BY <2>1 DEF VerifyCheckpoint
<1>6. q \in Positions /\ Final(replay.pushed[q])
  <2>1. q \in Positions
    BY <1>2 DEF Retained, Positions
  <2> QED BY <1>5, <2>1 DEF Final, Item
<1>7. PICK r \in Retained(replay') : replay.pushed[r].height <= a.resume.height
  BY <1>1, <1>4, AvailableIsRetained DEF LetIn, Running, OrderInv
<1>8. r <= q
  <2>1. r \in Positions
    BY <1>3
  <2>2. r > q => r \in (q + 1) .. Len(replay.pushed)
    BY <1>2, <1>6, <2>1 DEF Positions
  <2>3. r > q => replay.pushed[r].height > replay.pushed[q].height
    BY <1>6, <2>2, HigherAfterFinal DEF DupClient
  <2> QED BY <1>2, <1>5, <1>6, <1>7, <2>1, <2>3 DEF Positions
<1>9. ASSUME NEW j \in Positions, j > q PROVE Coming(j)'
  <2>1. j \in (q + 1) .. Len(replay.pushed)
    BY <1>2, <1>6, <1>9 DEF Positions
  <2>2. replay.pushed[j].height > a.resume.height
    BY <1>5, <1>6, <2>1, HigherAfterFinal DEF DupClient
  <2>3. j \in Retained(replay')
    BY <1>1, <1>2, <1>6, <1>7, <1>8, <1>9 DEF Retained, Positions
  <2> QED BY <1>2, <1>3, <1>4, <2>2, <2>3
<1> QED BY <1>5, <1>6, <1>9

\* The application's first request: the deduplication knows nothing yet.
LEMMA OpenDup ==
    ASSUME DupClient, Open PROVE DupInv'
<1>1. PICK kept \in Kept, from \in {NoHeight, 1}, kinds \in Filters :
        LET a == [from |-> from, resume |-> kept.resume, discarded |-> kept.discarded, second |-> FALSE]
        IN
        /\ LetIn(a)
        /\ finality' = kept.resume
        /\ feed' = Stream(a, kinds)
  BY DEF Open
<1> DEFINE a == [from |-> from, resume |-> kept.resume, discarded |-> kept.discarded, second |-> FALSE]
<1>2. /\ link = "new" /\ link' = "up" /\ UNCHANGED <<clock, node, session, losses, dedup, output>>
      /\ dedup = <<>>
  BY DEF Open, DupClient, DupInv, BucketsInv
<1>3. Running' /\ replay'.pushed = replay.pushed
  BY <1>1, <1>2, ReadKeeps DEF LetIn, DupClient, ClientInv
<1>4. NoDuplicates' /\ losses' \in 0 .. MaxDisconnects /\ ChainInv' /\ BucketsInv' /\ AllKnown'
  <2>1. losses' \in 0 .. MaxDisconnects
    BY <1>2 DEF DupClient, DupInv
  <2> QED BY <1>2, <1>3, <2>1, DupKept DEF node
<1>5. FeedWithin' /\ AskWithin' /\ ResumeWithin'
  BY <1>2 DEF FeedWithin, AskWithin, ResumeWithin, Within
<1>6. AnchorInv'
  <2> SUFFICES ASSUME finality' # NoAnchor
               PROVE  \E q \in Positions :
                        /\ Final(replay.pushed[q]) /\ replay.pushed[q].height = finality'.height
                        /\ \A j \in Positions : Final(replay.pushed[j]) /\ j > q => Coming(j)'
    BY <1>3 DEF AnchorInv, Positions
  <2>1. LetIn(a) /\ a.resume = finality' /\ feed' = Stream(a, kinds)
    BY <1>1
  <2>2. finality'.height \in Nat /\ finality'.height >= 1
    <3>1. kept.resume \in Anchors
      BY KeptTyped DEF DupClient, ClientInv
    <3>2. kept.resume.height \in 1 .. MaxHeight /\ MaxHeight \in Nat
      BY <1>1, <3>1, AnchorHeight, ChainAssumption
    <3> QED BY <1>1, <3>2
  <2> HIDE DEF a
  <2> QED BY <1>2, <2>1, <2>2, ResumesAtAnchor
<1> QED BY <1>4, <1>5, <1>6 DEF DupInv

\* A request of an outage is let in: nothing it asks for is far below what the client knows.
LEMMA ConnectDup ==
    ASSUME RecoversAll, DupClient, Connect PROVE DupInv'
<1>1. /\ link = "down" /\ UNCHANGED <<clock, node, session, losses, dedup, output>>
      /\ losses' \in 0 .. MaxDisconnects
      /\ ask.resume = finality
  BY DEF Connect, application, DupClient, DupInv, MissInv
<1>2. ASSUME EvictsTo(replay, clock, replay') \/ UNCHANGED replay, link' # "new", UNCHANGED checkpoint
      PROVE  NoDuplicates' /\ losses' \in 0 .. MaxDisconnects /\ ChainInv' /\ BucketsInv' /\ AllKnown'
  <2>1. replay'.pushed = replay.pushed
    BY <1>1, <1>2, ReadKeeps DEF DupClient, ClientInv
  <2> QED BY <1>1, <1>2, <2>1, DupKept DEF node
<1>3. ASSUME UNCHANGED <<finality, checkpoint>> PROVE ResumeWithin'
  <2>1. \A h \in Nat : Within(h) => Within(h)'
    BY <1>1, StillWithin
  <2> QED BY <1>3, <2>1, DupTypes DEF DupClient, DupInv, ResumeWithin
<1>4. CASE /\ LetIn(ask) /\ link' = "up" /\ feed' = Stream(ask, current.kinds)
           /\ UNCHANGED <<ended, current, checkpoint, finality, partial, outage>>
  <2>1. Running' /\ replay'.pushed = replay.pushed
    BY <1>1, <1>4, ReadKeeps DEF LetIn, DupClient, ClientInv
  <2>2. FeedWithin'
    <3> SUFFICES ASSUME NEW i \in Positions, Coming(i)' PROVE Within(replay.pushed[i].height)
      BY <1>1, <2>1, DropGrows DEF FeedWithin, Positions, Within, DupClient, DupInv
    <3>1. ReplayHeight(ask) # NoHeight /\ replay.pushed[i].height >= ReplayHeight(ask)
      BY <1>4, <2>1, OpensWith DEF Positions
    <3>2. Within(ReplayHeight(ask))
      BY <1>1, <3>1 DEF DupClient, DupInv, AskWithin
    <3>3. ReplayHeight(ask) \in Int
      <4>1. ask.resume.height \in 0 .. MaxHeight /\ ask.from \in MaybeHeight /\ MaxHeight \in Nat
        BY <1>1, AnchorHeight, ChainAssumption DEF DupClient, ClientInv, LinkInv, Asks
      <4> QED BY <4>1 DEF ReplayHeight, NoHeight, MaybeHeight
    <3>4. replay.pushed[i].height \in Nat /\ Drop \in Nat /\ \A k \in DOMAIN dedup : dedup[k].height \in Nat
      BY DupTypes
    <3> HIDE DEF ReplayHeight
    <3> QED BY <3>1, <3>2, <3>3, <3>4 DEF Within
  <2>3. AskWithin'
    BY <1>4 DEF AskWithin
  <2>4. AnchorInv'
    <3> SUFFICES ASSUME finality # NoAnchor
                 PROVE  \E q \in Positions :
                          /\ Final(replay.pushed[q]) /\ replay.pushed[q].height = finality.height
                          /\ \A j \in Positions : Final(replay.pushed[j]) /\ j > q => Coming(j)'
      BY <1>4, <2>1 DEF AnchorInv, Positions
    <3>1. finality.height \in Nat /\ finality.height >= 1
      BY DupTypes
    <3> QED BY <1>1, <1>4, <3>1, ResumesAtAnchor
  <2> QED BY <1>2, <1>3, <1>4, <2>2, <2>3, <2>4 DEF LetIn, DupInv
<1>5. ASSUME EvictsTo(replay, clock, replay') \/ UNCHANGED replay, link' = "ended",
             UNCHANGED <<finality, checkpoint>>
      PROVE  DupInv'
  <2>1. FeedWithin' /\ AskWithin' /\ AnchorInv'
    BY <1>5 DEF FeedWithin, AskWithin, AnchorInv
  <2> QED BY <1>2, <1>3, <1>5, <2>1 DEF DupInv
<1>6. CASE OutOfRange(ask) /\ (EvictsTo(replay, clock, replay') \/ UNCHANGED replay)
  BY <1>5, <1>6 DEF OutOfRange, End, RecoversAll
<1>7. CASE /\ Verified(ask) \in {"failed_precondition", "invalid_argument"}
           /\ End(Verified(ask))
           /\ UNCHANGED <<replay, feed, current, checkpoint, finality, partial, outage>>
  BY <1>5, <1>7 DEF End
<1> QED BY <1>4, <1>6, <1>7 DEF Connect

\* What changes only the request, the attempts, the filter at the server or the mark.
LEMMA RequestDup ==
    ASSUME DupClient, UpdateRequest \/ ReplaceFilter \/ ConnectFails \/ ReceiveReconnect
    PROVE  DupInv'
<1>1. UNCHANGED <<replay, best, finalized, next, session, losses, checkpoint, finality, dedup, output, ask>>
  BY DEF UpdateRequest, ReplaceFilter, ConnectFails, ReceiveReconnect, server, node, chainState,
         application, outage
<1>2. /\ link' = link \/ (link = "down" /\ link' = "ended")
      /\ link = "up" => feed'.captured = feed.captured /\ feed'.position = feed.position
  <2>1. link = "up" => FeedInv
    BY DEF DupClient, ClientInv, LinkInv
  <2> QED BY <2>1 DEF UpdateRequest, ReplaceFilter, ConnectFails, ReceiveReconnect, End, FeedInv
<1>3. /\ \A i : link' = "up" => link = "up" /\ (Coming(i)' <=> Coming(i))
      /\ Drop' = Drop /\ Positions' = Positions
  BY <1>1, <1>2, DropGrows DEF Coming, Positions, DupClient, DupInv
<1>4. NoDuplicates' /\ losses' \in 0 .. MaxDisconnects /\ ChainInv' /\ BucketsInv' /\ AllKnown'
  <2>1. losses' \in 0 .. MaxDisconnects /\ (link' = "new" => link = "new")
    BY <1>1, <1>2 DEF DupClient, DupInv
  <2> QED BY <1>1, <2>1, DupKept
<1>5. FeedWithin' /\ AskWithin' /\ ResumeWithin'
  BY <1>1, <1>2, <1>3 DEF DupClient, DupInv, FeedWithin, AskWithin, ResumeWithin, Within, ReplayHeight
<1>6. AnchorInv'
  BY <1>1, <1>3 DEF DupClient, DupInv, AnchorInv
<1> QED BY <1>4, <1>5, <1>6 DEF DupInv

\* An update asked for is given only if it was not before, and is then known.  No height is
\* new to the deduplication but its own.
LEMMA HandleDup ==
    ASSUME RecoversAll, RetentionSuffices, DupClient, link = "up",
           NEW i \in Positions, HandleUpdate(i), Within(replay.pushed[i].height),
           replay.pushed[i].item.kind \in feed.kinds,
           UNCHANGED <<replay, best, finalized, next, session, link>>
    PROVE  /\ NoDuplicates' /\ BucketsInv' /\ AllKnown'
           /\ \A k \in DOMAIN dedup' :
                \/ dedup'[k].height = replay.pushed[i].height
                \/ \E l \in DOMAIN dedup : dedup[l].height = dedup'[k].height
<1> DEFINE h == replay.pushed[i].height
<1>1. /\ h \in Nat /\ h >= 1 /\ i \in Nat /\ session \in Nat
      /\ Drop \in Nat /\ Span \in Nat /\ Drop <= Span /\ HeightRetention \in Nat
      /\ dedup \in Seq(Buckets) /\ \A k \in DOMAIN dedup : dedup[k].height \in Nat
      /\ \A j \in Positions : replay.pushed[j].height \in Nat
      /\ Len(dedup) <= HeightRetention
  BY DupTypes, ClientAssumption, SMTT(30) DEF Positions, DupClient, ClientInv, ChainStateTyped
<1>2. \A k \in DOMAIN dedup : dedup[k].height <= h + Span
  BY <1>1, SMTT(30) DEF Within
<1>3. /\ Positions' = Positions /\ Reach' = Reach /\ \A j : Key(j)' = Key(j)
      /\ \A j, k : Key(j) = Key(k) => j = k
  BY DEF Positions, Reach, Tip, Key
<1>4. checkpoint' = h
  BY DEF HandleUpdate
<1>5. h <= Reach
  BY DEF DupClient, DupInv, ChainInv
<1>6. CASE ~Fresh(i)
  <2>1. UNCHANGED <<output, dedup>>
    BY <1>6 DEF HandleUpdate, application
  <2>2. BucketsInv'
    BY <1>1, <1>3, <1>4, <2>1 DEF DupClient, DupInv, BucketsInv, Spread
  <2>3. AllKnown'
    <3>1. \A j : (Given(j)' <=> Given(j)) /\ (Known(j)' <=> Known(j))
      BY <1>3, <2>1, SameGiven DEF Known, Seen
    <3> QED BY <1>3, <3>1 DEF DupClient, DupInv, AllKnown
  <2>4. NoDuplicates'
    BY <2>1 DEF DupClient, DupInv, NoDuplicates
  <2> QED BY <2>1, <2>2, <2>3, <2>4
<1>7. CASE Fresh(i)
  <2>1. /\ output' = Append(output, Key(i))
        /\ dedup' = Recorded(i, h)
    <3>1. ~SkipMissedData /\ HeightRetention # 0
      BY <1>1 DEF RecoversAll, RetentionSuffices
    <3> QED BY <1>7, <3>1 DEF HandleUpdate, Deliver
  <2>2. Key(i) \notin Seen
    BY <1>1, <1>7 DEF Fresh, RecoversAll, RetentionSuffices
  <2>3. ~Given(i)
    <3>1. ~Known(i)
      <4> SUFFICES ASSUME NEW k \in DOMAIN dedup, dedup[k].height > h + Span PROVE FALSE
        BY <2>2 DEF Known
      <4> QED BY <1>1, <1>2
    <3> QED BY <3>1 DEF DupClient, DupInv, AllKnown
  <2>4. Tells(dedup', i, h)
    BY <1>1, <1>2, <2>1, RecordedSpread DEF DupClient, DupInv, BucketsInv
  <2> HIDE DEF h
  <2>5. \A k \in DOMAIN dedup' :
          dedup'[k].height = h \/ \E l \in DOMAIN dedup : dedup[l].height = dedup'[k].height
    BY <2>4 DEF Tells
  <2>6. NoDuplicates'
    <3>1. /\ output \in Seq(Nat \X Nat) /\ Len(output) \in Nat /\ DOMAIN output = 1 .. Len(output)
          /\ Key(i) \in Nat \X Nat
      BY <1>1, MissTypes DEF DupClient, MissInv, OutputTyped, Key
    <3>2. /\ Len(output') = Len(output) + 1 /\ output' \in Seq(Nat \X Nat)
          /\ \A k \in 1 .. Len(output) : output'[k] = output[k]
          /\ output'[Len(output) + 1] = Key(i)
      BY <2>1, <3>1, AppendProperties
    <3>3. DOMAIN output' = 1 .. (Len(output) + 1)
      BY <3>1, <3>2
    <3>4. \A k \in 1 .. Len(output) : output[k] # Key(i)
      BY <2>3, <3>1 DEF Given
    <3>5. \A j, k \in 1 .. Len(output) : j # k => output[j] # output[k]
      BY <3>1 DEF DupClient, DupInv, NoDuplicates
    <3>6. \A k \in 1 .. (Len(output) + 1) : k \in 1 .. Len(output) \/ k = Len(output) + 1
      BY <3>1
    <3> SUFFICES ASSUME NEW j \in 1 .. (Len(output) + 1), NEW k \in 1 .. (Len(output) + 1), j # k
                 PROVE  output'[j] # output'[k]
      BY <3>3 DEF NoDuplicates
    <3>7. CASE j \in 1 .. Len(output) /\ k \in 1 .. Len(output)
      BY <3>2, <3>5, <3>7
    <3>8. CASE j \in 1 .. Len(output) /\ k = Len(output) + 1
      BY <3>2, <3>4, <3>8
    <3>9. CASE j = Len(output) + 1 /\ k \in 1 .. Len(output)
      BY <3>2, <3>4, <3>9
    <3> QED BY <3>6, <3>7, <3>8, <3>9
  <2>7. BucketsInv'
    <3>1. Spread(dedup)'
      BY <2>4 DEF Tells, Spread
    <3>2. \A k \in DOMAIN dedup' : dedup'[k].height <= Reach'
      <4> TAKE k \in DOMAIN dedup'
      <4>1. CASE dedup'[k].height = h
        BY <1>3, <1>5, <4>1 DEF h
      <4>2. ASSUME NEW l \in DOMAIN dedup, dedup[l].height = dedup'[k].height
            PROVE  dedup'[k].height <= Reach'
        <5>1. dedup[l].height <= Reach
          BY DEF DupClient, DupInv, BucketsInv
        <5> QED BY <1>3, <4>2, <5>1
      <4> QED BY <2>5, <4>1, <4>2
    <3>3. ASSUME NEW k \in DOMAIN dedup', NEW j \in Positions, Key(j) \in dedup'[k].keys
          PROVE  dedup'[k].height = replay.pushed[j].height
      <4>1. \/ Key(j) = Key(i) /\ dedup'[k].height = h
            \/ \E l \in DOMAIN dedup : Key(j) \in dedup[l].keys /\ dedup[l].height = dedup'[k].height
        BY <2>4, <3>3 DEF Tells
      <4>2. CASE Key(j) = Key(i) /\ dedup'[k].height = h
        BY <1>3, <4>2 DEF h
      <4>3. ASSUME NEW l \in DOMAIN dedup, Key(j) \in dedup[l].keys, dedup[l].height = dedup'[k].height
            PROVE  dedup'[k].height = replay.pushed[j].height
        BY <4>3 DEF DupClient, DupInv, BucketsInv
      <4> QED BY <4>1, <4>2, <4>3
    <3>4. checkpoint' >= 1 /\ link' # "new"
      BY <1>1, <1>4 DEF h
    <3> QED BY <1>3, <3>1, <3>2, <3>3, <3>4 DEF BucketsInv
  <2>8. AllKnown'
    <3> SUFFICES ASSUME NEW j \in Positions, Given(j)'
                 PROVE  \/ \E k \in DOMAIN dedup' : Key(j) \in dedup'[k].keys
                        \/ \E k \in DOMAIN dedup' : dedup'[k].height > replay.pushed[j].height + Span
      BY <1>3 DEF AllKnown, Known, Seen
    <3>1. Given(j) \/ j = i
      BY HandleGives DEF DupClient
    <3>2. CASE j = i
      BY <2>4, <3>2 DEF Tells
    <3>3. CASE Given(j)
      <4>1. Known(j)
        BY <3>3 DEF DupClient, DupInv, AllKnown
      <4>2. ASSUME NEW l \in DOMAIN dedup
            PROVE  \/ \E k \in DOMAIN dedup' :
                        dedup'[k].height = dedup[l].height /\ dedup[l].keys \subseteq dedup'[k].keys
                   \/ \E k \in DOMAIN dedup' : dedup'[k].height > dedup[l].height + Span
        BY <2>4 DEF Tells
      <4>3. ASSUME NEW l \in DOMAIN dedup, Key(j) \in dedup[l].keys
            PROVE  \/ \E k \in DOMAIN dedup' : Key(j) \in dedup'[k].keys
                   \/ \E k \in DOMAIN dedup' : dedup'[k].height > replay.pushed[j].height + Span
        <5>1. dedup[l].height = replay.pushed[j].height
          BY <4>3 DEF DupClient, DupInv, BucketsInv
        <5> QED BY <4>2, <4>3, <5>1
      <4>4. ASSUME NEW l \in DOMAIN dedup, dedup[l].height > replay.pushed[j].height + Span
            PROVE  \E k \in DOMAIN dedup' : dedup'[k].height > replay.pushed[j].height + Span
        <5>1. CASE \E k \in DOMAIN dedup' : dedup'[k].height = dedup[l].height
          BY <4>4, <5>1
        <5>2. ASSUME NEW k \in DOMAIN dedup', dedup'[k].height > dedup[l].height + Span
              PROVE  dedup'[k].height > replay.pushed[j].height + Span
          <6>1. dedup'[k].height \in Nat
            BY <1>1, <2>5 DEF h
          <6> QED BY <1>1, <4>4, <5>2, <6>1, SMTT(30)
        <5> QED BY <4>2, <5>1, <5>2
      <4> QED BY <4>1, <4>3, <4>4 DEF Known, Seen
    <3> QED BY <3>1, <3>2, <3>3
  <2> QED BY <2>5, <2>6, <2>7, <2>8 DEF h
<1> QED BY <1>6, <1>7

\* What is received is not far above what is still to come, nor above the finalized block.
LEMMA ReceiveDup ==
    ASSUME RecoversAll, FinalAsked, RetentionSuffices, DupClient, ReceiveReplay \/ ReceiveLive
    PROVE  DupInv'
<1>1. /\ link = "up" /\ UNCHANGED <<replay, best, finalized, next, session, link, losses, current, ask>>
  BY DEF ReceiveReplay, ReceiveLive, server, node, outage
<1>2. PICK i \in Positions :
        /\ Coming(i) /\ HandleUpdate(i)
        /\ \A j \in Positions : Coming(j) => i <= j
        /\ \A j \in Positions : (feed'.position < j \/ j \in feed'.captured) <=> (Coming(j) /\ j # i)
        /\ feed'.kinds = feed.kinds
  BY ReceivesLeast DEF DupClient
<1> DEFINE b == replay.pushed[i]
           asked == b.item.kind \in feed.kinds
<1>3. /\ Final(b) => asked
      /\ finality' = IF Final(b) THEN Block(b.height, b.item.fork) ELSE finality
      /\ asked => checkpoint' = b.height
      /\ ~asked => UNCHANGED <<checkpoint, dedup, output>>
  <2>1. Final(b) => asked
    BY <1>1 DEF DupClient, MissInv, KindsAsked, FinalAsked, Final
  <2>2. finality' = IF asked /\ Final(b) THEN Block(b.height, b.item.fork) ELSE finality
    BY <1>1, <1>2, HandleGives DEF DupClient
  <2>3. asked => checkpoint' = b.height
    BY <1>2 DEF HandleUpdate
  <2>4. ~asked => UNCHANGED <<checkpoint, dedup, output>>
    BY <1>2 DEF HandleUpdate, chainState, application
  <2> QED BY <2>1, <2>2, <2>3, <2>4
<1>4. /\ Len(replay.pushed) \in Nat
      /\ \A j \in Positions : replay.pushed[j].height \in Nat /\ replay.pushed[j].height >= 1
      /\ checkpoint \in Int /\ finality.height \in Nat
      /\ Drop \in Nat /\ FinalityDepth \in Nat /\ Drop >= FinalityDepth + 1
      /\ \A k \in DOMAIN dedup : dedup[k].height \in Nat
      /\ Positions' = Positions /\ Drop' = Drop
  <2>1. Positions' = Positions /\ Drop' = Drop
    BY <1>1, DropGrows DEF Positions, DupClient, DupInv
  <2> QED BY <2>1, DupTypes
<1>5. \A j \in Positions : Coming(j)' <=> (Coming(j) /\ j # i)
  <2>1. feed'.position \in Nat
    BY <1>1, ReceiveClientInv DEF DupClient, ClientInv, LinkInv, FeedInv
  <2> QED BY <1>1, <1>2, <2>1 DEF Coming, Positions
<1>6. \A j \in Positions : Coming(j)' => Coming(j) /\ j > i
  BY <1>2, <1>4, <1>5 DEF Positions
<1>7. Within(b.height)
  BY <1>1, <1>2 DEF DupClient, DupInv, FeedWithin
<1>8. /\ NoDuplicates' /\ BucketsInv' /\ AllKnown'
      /\ \A k \in DOMAIN dedup' :
            \/ asked /\ dedup'[k].height = b.height
            \/ \E l \in DOMAIN dedup : dedup[l].height = dedup'[k].height
  <2>1. CASE asked
    BY <1>1, <1>2, <1>7, <2>1, HandleDup
  <2>2. CASE ~asked
    BY <1>1, <1>3, <2>2, DupKept DEF DupClient, DupInv
  <2> QED BY <2>1, <2>2
<1> HIDE DEF asked
<1>9. \A h \in Nat : Within(h) /\ (asked => b.height <= h + Drop) =>
        \A k \in DOMAIN dedup' : dedup'[k].height <= h + Drop
  BY <1>8 DEF Within
<1>10. ChainInv' /\ losses' \in 0 .. MaxDisconnects
  <2>1. Reach' = Reach
    BY <1>1 DEF Reach, Tip
  <2> QED BY <1>1, <1>4, <2>1 DEF DupClient, DupInv, ChainInv, DepthKept
<1>11. FeedWithin'
  <2> SUFFICES ASSUME NEW j \in Positions, Coming(j)'
               PROVE  \A k \in DOMAIN dedup' : dedup'[k].height <= replay.pushed[j].height + Drop
    BY <1>1, <1>4 DEF FeedWithin, Within
  <2>1. Coming(j) /\ j > i
    BY <1>6
  <2>2. Within(replay.pushed[j].height)
    BY <1>1, <2>1 DEF DupClient, DupInv, FeedWithin
  <2>3. b.height <= replay.pushed[j].height + FinalityDepth
    <3>1. i \in 1 .. j
      BY <1>4, <2>1 DEF Positions
    <3> QED BY <3>1 DEF DupClient, DupInv, ChainInv
  <2>4. b.height <= replay.pushed[j].height + Drop
    BY <1>4, <2>3, SMTT(30)
  <2> QED BY <1>4, <1>9, <2>2, <2>4
<1>12. AskWithin'
  BY <1>1 DEF AskWithin
<1>13. ASSUME finality # NoAnchor
       PROVE  \E q \in Positions :
                /\ Final(replay.pushed[q]) /\ replay.pushed[q].height = finality.height
                /\ \A j \in Positions : Final(replay.pushed[j]) /\ j > q => Coming(j)
  BY <1>1, <1>13 DEF DupClient, DupInv, AnchorInv
<1>14. ResumeWithin'
  <2>1. CASE Final(b)
    <3>1. finality'.height = b.height
      BY <1>3, <2>1 DEF Block
    <3>2. finality' # NoAnchor
      BY <1>4, <3>1 DEF NoAnchor
    <3>3. b.height <= b.height + Drop /\ b.height \in Nat
      BY <1>4
    <3>4. \A k \in DOMAIN dedup' : dedup'[k].height <= b.height + Drop
      BY <1>7, <1>9, <3>3
    <3> QED BY <1>4, <3>1, <3>2, <3>4 DEF ResumeWithin, Within
  <2>2. CASE ~Final(b) /\ finality = NoAnchor
    <3>1. finality' = NoAnchor
      BY <1>3, <2>2
    <3>2. ASSUME asked PROVE Within(checkpoint)'
      <4>1. b.height <= b.height + Drop /\ b.height \in Nat
        BY <1>4
      <4>2. \A k \in DOMAIN dedup' : dedup'[k].height <= b.height + Drop
        BY <1>7, <1>9, <4>1
      <4> QED BY <1>3, <1>4, <3>2, <4>2 DEF Within
    <3>3. ASSUME ~asked, checkpoint # NoHeight PROVE Within(checkpoint)'
      <4>1. Within(checkpoint)
        BY <2>2, <3>3 DEF DupClient, DupInv, ResumeWithin
      <4> QED BY <1>3, <1>4, <3>3, <4>1 DEF Within
    <3> QED BY <1>3, <3>1, <3>2, <3>3 DEF ResumeWithin
  <2>3. CASE ~Final(b) /\ finality # NoAnchor
    <3>1. finality' = finality /\ Within(finality.height)
      BY <1>3, <2>3 DEF DupClient, DupInv, ResumeWithin
    <3>2. b.height <= finality.height + Drop
      <4>1. PICK q \in Positions :
                /\ Final(replay.pushed[q]) /\ replay.pushed[q].height = finality.height
                /\ \A j \in Positions : Final(replay.pushed[j]) /\ j > q => Coming(j)
        BY <1>13, <2>3
      <4>2. CASE i \in 1 .. q
        <5>1. b.height <= replay.pushed[q].height + FinalityDepth
          BY <4>2 DEF DupClient, DupInv, ChainInv
        <5> QED BY <1>4, <4>1, <5>1
      <4>3. CASE i \in (q + 1) .. Len(replay.pushed)
        <5>1. PICK j \in q .. (i - 1) :
                /\ Final(replay.pushed[j])
                /\ b.height <= replay.pushed[j].height + FinalityDepth + 1
          BY <4>1, <4>3 DEF DupClient, DupInv, ChainInv
        <5>2. j \in Positions /\ j < i /\ (j = q \/ j > q)
          BY <1>4, <4>1, <4>3, <5>1 DEF Positions
        <5>3. j = q
          <6>1. ~Coming(j)
            BY <1>2, <1>4, <5>2 DEF Positions
          <6> QED BY <4>1, <5>1, <5>2, <6>1
        <5> QED BY <1>4, <4>1, <5>1, <5>3, SMTT(30)
      <4> QED BY <1>4, <4>1, <4>2, <4>3 DEF Positions
    <3>3. \A k \in DOMAIN dedup' : dedup'[k].height <= finality.height + Drop
      BY <1>4, <1>9, <3>1, <3>2
    <3> QED BY <1>4, <2>3, <3>1, <3>3 DEF ResumeWithin, Within
  <2> QED BY <2>1, <2>2, <2>3
<1>15. AnchorInv'
  <2> SUFFICES ASSUME finality' # NoAnchor
               PROVE  \E q \in Positions :
                        /\ Final(replay.pushed[q]) /\ replay.pushed[q].height = finality'.height
                        /\ \A j \in Positions : Final(replay.pushed[j]) /\ j > q => Coming(j)'
    BY <1>1, <1>4 DEF AnchorInv
  <2>1. CASE Final(b)
    <3>1. finality'.height = b.height
      BY <1>3, <2>1 DEF Block
    <3>2. ASSUME NEW j \in Positions, j > i PROVE Coming(j)'
      <4>1. j \in i .. Len(replay.pushed)
        BY <1>4, <3>2 DEF Positions
      <4>2. Coming(j)
        BY <1>1, <1>2, <2>1, <4>1 DEF DupClient, MissInv, FeedClosed
      <4> QED BY <1>4, <1>5, <3>2, <4>2 DEF Positions
    <3> QED BY <2>1, <3>1, <3>2
  <2>2. CASE ~Final(b)
    <3>1. finality' = finality
      BY <1>3, <2>2
    <3> QED BY <1>5, <1>13, <2>2, <3>1
  <2> QED BY <2>1, <2>2
<1> QED BY <1>8, <1>10, <1>11, <1>12, <1>14, <1>15 DEF DupInv

\* The step of AnchoredAfter.
Anchored == link = "up" /\ link' = "down" /\ losses >= EarlyLosses => finality # NoAnchor

LEMMA NextDup ==
    ASSUME RecoversAll, FinalAsked, RetentionSuffices, DupClient, [Anchored]_cvars, [ClientNext]_cvars
    PROVE  DupInv'
<1>1. CASE ClientNext /\ Anchored
  BY <1>1, NodeDup, LossDup, OpenDup, ConnectDup, RequestDup, ReceiveDup DEF ClientNext, Anchored
<1>2. CASE UNCHANGED cvars
  <2>1. UNCHANGED <<replay, best, finalized, next, session, link, losses, feed, checkpoint, finality,
                    dedup, ask, output>>
    BY <1>2 DEF cvars, server, node, client, chainState, outage, application
  <2>2. /\ Drop' = Drop /\ Positions' = Positions /\ \A i : Coming(i)' <=> Coming(i)
        /\ losses' \in 0 .. MaxDisconnects
    BY <2>1, DropGrows DEF Coming, Positions, DupClient, DupInv
  <2>3. NoDuplicates' /\ ChainInv' /\ BucketsInv' /\ AllKnown'
    BY <2>1, <2>2, DupKept
  <2>4. FeedWithin' /\ AskWithin' /\ ResumeWithin' /\ AnchorInv'
    BY <2>1, <2>2 DEF DupClient, DupInv, FeedWithin, AskWithin, ResumeWithin, AnchorInv, Within, ReplayHeight
  <2> QED BY <2>2, <2>3, <2>4 DEF DupInv
<1> QED BY <1>1, <1>2

\* A client that recovers missed data and always asks for finalized blocks is given no
\* update twice, whatever the window is, however often the connection breaks and whatever
\* a replay repeats, if the deduplication keeps more than twice the heights that updates
\* can reach back and that EarlyLosses outages without a finalized block can ask further
\* down.
THEOREM NothingIsRepeated ==
    RecoversAll /\ FinalAsked /\ RetentionSuffices => (ClientSpec /\ AnchoredAfter => []NoDuplicates)
<1>1. DupInv => NoDuplicates
  BY DEF DupInv
<1>2. ClientInit => MissInv /\ DupInv
  BY InitMiss, InitDup
<1> SUFFICES ASSUME RecoversAll, FinalAsked, RetentionSuffices
             PROVE  ClientSpec /\ AnchoredAfter => []NoDuplicates
  OBVIOUS
<1>3. ClientInv /\ ClientInv' /\ MissInv /\ DupInv /\ [Anchored]_cvars /\ [ClientNext]_cvars
      => MissInv' /\ DupInv'
  BY NextMiss, NextDup DEF DupClient, RetentionSuffices
<1> QED BY <1>1, <1>2, <1>3, ClientInvariant, PTL DEF ClientSpec, AnchoredAfter, Anchored

\* Connections are counted.
Counted == losses \in Nat

\* A bound on all outages bounds those without a finalized block.
LEMMA AllAnchored ==
    ASSUME EarlyLosses \in Nat, MaxDisconnects <= EarlyLosses
    PROVE  ClientSpec => AnchoredAfter
<1>1. ClientInit => Counted
  BY DEF ClientInit, Counted
<1>2. Counted /\ [ClientNext]_cvars => Counted'
  BY DEF Counted, ClientNext, cvars, server, client, chainState, application, outage, NodeEvent, Restart, Open,
         UpdateRequest, ReplaceFilter, Disconnect, Connect, ConnectFails, ReceiveReconnect,
         ReceiveReplay, ReceiveLive
<1>3. Counted /\ [ClientNext]_cvars => [Anchored]_cvars
  <2> SUFFICES ASSUME Counted, ClientNext, link = "up", link' = "down" PROVE losses < EarlyLosses
    BY DEF Anchored, Counted
  <2>1. losses < MaxDisconnects
    BY DEF ClientNext, client, chainState, application, outage, NodeEvent, Restart, Open,
           UpdateRequest, ReplaceFilter, Disconnect, Connect, ConnectFails, ReceiveReconnect,
           ReceiveReplay, ReceiveLive
  <2> QED BY <2>1, ClientAssumption DEF Counted
<1> QED BY <1>1, <1>2, <1>3, PTL DEF ClientSpec, AnchoredAfter, Anchored

\* With a retention for every outage there may be, no update is given twice, whether the
\* client ever has a finalized block or not.
THEOREM RetentionForEveryOutage ==
    RecoversAll /\ FinalAsked /\ RetentionSuffices /\ MaxDisconnects <= EarlyLosses
        => (ClientSpec => []NoDuplicates)
<1> SUFFICES ASSUME RecoversAll, FinalAsked, RetentionSuffices, MaxDisconnects <= EarlyLosses
             PROVE  ClientSpec => []NoDuplicates
  OBVIOUS
<1>1. ClientSpec => AnchoredAfter
  BY AllAnchored DEF RetentionSuffices
<1>2. ClientSpec /\ AnchoredAfter => []NoDuplicates
  BY NothingIsRepeated
<1> QED BY <1>1, <1>2
=============================================================================
