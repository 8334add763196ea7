--------------------------- MODULE ClientReconnect ---------------------------
(***************************************************************************)
(* The reconnecting client of zakura-grpc-client (reconnect.rs, dedup.rs)  *)
(* on the replay window of ReplayService: what it observes, what it asks   *)
(* for when a connection is lost, what it lets through to the application. *)
(*                                                                         *)
(* A connection feeds the client what GeyserServer promises of a stream:   *)
(* the captured buckets in order, then everything published later, in      *)
(* order, until it breaks.  A bucket stands for its updates: one update    *)
(* each here, known by the session and its number (session_id, sequence).  *)
(***************************************************************************)
EXTENDS ReplayService

CONSTANTS
    SkipMissedData,    \* ReconnectionPolicy::SkipMissedData
    SkipToLive,        \* ReplayGapPolicy::SkipToLive (else Fail)
    HeightRetention,   \* of RecoverMissedData: heights the deduplication keeps
    HeightBuffer,      \* checkpoint_height_buffer
    Filters,           \* the event kinds a request's filter lets through
    MaxRetries,        \* Backoff.max_retries
    MaxDisconnects,    \* bound: connections lost, those to restarts included
    MaxRestarts        \* bound: restarts of the node

ASSUME ClientAssumption ==
    /\ SkipMissedData \in BOOLEAN /\ SkipToLive \in BOOLEAN
    /\ HeightRetention \in Nat /\ HeightBuffer \in Nat /\ MaxRetries \in Nat
    /\ Filters \subseteq SUBSET {"accepted", "best", "finalized"}
    /\ MaxDisconnects \in Nat /\ MaxRestarts \in Nat

VARIABLES
    session,      \* the node's session: it changes when the node restarts
    restarts,     \* restarts so far
    link,         \* "new", "up", "down" (reconnecting) or "ended"
    ended,        \* the status the application got at the end
    losses,       \* connections lost so far
    feed,         \* what the connection has yet to deliver
    current,      \* current_request: its from_height, NoHeight for None, and filter
    checkpoint,   \* height of the last update, NoHeight for None
    finality,     \* ChainResumeState.finalized, NoAnchor for None
    partial,      \* ChainResumeState.partial
    dedup,        \* DedupState: its buckets of heights, oldest first
    ask,          \* reconnect_request of the outage
    attempt,      \* connections tried with it
    output,       \* the updates the application was given
    app           \* the unfinalized blocks of an application that follows them

chainState == <<checkpoint, finality, partial, dedup>>
outage == <<ask, attempt>>
application == <<output, app>>
client == <<link, ended, losses, feed, current, chainState, outage, application>>
server == <<replay, clock, node, reply, session, restarts>>
cvars == <<server, client>>

NoHeight == -1
NoRequest == [from |-> NoHeight, kinds |-> {}]
NoAnchor == [height |-> 0, fork |-> "none"]
Block(height, fork) == [height |-> height, fork |-> fork]
NoFeed == [discarded |-> {}, marked |-> FALSE, captured |-> {}, position |-> 0, kinds |-> {}]
NoAsk == [from |-> NoHeight, resume |-> NoAnchor, discarded |-> {}, second |-> FALSE]

ClientInit ==
    /\ Init
    /\ session = 1 /\ restarts = 0
    /\ link = "new" /\ ended = "no" /\ losses = 0
    /\ feed = NoFeed
    /\ current = NoRequest /\ checkpoint = NoHeight
    /\ finality = NoAnchor /\ partial = {} /\ dedup = <<>>
    /\ ask = NoAsk /\ attempt = 0
    /\ output = <<>> /\ app = {}

-----------------------------------------------------------------------------
(***************************************************************************)
(* The node, and its restart between two events: a new session, whose      *)
(* replay window is empty.                                                 *)
(***************************************************************************)
NodeEvent ==
    /\ NodeStep
    /\ UNCHANGED <<session, restarts, client>>

\* What a lost connection makes of the client (below): reconnect_subscription begins.
Anchor == IF SkipMissedData THEN NoAnchor ELSE finality

\* Mutant: the buffer is not taken off.
LowerByNothing(height, buffer) == height

\* u32::saturating_sub
LowerBy(height, buffer) == IF height > buffer THEN height - buffer ELSE 0

\* Mutant: the last height wins over the finalized block, without its buffer.
AskFromLastHeight ==
    [from |-> IF checkpoint # NoHeight THEN checkpoint ELSE current.from,
     resume |-> NoAnchor, discarded |-> {}, second |-> FALSE]

\* The first reconnect request: resume from the finalized block; without one, from
\* the last height less the buffer; without one, as the current request says.
\* (A height lowered to 0 is asked for all the same: a window that begins at height 1 or
\* above refuses it as evicted.)
Ask ==
    [from |-> IF SkipMissedData THEN NoHeight
              ELSE IF finality # NoAnchor THEN finality.height
              ELSE IF checkpoint # NoHeight
                   THEN LowerBy(checkpoint, HeightBuffer)
              ELSE current.from,
     resume |-> Anchor,
     discarded |-> IF Anchor = NoAnchor THEN {} ELSE partial,
     second |-> FALSE]

LoseConnection ==
    /\ link' = "down"
    /\ feed' = NoFeed
    /\ ask' = Ask
    /\ attempt' = 0

\* The connection breaks, or the server ends it: whatever it held is lost.
Disconnect ==
    /\ link = "up" /\ losses < MaxDisconnects
    /\ losses' = losses + 1
    /\ LoseConnection
    /\ UNCHANGED <<server, ended, current, chainState, application>>

Restart ==
    /\ restarts < MaxRestarts /\ losses < MaxDisconnects
    /\ losses' = losses + 1
    /\ next = "accept"
    /\ restarts' = restarts + 1
    /\ session' = session + 1
    /\ replay' = EmptyReplay
    /\ IF link = "up" THEN LoseConnection ELSE UNCHANGED <<link, feed, outage>>
    /\ UNCHANGED <<clock, node, reply, ended, current, chainState, application>>

-----------------------------------------------------------------------------
(***************************************************************************)
(* Connecting                                                              *)
(***************************************************************************)
End(status) == link' = "ended" /\ ended' = status

\* replay_height: a from_height beside a checkpoint must be the checkpoint's, and the
\* blocks the client gives up must be above it.
Agrees(a) ==
    a.resume # NoAnchor =>
        /\ a.from \in {NoHeight, a.resume.height}
        /\ \A b \in a.discarded : b.height > a.resume.height

\* With a checkpoint the height asked for is the anchor's, whatever from_height says.
ReplayHeight(a) == IF a.resume = NoAnchor THEN a.from ELSE a.resume.height

\* What subscribe answers before it reads the window, as ReplayService has it.
Verified(a) ==
    IF ~Agrees(a) THEN "invalid_argument"
    ELSE IF a.resume = NoAnchor THEN "ok"
    ELSE VerifyCheckpoint(replay, a.resume.height, Item("finalized", a.resume.fork))

\* The stream that a request let in opens, under its filter.
Stream(a, kinds) ==
    [discarded |-> a.discarded,
     marked |-> a.resume # NoAnchor,
     captured |-> IF ReplayHeight(a) = NoHeight THEN {} ELSE ReplayFrom(replay', ReplayHeight(a)),
     position |-> Len(replay'.pushed),
     kinds |-> kinds]

LetIn(a) ==
    /\ Verified(a) = "ok"
    /\ EvictsTo(replay, clock, replay')
    /\ ReplayHeight(a) = NoHeight \/ HeightAvailable(replay', ReplayHeight(a))

\* OUT_OF_RANGE: fail, or forget the resume state and try once more.  The second
\* request drops from_height and keeps resume.
OutOfRange(a) ==
    IF ~SkipToLive \/ a.second
    THEN /\ End("out_of_range")
         /\ UNCHANGED <<feed, current, checkpoint, finality, partial, ask, attempt>>
    ELSE /\ ask' = [a EXCEPT !.from = NoHeight, !.second = TRUE]
         /\ attempt' = 0
         /\ current' = [current EXCEPT !.from = NoHeight]
         /\ checkpoint' = NoHeight
         /\ finality' = NoAnchor
         /\ partial' = {}
         /\ UNCHANGED <<link, ended, feed>>

\* connect_once reaches the server, which lets the client in, finds the height or the
\* anchor gone, or refuses the request for good.
Connect ==
    /\ link = "down"
    /\ \/ /\ LetIn(ask)
          /\ link' = "up"
          /\ feed' = Stream(ask, current.kinds)
          /\ UNCHANGED <<ended, current, checkpoint, finality, partial, outage>>
       \/ /\ Verified(ask) = "out_of_range"
          /\ OutOfRange(ask)
          /\ UNCHANGED replay
       \/ /\ Verified(ask) = "ok" /\ ReplayHeight(ask) # NoHeight
          /\ EvictsTo(replay, clock, replay')
          /\ ~HeightAvailable(replay', ReplayHeight(ask))
          /\ OutOfRange(ask)
       \/ /\ Verified(ask) \in {"failed_precondition", "invalid_argument"}
          /\ End(Verified(ask))
          /\ UNCHANGED <<replay, feed, current, checkpoint, finality, partial, outage>>
    /\ UNCHANGED <<clock, node, reply, session, restarts, losses, dedup, application>>

\* Mutant: one attempt too many.
ConnectFailsOnceMore ==
    /\ link = "down"
    /\ attempt' = attempt + 1
    /\ IF attempt > MaxRetries THEN End("unavailable") ELSE UNCHANGED <<link, ended>>
    /\ UNCHANGED <<server, losses, feed, current, chainState, ask, application>>

\* connect_once does not: the next of at most 1 + max_retries attempts, or the end.
ConnectFails ==
    /\ link = "down"
    /\ attempt' = attempt + 1
    /\ IF attempt = MaxRetries THEN End("unavailable") ELSE UNCHANGED <<link, ended>>
    /\ UNCHANGED <<server, losses, feed, current, chainState, ask, application>>

\* What an application that ran before may have kept: nothing, or a block the node
\* finalized and unfinalized ones the node accepted above it.
Kept ==
    {[resume |-> NoAnchor, discarded |-> {}]}
    \union UNION {
        LET accepted == {Block(replay.pushed[i].height, replay.pushed[i].item.fork) :
                            i \in {j \in Retained(replay) :
                                    /\ replay.pushed[j].item.kind = "accepted"
                                    /\ replay.pushed[j].height > height}}
        IN {[resume |-> Block(height, best[height]), discarded |-> blocks] :
                blocks \in SUBSET accepted} : height \in 1 .. finalized}

\* The application's first request: live, from a height, or from what it kept.  (A
\* refused one never gets a client.)
Open ==
    /\ link = "new"
    /\ \E kept \in Kept, from \in {NoHeight, 1}, kinds \in Filters :
        LET a == [from |-> from, resume |-> kept.resume, discarded |-> kept.discarded,
                  second |-> FALSE]
        IN
        /\ LetIn(a)
        /\ current' = [from |-> from, kinds |-> kinds]
        /\ checkpoint' = from
        /\ finality' = kept.resume
        /\ partial' = kept.discarded
        /\ app' = kept.discarded
        /\ feed' = Stream(a, kinds)
    /\ link' = "up"
    /\ UNCHANGED <<clock, node, reply, session, restarts, ended, losses, dedup, outage, output>>

\* A request the application sends later, with another filter, becomes the current
\* one, without a from_height; it is sent on to the server.
UpdateRequest ==
    /\ link = "up"
    /\ \E kinds \in Filters :
        /\ current' = [from |-> NoHeight, kinds |-> kinds]
        /\ current' # current
    /\ UNCHANGED <<server, link, ended, losses, feed, chainState, outage, application>>

\* The server takes it between two live updates (run_subscription).
ReplaceFilter ==
    /\ link = "up" /\ ~feed.marked /\ feed.captured = {}
    /\ feed.kinds # current.kinds
    /\ feed' = [feed EXCEPT !.kinds = current.kinds]
    /\ UNCHANGED <<server, link, ended, losses, current, chainState, outage, application>>

-----------------------------------------------------------------------------
(***************************************************************************)
(* handle_update                                                           *)
(***************************************************************************)
\* insert_partial of each block, with the finalized height given
WithPartial(blocks, more, height) == blocks \union {b \in more : b.height > height}

\* The blocks of the best chain that a reset disconnects, and those it connects.
Disconnected(b) == {Block(h, "main") : h \in b.item.from .. b.height}
Connected(b) == {Block(h, "side") : h \in b.item.from .. b.height}

IsReset(b) == b.item.kind = "best" /\ b.item.fork = "side"

\* Mutant: finalizing a block does not drop it.
FollowKeepingFinalized(blocks, b, height) ==
    IF b.item.kind = "finalized"
    THEN blocks
    ELSE IF IsReset(b)
    THEN WithPartial(blocks \ Disconnected(b), Connected(b), height)
    ELSE WithPartial(blocks, {Block(b.height, b.item.fork)}, height)

\* The unfinalized blocks a follower of the updates holds after one more.
Follow(blocks, b, height) ==
    IF b.item.kind = "finalized"
    THEN {x \in blocks : x.height > b.height}
    ELSE IF IsReset(b)
    THEN WithPartial(blocks \ Disconnected(b), Connected(b), height)
    ELSE WithPartial(blocks, {Block(b.height, b.item.fork)}, height)

\* Mutant: every block is taken for a finalized one.
ObserveAnyBlock(b) ==
    /\ finality' = Block(b.height, b.item.fork)
    /\ partial' = Follow(partial, b, finality.height)

\* ChainResumeState::observe
Observe(b) ==
    /\ finality' = IF b.item.kind = "finalized" THEN Block(b.height, b.item.fork) ELSE finality
    /\ partial' = Follow(partial, b, finality.height)

Key(i) == <<session, i>>

Seen == UNION {dedup[k].keys : k \in DOMAIN dedup}

\* Mutant: the retention is one height short.
RecordedTooShort(i, height) ==
    LET known == \E k \in DOMAIN dedup : dedup[k].height = height
        added == IF known
                 THEN [k \in DOMAIN dedup |->
                        IF dedup[k].height = height
                        THEN [dedup[k] EXCEPT !.keys = @ \union {Key(i)}] ELSE dedup[k]]
                 ELSE Append(dedup, [height |-> height, keys |-> {Key(i)}])
    IN IF Len(added) >= HeightRetention THEN Tail(added) ELSE added

\* DedupState::observe: a key not seen is recorded in the bucket of its height, a new
\* one if need be, and the oldest buckets beyond the retention are forgotten.
Recorded(i, height) ==
    LET known == \E k \in DOMAIN dedup : dedup[k].height = height
        added == IF known
                 THEN [k \in DOMAIN dedup |->
                        IF dedup[k].height = height
                        THEN [dedup[k] EXCEPT !.keys = @ \union {Key(i)}] ELSE dedup[k]]
                 ELSE Append(dedup, [height |-> height, keys |-> {Key(i)}])
    IN IF Len(added) > HeightRetention THEN Tail(added) ELSE added

Fresh(i) == SkipMissedData \/ HeightRetention = 0 \/ Key(i) \notin Seen

\* What the application makes of an update it gets.
Deliver(i, b) ==
    /\ output' = Append(output, Key(i))
    /\ app' = Follow(app, b, 0)

HandleUpdate(i) ==
    LET b == replay.pushed[i] IN
    IF b.item.kind \notin feed.kinds     \* the server's filter
    THEN UNCHANGED <<chainState, application>>
    ELSE /\ Observe(b)
         /\ checkpoint' = b.height
         /\ IF Fresh(i)
            THEN /\ Deliver(i, b)
                 /\ dedup' = IF SkipMissedData \/ HeightRetention = 0 THEN dedup
                             ELSE Recorded(i, b.height)
            ELSE UNCHANGED <<dedup, application>>

\* ReconnectUpdate, the first message of a resumed stream.
ReceiveReconnect ==
    /\ link = "up" /\ feed.marked
    /\ partial' = partial \ feed.discarded
    /\ app' = app \ feed.discarded
    /\ feed' = [feed EXCEPT !.marked = FALSE]
    /\ UNCHANGED <<server, link, ended, losses, current, checkpoint, finality, dedup, outage,
                   output>>

ReceiveReplay ==
    /\ link = "up" /\ ~feed.marked
    /\ \E i \in feed.captured :
        /\ \A j \in feed.captured : i <= j
        /\ HandleUpdate(i)
        /\ feed' = [feed EXCEPT !.captured = @ \ {i}]
    /\ UNCHANGED <<server, link, ended, losses, current, outage>>

ReceiveLive ==
    /\ link = "up" /\ ~feed.marked
    /\ feed.captured = {} /\ feed.position < Len(replay.pushed)
    /\ HandleUpdate(feed.position + 1)
    /\ feed' = [feed EXCEPT !.position = @ + 1]
    /\ UNCHANGED <<server, link, ended, losses, current, outage>>

ClientNext ==
    \/ NodeEvent \/ Restart
    \/ Open \/ UpdateRequest \/ ReplaceFilter \/ Disconnect \/ Connect \/ ConnectFails
    \/ ReceiveReconnect \/ ReceiveReplay \/ ReceiveLive

ClientSpec == ClientInit /\ [][ClientNext]_cvars

-----------------------------------------------------------------------------
(***************************************************************************)
(* Properties                                                              *)
(***************************************************************************)
ClientTypeOK ==
    /\ TypeOK
    /\ link \in {"new", "up", "down", "ended"}
    /\ ended \in {"no", "unavailable", "out_of_range", "failed_precondition", "invalid_argument"}
    /\ link = "ended" <=> ended # "no"
    /\ checkpoint \in {NoHeight} \union 1 .. MaxHeight
    /\ finality \in [height : 1 .. MaxHeight, fork : Forks] \union {NoAnchor}
    /\ partial \subseteq [height : 1 .. MaxHeight, fork : Forks]
    /\ Len(dedup) <= HeightRetention
    /\ attempt \in 0 .. (MaxRetries + 1)

\* The client has everything the server has published.
Drained ==
    link = "up" /\ ~feed.marked /\ feed.captured = {} /\ feed.position = Len(replay.pushed)

\* The application never gets the same update twice: the deduplication still knows
\* every update a replay can repeat.  It forgets a height once HeightRetention others
\* were first seen after it; a client that joined live sees two new heights per block
\* at first (the accepted and the finalized one), so for one outage the retention must
\* exceed 2 * FinalityDepth + 1, whatever the size of the window.  Each further outage
\* that finds no finalized block can ask from a buffer lower.  A filter that stops
\* letting finalized blocks through leaves a first one to resume from for ever.
NoDuplicates == \A i, j \in DOMAIN output : i # j => output[i] # output[j]

\* The kinds every filter lets through: no replacement of it interrupts them.
AlwaysAsked == {kind \in {"accepted", "best", "finalized"} : \A kinds \in Filters : kind \in kinds}

\* Position i of the window's history was given to the application.
Given(i) == \E k \in DOMAIN output : output[k] = Key(i)

\* Position i is the first the application was given in the session.
FirstGiven(i) ==
    \E k \in DOMAIN output :
        output[k] = Key(i) /\ \A j \in 1 .. (k - 1) : output[j][1] # session

\* Once the application has been given a finalized block, it is given everything that
\* the node publishes from then on in the session, however often the connection
\* breaks: a drained client has all of it.
NothingMissedAfterFinality ==
    Drained =>
        \A a \in 1 .. Len(replay.pushed) :
            replay.pushed[a].item.kind = "finalized" /\ Given(a) =>
                \A i \in a .. Len(replay.pushed) :
                    replay.pushed[i].item.kind \in AlwaysAsked => Given(i)

\* Below every finalized block the client was given in the session, and below the one
\* it would resume from: nothing a client can still follow.
BelowFinality(i) ==
    /\ replay.pushed[i].height < finality.height
    /\ \A j \in 1 .. Len(replay.pushed) :
        replay.pushed[j].item.kind = "finalized" /\ Given(j) =>
            replay.pushed[i].height < replay.pushed[j].height

\* Without a finalized block to resume from, because the filter leaves them out or none
\* came yet, the last height less checkpoint_height_buffer has to do: of what the server
\* still has, no unfinalized block is missed after the first update given, although a
\* branch that competes with blocks below the last height may be accepted and win during
\* the outage.  It takes a buffer of FinalityDepth - 1 heights.  (What the server evicted
\* in between may be gone without a word, see EvictedHeightRefused of ReplayService.)
UnfinalizedNotMissed ==
    Drained =>
        \A a \in 1 .. Len(replay.pushed) : FirstGiven(a) =>
            \A i \in Retained(replay) :
                /\ i >= a
                /\ replay.pushed[i].item.kind \in AlwaysAsked \ {"finalized"}
                => Given(i) \/ BelowFinality(i)

\* The finalized block the client would resume from never moves back, whatever a
\* replay repeats (it is given up only with the whole resume state).
FinalityAdvances ==
    [][finality'.height >= finality.height \/ finality' = NoAnchor]_cvars

\* What the client asks for is never refused as invalid (replay_height), which would end
\* the subscription: whatever a replay repeats, and whatever the application kept, the
\* blocks it gives up are above the finalized one it resumes from.
RequestsNeverInvalid == ended # "invalid_argument"

\* What README.md says: the server "emits ReconnectUpdate.discarded_blocks before
\* replacement data, so applications can roll back non-finalized state explicitly".
\* The replayed updates of a discarded block are in the deduplication, and an
\* application that has rolled it back never gets it again.
ReplacementDelivered ==
    Drained =>
        \A i \in Retained(replay) :
            LET b == replay.pushed[i] IN
            /\ b.item.kind = "accepted"
            /\ b.height > finalized /\ b.height \in DOMAIN best
            /\ best[b.height] = b.item.fork
            /\ Given(i)
            => Block(b.height, b.item.fork) \in app

\* What reconnect.rs says of SkipToLive: "Explicitly discard the unavailable gap and
\* resume at the live head".  The second request still has the checkpoint the server
\* just said it does not retain.
SkipToLiveGoesOn == ended # "out_of_range"
=============================================================================
