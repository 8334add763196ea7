---------------------------- MODULE GeyserServer ----------------------------
(***************************************************************************)
(* The hand-off between the plugin's publisher and its subscribers         *)
(* (zakura-grpc-geyser/src/server.rs): publish_batch on the node's event   *)
(* thread, SharedState::subscribe and run_subscription on the server's     *)
(* runtime, the broadcast ring, the replay window and the mempool between  *)
(* them, the bounded response channel of each stream and its reader.       *)
(*                                                                         *)
(* `log` is every update numbered so far: log[n].seq = n.  The ring has    *)
(* taken the first `sent` of them and keeps the last BroadcastCapacity; a  *)
(* receiver is the number of the last update it took.  A response channel  *)
(* is likewise a window on the history of what was put in it: stream[s],   *)
(* of which the client has read the first read[s].                         *)
(***************************************************************************)
EXTENDS ReplayBuffer

CONSTANTS
    Subscribers,         \* streams
    Requests,            \* initial requests
    Filters,             \* filters a stream may be switched to
    Heights,             \* heights of the blocks
    TxIds,               \* mempool transactions
    BroadcastCapacity,   \* Config.broadcast_capacity
    ClientCapacity,      \* Config.client_channel_capacity
    MaxEvents,           \* bound: source events
    MaxChanges,          \* bound: filter replacements on a stream
    MaxPings             \* bound: pings and pongs on a stream

ASSUME ServerAssumption ==
    /\ Heights \subseteq Nat \ {0}
    /\ BroadcastCapacity \in Nat \ {0}
    /\ ClientCapacity \in Nat \ {0}
    /\ Requests \subseteq [fromHeight : Nat, resume : BOOLEAN, snapshot : BOOLEAN,
                           filter : SUBSET {"block", "mempool"}]
    /\ Filters \subseteq SUBSET {"block", "mempool"}
    /\ MaxEvents \in Nat /\ MaxChanges \in Nat /\ MaxPings \in Nat

VARIABLES
    log,          \* every update numbered so far
    sent,         \* how many of them live.send has put into the ring
    stage,        \* publish_batch: "idle", "replay" (push_batch next) or "send"
    replay,       \* the record behind the replay mutex
    mempool,      \* what the mempool mutex guards: revision and entries
    task,         \* per stream: where subscribe / run_subscription stands
    request,      \* per stream: the initial request
    cursor,       \* per stream: the last update its broadcast receiver took
    watermark,    \* per stream: replay_watermark
    revision,     \* per stream: mempool_watermark, 0 for None
    start,        \* per stream: what it follows live is numbered above this
    initial,      \* per stream: initial updates still to send before the replay
    captured,     \* per stream: replay snapshot still to send, by bucket position
    offset,       \* per stream: updates of the first of those buckets already sent
    filter,       \* per stream: the compiled filter
    held,         \* per stream: the message outbound.reserve() is waited for
    stream,       \* per stream: everything put into the response channel
    read,         \* per stream: how much of it the client has read
    changes,      \* per stream: filter replacements so far
    pings         \* per stream: pings and pongs so far

publisher == <<log, sent, stage, replay, mempool>>
receiver == <<cursor, watermark, revision>>
opening == <<start, initial, captured, offset>>
channel == <<stream, read>>
control == <<changes, pings>>
vars == <<publisher, task, request, receiver, opening, filter, held, channel, control>>

NoHeight == 0    \* Option::None of from_height; heights of blocks are above 0

(***************************************************************************)
(* A message.  Published updates are "block" or "mempool" scoped; the      *)
(* other scopes exist on one stream only and have no number.  Block-scoped *)
(* updates have a height, mempool-scoped ones a revision and the change    *)
(* they make.  `event` is the source event.                                *)
(***************************************************************************)
Message(scope, seq, height, rev, action, ids, event) ==
    [scope |-> scope, seq |-> seq, height |-> height, rev |-> rev,
     action |-> action, ids |-> ids, event |-> event]

Marker(scope, rev) == Message(scope, 0, 0, rev, "none", {}, 0)

SnapshotUpdates(entries, rev) ==
    IF entries = {} THEN <<>>
    ELSE <<Message("snapshot", 0, 0, rev, "added", entries, 0)>>

Nothing == Marker("nothing", 0)

EventTypeOf(m) == IF m.scope = "block" THEN "block" ELSE "mempool"

Matches(f, m) == EventTypeOf(m) \in f

Init ==
    /\ log = <<>>
    /\ sent = 0
    /\ stage = "idle"
    /\ replay = EmptyReplay
    /\ mempool = [revision |-> 0, entries |-> {}]
    /\ task = [s \in Subscribers |-> "none"]
    /\ request \in [Subscribers -> Requests]
    /\ cursor = [s \in Subscribers |-> 0]
    /\ watermark = [s \in Subscribers |-> 0]
    /\ revision = [s \in Subscribers |-> 0]
    /\ start = [s \in Subscribers |-> 0]
    /\ initial = [s \in Subscribers |-> <<>>]
    /\ captured = [s \in Subscribers |-> {}]
    /\ offset = [s \in Subscribers |-> 0]
    /\ filter = [s \in Subscribers |-> request[s].filter]
    /\ held = [s \in Subscribers |-> Nothing]
    /\ stream = [s \in Subscribers |-> <<>>]
    /\ read = [s \in Subscribers |-> 0]
    /\ changes = [s \in Subscribers |-> 0]
    /\ pings = [s \in Subscribers |-> 0]

-----------------------------------------------------------------------------
(***************************************************************************)
(* The publisher: on_event, one event at a time.                           *)
(***************************************************************************)
LastEvent == IF log = <<>> THEN 0 ELSE log[Len(log)].event

\* The updates an event is encoded into: a block and its transaction; an added
\* transaction's summary and the transaction itself; the summary of a removal.
BlockUpdates(n, e, height) ==
    LET m(k) == Message("block", n + k, height, 0, "none", {}, e) IN <<m(1), m(2)>>

MempoolUpdates(n, e, rev, action, id) ==
    LET m(k) == Message("mempool", n + k, 0, rev, action, {id}, e)
    IN IF action = "added" THEN <<m(1), m(2)>> ELSE <<m(1)>>

\* publish_batch of a block event: nothing to lock before the replay push.
PublishBlock ==
    /\ stage = "idle" /\ LastEvent < MaxEvents
    /\ \E height \in Heights : log' = log \o BlockUpdates(Len(log), LastEvent + 1, height)
    /\ stage' = "replay"
    /\ UNCHANGED <<sent, replay, mempool>>

\* Mutant of PublishMempool: the updates are stamped before the revision is advanced.
PublishMempoolStampedEarly ==
    /\ stage = "idle" /\ LastEvent < MaxEvents
    /\ \E action \in {"added", "removed"}, id \in TxIds :
        /\ action = "removed" <=> id \in mempool.entries
        /\ log' = log \o MempoolUpdates(Len(log), LastEvent + 1, mempool.revision, action, id)
        /\ mempool' = [revision |-> mempool.revision + 1,
                       entries |-> IF action = "added" THEN mempool.entries \union {id}
                                   ELSE mempool.entries \ {id}]
    /\ stage' = "replay"
    /\ UNCHANGED <<sent, replay>>

\* publish_batch of a mempool event: take the mempool lock (held until the last
\* send), advance the revision, stamp it on the updates and apply them.
PublishMempool ==
    /\ stage = "idle" /\ LastEvent < MaxEvents
    /\ \E action \in {"added", "removed"}, id \in TxIds :
        /\ action = "removed" <=> id \in mempool.entries
        /\ log' = log \o MempoolUpdates(Len(log), LastEvent + 1,
                                        mempool.revision + 1, action, id)
        /\ mempool' = [revision |-> mempool.revision + 1,
                       entries |-> IF action = "added" THEN mempool.entries \union {id}
                                   ELSE mempool.entries \ {id}]
    /\ stage' = "replay"
    /\ UNCHANGED <<sent, replay>>

\* self.replay.lock().push_batch(&updates)
PushReplay ==
    /\ stage = "replay"
    /\ LET m == log[sent + 1] IN
       IF m.scope = "block"
       THEN PushesTo(replay, Batch(m.height, "finalized", sent + 1, Len(log), 1), 0, replay')
       ELSE HeightlessPushesTo(replay, 0, replay')
    /\ stage' = "send"
    /\ UNCHANGED <<log, sent, mempool>>

\* Mutant of SendLive: a send that waits for the slowest receiver.
SendLiveWithBackpressure ==
    /\ stage = "send"
    /\ \A s \in Subscribers :
        task[s] \in {"none", "refused", "closed"} \/ sent - cursor[s] < BroadcastCapacity
    /\ sent' = sent + 1
    /\ stage' = IF sent + 1 = Len(log) THEN "idle" ELSE "send"
    /\ UNCHANGED <<log, replay, mempool>>

\* self.live.send(update); after the last one the mempool lock is dropped.
SendLive ==
    /\ stage = "send"
    /\ sent' = sent + 1
    /\ stage' = IF sent + 1 = Len(log) THEN "idle" ELSE "send"
    /\ UNCHANGED <<log, replay, mempool>>

MempoolLocked == stage # "idle" /\ log[sent + 1].scope = "mempool"

Publisher ==
    /\ PublishBlock \/ PublishMempool \/ PushReplay \/ SendLive
    /\ UNCHANGED <<task, request, receiver, opening, filter, held, channel, control>>

-----------------------------------------------------------------------------
(***************************************************************************)
(* SharedState::subscribe                                                  *)
(***************************************************************************)
\* let receiver = self.live.subscribe()
SubscribeLive(s) ==
    /\ task[s] = "none"
    /\ cursor' = [cursor EXCEPT ![s] = sent]
    /\ task' = [task EXCEPT ![s] = "subscribed"]
    /\ UNCHANGED <<publisher, request, watermark, revision, opening, filter, held,
                   channel, control>>

Larger(a, b) == IF a >= b THEN a ELSE b

\* verify_checkpoint and snapshot under one replay lock.
SnapshotReplay(s) ==
    LET from == request[s].fromHeight
        verified == IF request[s].resume THEN VerifyCheckpoint(replay, from, "finalized")
                    ELSE "ok"
    IN
    /\ task[s] = "subscribed"
    /\ IF verified # "ok"
       THEN task' = [task EXCEPT ![s] = "refused"] /\ UNCHANGED <<replay, watermark, start, captured>>
       ELSE /\ EvictsTo(replay, 0, replay')
            /\ IF from # NoHeight /\ ~HeightAvailable(replay', from)
               THEN /\ task' = [task EXCEPT ![s] = "refused"]
                    /\ UNCHANGED <<watermark, start, captured>>
               ELSE /\ task' = [task EXCEPT ![s] = "replayed"]
                    /\ watermark' = [watermark EXCEPT ![s] = Watermark(replay')]
                    /\ start' = [start EXCEPT ![s] = Larger(cursor[s], Watermark(replay'))]
                    /\ captured' = [captured EXCEPT ![s] =
                                     IF from = NoHeight THEN {} ELSE ReplayFrom(replay', from)]
    /\ UNCHANGED <<log, sent, stage, mempool, request, cursor, revision, initial, offset,
                   filter, held, channel, control>>

\* The mempool snapshot, if one is asked for, under the mempool lock; then the
\* updates that go before the replay: ReconnectUpdate, BEGIN, the mempool, END.
SnapshotMempool(s) ==
    LET snapshot == request[s].snapshot
        rev == mempool.revision
    IN
    /\ task[s] = "replayed"
    /\ snapshot => ~MempoolLocked
    /\ revision' = [revision EXCEPT ![s] = IF snapshot THEN rev ELSE 0]
    /\ initial' = [initial EXCEPT ![s] =
        (IF request[s].resume THEN <<Marker("reconnect", 0)>> ELSE <<>>)
        \o (IF snapshot
            THEN <<Marker("begin", rev)>> \o SnapshotUpdates(mempool.entries, rev)
                 \o <<Marker("end", rev)>>
            ELSE <<>>)]
    /\ task' = [task EXCEPT ![s] = "initial"]
    /\ UNCHANGED <<publisher, request, cursor, watermark, start, captured, offset,
                   filter, held, channel, control>>

-----------------------------------------------------------------------------
(***************************************************************************)
(* run_subscription                                                        *)
(***************************************************************************)
\* Mutants of HasRoom: one message too many; one too few.
HasRoomForOneMore(s) == Len(stream[s]) - read[s] <= ClientCapacity

HasRoomButOne(s) == Len(stream[s]) - read[s] + 1 < ClientCapacity

\* The response channel takes another message.
HasRoom(s) == Len(stream[s]) - read[s] < ClientCapacity

Put(s, m) == stream' = [stream EXCEPT ![s] = Append(@, m)]

Published(m) == m.scope \in {"block", "mempool"}

\* send_initial_updates: markers go out as they are, the rest through send_filtered.
Offer(s, m) ==
    IF m.scope \in {"reconnect", "begin", "end"} \/ Matches(filter[s], m)
    THEN HasRoom(s) /\ Put(s, m)
    ELSE UNCHANGED stream

SendInitial(s) ==
    /\ task[s] = "initial"
    /\ initial[s] # <<>>
    /\ Offer(s, Head(initial[s]))
    /\ initial' = [initial EXCEPT ![s] = Tail(@)]
    /\ UNCHANGED <<publisher, task, request, receiver, start, captured, offset, filter, held,
                   read, control>>

SendReplay(s) ==
    /\ task[s] = "initial"
    /\ initial[s] = <<>>
    /\ \E i \in captured[s] :
        LET n == replay.pushed[i].first + offset[s]
            last == n = replay.pushed[i].last
        IN
        /\ \A j \in captured[s] : i <= j
        /\ Offer(s, log[n])
        /\ captured' = [captured EXCEPT ![s] = IF last THEN @ \ {i} ELSE @]
        /\ offset' = [offset EXCEPT ![s] = IF last THEN 0 ELSE @ + 1]
    /\ UNCHANGED <<publisher, task, request, receiver, start, initial, filter, held,
                   read, control>>

GoLive(s) ==
    /\ task[s] = "initial"
    /\ initial[s] = <<>> /\ captured[s] = {}
    /\ task' = [task EXCEPT ![s] = "live"]
    /\ UNCHANGED <<publisher, request, receiver, opening, filter, held, channel, control>>

Lagging(s) == sent - cursor[s] > BroadcastCapacity

\* Mutant of ReceiveLive: what the replay already sent is not skipped.
ReceiveLiveTwice(s) ==
    /\ task[s] = "live"
    /\ cursor[s] < sent /\ ~Lagging(s)
    /\ LET m == log[cursor[s] + 1] IN
       /\ cursor' = [cursor EXCEPT ![s] = @ + 1]
       /\ watermark' = [watermark EXCEPT ![s] = m.seq]
       /\ IF Matches(filter[s], m)
          THEN /\ held' = [held EXCEPT ![s] = m]
               /\ task' = [task EXCEPT ![s] = "reserve"]
          ELSE UNCHANGED <<held, task>>
    /\ UNCHANGED <<publisher, request, revision, opening, filter, channel, control>>

\* live.recv() of an update: skip what the replay or the mempool snapshot held,
\* else wait for room (send_filtered).
ReceiveLive(s) ==
    /\ task[s] = "live"
    /\ cursor[s] < sent /\ ~Lagging(s)
    /\ LET m == log[cursor[s] + 1] IN
       /\ cursor' = [cursor EXCEPT ![s] = @ + 1]
       /\ IF m.seq <= watermark[s]
          THEN UNCHANGED <<watermark, held, task>>
          ELSE /\ watermark' = [watermark EXCEPT ![s] = m.seq]
               /\ IF \/ request[s].snapshot /\ m.scope = "mempool" /\ m.rev <= revision[s]
                     \/ ~Matches(filter[s], m)
                  THEN UNCHANGED <<held, task>>
                  ELSE /\ held' = [held EXCEPT ![s] = m]
                       /\ task' = [task EXCEPT ![s] = "reserve"]
    /\ UNCHANGED <<publisher, request, revision, opening, filter, channel, control>>

\* The message waited with has its room; a status ends the stream.
SendHeld(s) ==
    /\ task[s] = "reserve"
    /\ HasRoom(s)
    /\ Put(s, held[s])
    /\ held' = [held EXCEPT ![s] = Nothing]
    /\ task' = [task EXCEPT ![s] = IF held[s].scope = "invalid_filter" THEN "closed" ELSE "live"]
    /\ UNCHANGED <<publisher, request, receiver, opening, filter, read, control>>

\* Mutant of Lagged: go on with the oldest update the ring still has.
LaggedGoesOn(s) ==
    /\ task[s] = "live"
    /\ Lagging(s)
    /\ cursor' = [cursor EXCEPT ![s] = sent - BroadcastCapacity]
    /\ UNCHANGED <<publisher, task, request, watermark, revision, opening, filter, held,
                   channel, control>>

\* RecvError::Lagged: RESOURCE_EXHAUSTED if the channel has room, and the end.
Lagged(s) ==
    /\ task[s] = "live"
    /\ Lagging(s)
    /\ IF HasRoom(s) THEN Put(s, Marker("lagged", 0)) ELSE UNCHANGED stream
    /\ task' = [task EXCEPT ![s] = "closed"]
    /\ UNCHANGED <<publisher, request, receiver, opening, filter, held, read, control>>

\* Mutant of ReplaceFilter: also while a message the old filter let through is waited with.
ReplaceFilterWhileWaiting(s) ==
    /\ task[s] \in {"live", "reserve"} /\ changes[s] < MaxChanges
    /\ \E f \in Filters : filter' = [filter EXCEPT ![s] = f]
    /\ changes' = [changes EXCEPT ![s] = @ + 1]
    /\ UNCHANGED <<publisher, task, request, receiver, opening, held, channel, pings>>

\* A filter replacement on the request stream.
ReplaceFilter(s) ==
    /\ task[s] = "live" /\ changes[s] < MaxChanges
    /\ \E f \in Filters : filter' = [filter EXCEPT ![s] = f]
    /\ changes' = [changes EXCEPT ![s] = @ + 1]
    /\ UNCHANGED <<publisher, task, request, receiver, opening, held, channel, pings>>

\* A ping of the client: outbound.send(pong).await.
AnswerPing(s) ==
    /\ task[s] = "live" /\ pings[s] < MaxPings
    /\ held' = [held EXCEPT ![s] = Marker("pong", 0)]
    /\ task' = [task EXCEPT ![s] = "reserve"]
    /\ pings' = [pings EXCEPT ![s] = @ + 1]
    /\ UNCHANGED <<publisher, request, receiver, opening, filter, channel, changes>>

\* The ping timer: try_send, skipped when the channel is full.
SendPing(s) ==
    /\ task[s] = "live" /\ pings[s] < MaxPings
    /\ IF HasRoom(s) THEN Put(s, Marker("ping", 0)) ELSE UNCHANGED stream
    /\ pings' = [pings EXCEPT ![s] = @ + 1]
    /\ UNCHANGED <<publisher, task, request, receiver, opening, filter, held, read, changes>>

\* An invalid filter: outbound.send(Err(status)).await, and the end.
RejectFilter(s) ==
    /\ task[s] = "live" /\ changes[s] < MaxChanges
    /\ held' = [held EXCEPT ![s] = Marker("invalid_filter", 0)]
    /\ task' = [task EXCEPT ![s] = "reserve"]
    /\ changes' = [changes EXCEPT ![s] = @ + 1]
    /\ UNCHANGED <<publisher, request, receiver, opening, filter, channel, pings>>

\* The client cancels: request_error on the request stream, or response_closed
\* where the task waits for room.
Cancelled(s) ==
    /\ task[s] \in {"initial", "live", "reserve"}
    /\ task' = [task EXCEPT ![s] = "closed"]
    /\ UNCHANGED <<publisher, request, receiver, opening, filter, held, channel, control>>

ClientRead(s) ==
    /\ read[s] < Len(stream[s])
    /\ read' = [read EXCEPT ![s] = @ + 1]
    /\ UNCHANGED <<publisher, task, request, receiver, opening, filter, held, stream, control>>

ServerTask(s) ==
    \/ SubscribeLive(s) \/ SnapshotReplay(s) \/ SnapshotMempool(s)
    \/ SendInitial(s) \/ SendReplay(s) \/ GoLive(s) \/ ReceiveLive(s) \/ SendHeld(s) \/ Lagged(s)

Control(s) == ReplaceFilter(s) \/ AnswerPing(s) \/ SendPing(s) \/ RejectFilter(s) \/ Cancelled(s)

Next ==
    \/ Publisher
    \/ \E s \in Subscribers : ServerTask(s) \/ Control(s) \/ ClientRead(s)

Spec == Init /\ [][Next]_vars

\* The node's event thread finishes the batch it began; nothing else need ever run.
PublisherSpec == Spec /\ WF_vars(Publisher /\ stage # "idle")

\* The runtime also polls every stream's task that can go on.
ServerSpec == PublisherSpec /\ \A s \in Subscribers : WF_vars(ServerTask(s))

\* And every client keeps reading its stream.
AttentiveSpec == ServerSpec /\ \A s \in Subscribers : WF_vars(ClientRead(s))

-----------------------------------------------------------------------------
(***************************************************************************)
(* Properties                                                              *)
(***************************************************************************)
TypeOK ==
    /\ sent \in 0 .. Len(log)
    /\ stage \in {"idle", "replay", "send"}
    /\ stage = "idle" <=> sent = Len(log)
    /\ mempool.revision \in Nat /\ mempool.entries \subseteq TxIds
    /\ task \in [Subscribers -> {"none", "subscribed", "replayed", "refused", "initial",
                                 "live", "reserve", "closed"}]
    /\ cursor \in [Subscribers -> 0 .. sent]
    /\ watermark \in [Subscribers -> 0 .. Len(log)]
    /\ \A s \in Subscribers : read[s] \in 0 .. Len(stream[s])
    /\ \A s \in Subscribers : Len(stream[s]) - read[s] <= ClientCapacity

\* The published updates put into a stream's channel; those it has been given, its held
\* one included.
Delivered(s) ==
    {stream[s][i].seq : i \in {j \in DOMAIN stream[s] : Published(stream[s][j])}}

Given(s) == Delivered(s) \union (IF Published(held[s]) THEN {held[s].seq} ELSE {})

Settled(s) == task[s] \in {"live", "reserve"} /\ changes[s] = 0

\* How far the stream has followed the log.
Reached(s) == Larger(cursor[s], watermark[s])

\* A stream's published updates come in the order of their numbers, none twice,
\* across the seam between the replay and the live ring: the replay and the ring
\* overlap by whatever was published between live.subscribe and the snapshot.
DeliveredInOrder ==
    \A s \in Subscribers :
        /\ \A i, j \in DOMAIN stream[s] :
            i < j /\ Published(stream[s][i]) /\ Published(stream[s][j])
                => stream[s][i].seq < stream[s][j].seq
        /\ Published(held[s]) =>
            \A i \in DOMAIN stream[s] :
                Published(stream[s][i]) => stream[s][i].seq < held[s].seq

\* Nothing is missing from a stream that has not been ended.  Of what it follows
\* live, it has been given all its filter lets through, as far as it has followed
\* the log; deltas the mempool snapshot already has are left out.
\* Of what was numbered before, a replay has no holes after its first update.
NothingLost ==
    \A s \in Subscribers : Settled(s) =>
        \A n \in 1 .. Reached(s) :
            LET m == log[n] IN
            /\ Matches(filter[s], m)
            /\ IF n > start[s]
               THEN request[s].snapshot /\ m.scope = "mempool" => m.rev > revision[s]
               ELSE /\ request[s].fromHeight # NoHeight
                    /\ m.scope = "block" /\ m.height >= request[s].fromHeight
                    /\ \E g \in Given(s) : g < n
            => n \in Given(s)

\* A stream gets all the updates of one block event or none of them, although the
\* publisher puts them into the ring one by one and subscribers come in between.
\* It takes the replay window, to which push_batch gives the whole event before the
\* first send: with the window off, or when one event is more than replay_max_events or
\* replay_max_bytes allow, its bucket is evicted by its own push and a stream that
\* subscribes between two sends gets the rest of the event (HoldsABlock in the proofs).
BlockEventsWhole ==
    \A s \in Subscribers : Settled(s) =>
        \A n \in 1 .. (Reached(s) - 1) :
            log[n].scope = "block" /\ log[n].event = log[n + 1].event =>
                (n \in Given(s) <=> n + 1 \in Given(s))

\* What is left after applying messages in order: the transactions whose last
\* mention added them.
Surviving(messages) ==
    {id \in TxIds : \E i \in DOMAIN messages :
        /\ id \in messages[i].ids /\ messages[i].action = "added"
        /\ \A j \in DOMAIN messages : j > i => id \notin messages[j].ids}

\* A client that asked for the mempool snapshot and applies it and the deltas that
\* follow has the node's mempool as of the point it has reached: no delta is missing
\* between the snapshot and the live ring, and none is applied twice or late.
MempoolMirrored ==
    \A s \in Subscribers :
        /\ Settled(s) /\ task[s] = "live"
        /\ request[s].snapshot /\ "mempool" \in filter[s]
        => \E n \in Reached(s) .. Len(log) :
            /\ \A k \in (Reached(s) + 1) .. n :
                log[k].scope = "mempool" => log[k].rev <= revision[s]
            /\ Surviving(stream[s]) = Surviving(SubSeq(log, 1, n))

\* Publishing never waits for a subscriber: a batch that has begun can go on, wherever
\* the streams' tasks stand and however far their clients and the ring have drifted
\* apart (publish_batch, on the node's event thread; what is left of it is bounded).
PublisherNeverWaits == stage # "idle" => ENABLED Publisher

InBucket(n, i) == n \in replay.pushed[i].first .. replay.pushed[i].last

\* What is left of the replay.
Front(s, i) == i \in captured[s] /\ \A j \in captured[s] : i <= j

ToCome(s, n) ==
    \E i \in captured[s] : InBucket(n, i) /\ (Front(s, i) => n >= replay.pushed[i].first + offset[s])

Owed(s) == {n \in DOMAIN log : ToCome(s, n)}

\* A stream of Feed: it is open from the snapshot of the window on, has followed what the
\* receiver took but for the message that is waited with, and was given what was put into
\* the response channel.
Phase(s) ==
    IF task[s] \in {"none", "subscribed", "refused"} THEN "none"
    ELSE IF task[s] = "closed" THEN "ended"
    ELSE IF task[s] = "replayed" /\ request[s].snapshot THEN "opening"
    ELSE "open"

Position(s) ==
    IF Phase(s) = "none" THEN 0
    ELSE IF Published(held[s]) THEN held[s].seq - 1
    ELSE Reached(s)

Covered(s) ==
    {n \in DOMAIN log :
        request[s].snapshot /\ log[n].scope = "mempool" /\ log[n].rev <= revision[s]}

\* The number up to which block updates have been given to the window, and the one from
\* which on it still has them.
Numbered == IF stage = "replay" THEN sent ELSE Len(log)

OldestKept == IF Retained(replay) = {} THEN Numbered + 1 ELSE Oldest(replay).first

Updates == [n \in DOMAIN log |-> [kind |-> EventTypeOf(log[n]), height |-> log[n].height]]

Streams == INSTANCE Feed WITH
    Kinds <- {"block", "mempool"},
    Snapshotted <- {"mempool"},
    published <- Updates,
    oldest <- OldestKept,
    phase <- [s \in Subscribers |-> Phase(s)],
    owed <- [s \in Subscribers |-> Owed(s)],
    position <- [s \in Subscribers |-> Position(s)],
    covered <- [s \in Subscribers |-> Covered(s)],
    given <- [s \in Subscribers |-> Delivered(s)]

\* Every stream is one of Feed's: with all its ring, watermark, window, channel and waiting,
\* the server gives a subscriber that names a height all the window has at that height and
\* above, its first update like its last, and then, named or not, what follows, an update
\* at a time, under the filter of that moment, whatever filters it had before; and it puts
\* nothing more into a stream once it has passed anything over.
FeedImplemented == Streams!Spec

\* A client that keeps reading is served: its stream ends, or it has everything
\* sent so far again and again.
AttentiveClientServed ==
    \A s \in Subscribers :
        []<>(\/ task[s] \in {"refused", "closed"}
             \/ task[s] = "live" /\ cursor[s] = sent /\ read[s] = Len(stream[s]))

\* What README.md says: "Lagging clients are disconnected and can reconnect using
\* from_height".  A task that waits in outbound.reserve() does not look at the ring.
LaggingClientDisconnected ==
    \A s \in Subscribers :
        task[s] \in {"initial", "live", "reserve"} /\ Lagging(s) ~> task[s] = "closed"
=============================================================================
