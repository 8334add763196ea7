# A TLA+ development of zakura-grpc

`zakura-grpc-geyser` is a plugin of a Zakura node: it encodes the node's events
into protobuf updates, numbers them, keeps the last of them in a bounded replay
window, and streams them to gRPC subscribers, each with its filter.
`zakura-grpc-client` subscribes to it and, when a connection breaks, resumes and
deduplicates. This directory models the parts of the two whose correctness depends
on order, concurrency, bounded space or failure, model-checks them with TLC, and
proves with TLAPS what holds for every configuration.

Paths are relative to the repository; `server.rs`, `lib.rs`, `auth.rs`, `event.rs`,
`filter.rs` are under `src/zakura-grpc-geyser/src/`, `reconnect.rs` and `dedup.rs`
under `src/zakura-grpc-client/src/`. `PROJECT.json` maps every definition to the
lines it models, and lists runs, mutants, hazards, findings and theorems.

## 1. Inventory

| component | where | state | operations | modelled |
|---|---|---|---|---|
| replay window | `server.rs` `ReplayBuffer` | deque of buckets, `height_counts`, `event_count`, `encoded_bytes` | `push_batch`, `evict`, `snapshot`, `verify_checkpoint`, `replay_info` | fully |
| publishing and subscriptions | `server.rs` `SharedState`, `run_subscription`; `lib.rs` `on_event` | `next_sequence`, broadcast ring, mempool state, per stream: receiver, watermarks, filter, response channel | `publish_batch`, `subscribe`, `send_initial_updates`, the select loop | partly |
| reconnecting client | `reconnect.rs`, `dedup.rs`, client `lib.rs` | current request, last height, `ChainResumeState`, `DedupState`, retry counter | `subscribe_with_request`, `run_subscription`, `reconnect_subscription`, `handle_update` | partly |
| subscription limit | `auth.rs` `SubscriptionTracker` | count of streams per subscriber id | `acquire`, drop of the guard | fully |
| token authorisation | `auth.rs` | none | compare one header, before a slot is taken | fully |
| event filters | `filter.rs` | a compiled filter per stream | validate, compile, match | fully |
| event encoding | `event.rs` | the results so far, when a pool encodes | `encode_event`, parallel above a threshold | fully |
| plugin life cycle | `lib.rs` | pool, shutdown token, server task | `on_load`, `on_event`, `on_unload` | fully |
| payload projection cache | `server.rs` `PublishedUpdate` | a `OnceLock` per projection, shared by all streams | project | fully |
| configuration | `config.rs` | none | parse, validate | ranges, as assumptions |
| unary calls, health, reflection | `server.rs` | none | `Ping`, `GetVersion`, ... | `SubscribeReplayInfo` only |
| client builder, protocol, examples, packaging | | none | | no |

### How they interact

The node's event thread calls `on_event`, one event at a time. `on_event` encodes it,
numbers the updates and calls `publish_batch`, which locks the mempool (if the event
is about it), advances the revision, pushes the batch into the replay window under
the replay lock, sends the updates into the broadcast ring *one by one*, and unlocks
the mempool. `subscribe` runs on the server's runtime: it takes a receiver of the
ring, then a snapshot of the window under the replay lock, then a snapshot of the
mempool under the mempool lock, in that order. The stream's task sends what was
captured and then follows the ring, next to the client's requests and a ping timer.
The response channel is bounded; the ring forgets. The client reads the stream,
follows the chain in it, and when the stream breaks sends a request derived from
what it observed.

### What is hard about it

* The replay and the ring are two copies of the log, joined by one number taken
  between two locks; the mempool snapshot is a third, joined by another number.
* One event is several updates; the window takes them at once and the ring one by one.
* The window has four limits and incremental counters, and its heights are not in
  order: finalized blocks, some 100 below the tip, share it with accepted ones.
* A bounded channel per stream and a ring that never waits: somebody has to lose, and
  the loser must not go on with a hole in its stream.
* The client resumes from what it saw before an outage, against a node whose window
  moved, whose best chain was reset, or which restarted; two deduplications (the
  watermark in the server, the keys in the client) have to agree with the replay.
* The unnamed filter of a stream and its named ones are matched together, and an
  update is projected to the union of what they ask for, into cells that all streams
  share; the same transaction is encoded twice and addresses have two notations.
* Slots are given back by whichever end of a stream is noticed.
* `on_unload` tells a server to stop and does not wait for it: the server waits for the
  connections of clients that stay, the streams' own tasks are detached from both and do
  not see the ring close, and the next load may come while they go on.

What makes each component correct is stated under its module, below.

## 2. The modules

### `ReplayBuffer`: the window's operators

A pure module: the record behind the replay mutex and what the methods of
`ReplayBuffer` do to it. The deque is a window on the history of all buckets ever
pushed (`pushed`, `popped`), so positions never move and properties can speak of what
was evicted. The counters the code keeps beside the deque are fields of their own,
changed only as the code changes them. `evict`'s loop is the relation `EvictsTo`: the
*first* number of pops after which no limit is exceeded; if there is none the
relation is empty, as the loop would not end. Two running totals on each bucket,
without a counterpart in the code, let `k` pops subtract a difference instead of
recursing, which keeps the module within the provers' reach.

### `ReplayWindow`: the window on its own

Batches of any height, size and length in any order, the clock, and readers. One
action per caller: `PushBlockBatch`, `PushMempoolBatch` (which only evicts),
`ReadWindow` (the eviction `snapshot` and `replay_info` begin with), `Tick`.
Properties: `CountersExact`, `WithinLimits`, `EvictionEnds`, `WindowInOrder`.
`ReplayWindow_proofs` proves all of them.

### `ReplayService`: the window under a node's events

Adds the order of heights the node produces (external): `AcceptBlock`, `GrowBestChain`,
`FinalizeBlock`, and a branch that competes with the blocks above any unfinalized
height, accepted block by block (`BeginBranch`, `GrowBranch`) until the best chain is
reset to it (`ResetBestChain`); and the three requests that read the window.
`SubscribeResume` verifies the checkpoint *before* the eviction of `snapshot`, as the
code does. Properties: `ResumeComplete`, `NoFalseMismatch`, `NeverJoinsAnotherChain`,
and the documented `EvictedHeightRefused`. The type says as well that the last answer
replays nothing the window has evicted (`RepliesFromWindow`), which its mutant, a snapshot
that reads before it evicts, breaks. `WindowImplemented` is the refinement: seen
from the window, this module's steps are those of `ReplayWindow`, so what is proved
there of any batches in any order holds under a node's events.
`ReplayService_proofs` proves the safety properties and the refinement.

### `GeyserServer`: publisher and streams

The concurrency of the server. `publish_batch` is split where another thread can come
in: encoding and the mempool lock (`PublishBlock`, `PublishMempool`), the push
(`PushReplay`), each send (`SendLive`). `subscribe` is split the same way:
`SubscribeLive`, `SnapshotReplay`, `SnapshotMempool` (blocked by `MempoolLocked`). The
stream's task: `SendInitial`, `SendReplay`, `GoLive`, then the arms of the select loop
(`ReceiveLive`, `Lagged`, `ReplaceFilter`, `RejectFilter`, `AnswerPing`, `SendPing`,
`Cancelled`). An arm that awaits room in the response channel leaves the loop to
`task = "reserve"`, where only `SendHeld` or the end can follow: while it waits, a task
looks at nothing else. `send_initial_updates` awaits the same way in `HasRoom`.
Properties: `DeliveredInOrder`, `NothingLost`, `BlockEventsWhole`, `MempoolMirrored`;
`PublisherNeverWaits`; under fairness `AttentiveClientServed`, and the documented
`LaggingClientDisconnected`. `GeyserServer_proofs` proves the type, `DeliveredInOrder`,
`NothingLost`, `BlockEventsWhole` and `MempoolMirrored`, and that the server implements
`Feed`.

### `Feed`: what a stream promises

The abstract stream: a log that is only appended to; how far back of it is kept, the same
for every stream (`oldest`, which `Forget` moves forward and nothing moves back); and per
stream what it asks for, a phase, what of its replay is still owed, a position in the log,
the kinds its filter lets through, and what it was given. `Open` follows the request: a
stream that names a height owes *all* that is kept at that height and above, up to its
position, and opens only if something kept is as low; one that names none owes nothing;
one that asks for a snapshot waits for it. `Replay` and `Follow` pass one update each, by the filter of that moment; `ReplaceFilter` comes between two updates, once
the replay is over; `End` may come at any point, and nothing after it. There is no ring,
channel, lock, receiver or watermark in it, and no way to skip an update.

`FeedImplemented` is the refinement of `GeyserServer`. A stream is open from the snapshot
of the replay window on, its position is what its receiver took or its watermark,
whichever is farther, and a message that is waited with in `outbound.reserve()` was not
given yet: the stream has not moved past it. So what the ring overlaps with the replay is
no step at all, and `Follow` is the step that lets an update go or puts it into the channel.
`NothingLost` says what a stream has been given while its first filter is in force
(`Settled`), and of a replay only that it has no hole after the first update given; the
refinement says it of every filter a stream ever has, of the order in which filters and
updates take effect, and of the replay from its first update on: a server that ignores
the height asked for, or captures a part of what it keeps, is no `Feed`. What is kept is
mapped to the window's oldest bucket (`OldestKept`).

`ClientReconnect` is not refined to `Feed`, but a connection there (`feed`: what is
captured, the position, the kinds) is written as one of its streams: it opens with a
replay of the buckets retained from a height on, delivers these in order, then what is
published after the position, takes a new filter once the replay is over, and ends.

### `UpdateFilter` and `EventUpdates`: what an event becomes, and for whom

`UpdateFilter` is `filter.rs` as operators: `Refused` is what makes a request an
INVALID_ARGUMENT, `EventFilter` the compiled filter, `Matched` the match with the
parts of an update it asks for. An `Option` is a set of at most one value, so
`is_none_or` is a `\A` and `is_some_and` an `\E`; a bit mask is the set of its bits;
text is what parsing can tell of it (`kind` and `hash` of an address, `hash` and
notation of an ID), with "garbled" for what does not parse. The length of a list is
that of the set of its values.

`EventUpdates` EXTENDS it with `event.rs` and the projections of `server.rs`. `OnEvent`
begins `encode_event`; `EncodeTransaction` encodes one transaction, the next one or,
with the pool and enough of them, any one, and an error ends the event; `Publish` is
the rest of `on_event`. Streams `Subscribe` with a request, may `ReplaceFilter`, and
`SendFiltered` passes one update through the filter and `PublishedUpdate::payload`;
`cache` holds the cells other streams may have filled. A message is kept by what it
has of its update: consensus bytes ("raw"), decoded inputs and outputs
("transparent"), neither or both. Properties: `UpdatesWhole`, `EachFilterForItself`,
`PayloadAsAsked`, `TransactionWithItsUtxos`, `NotationDoesNotMatter`;
`EventUpdates_proofs` proves the type and all five.

### `ClientReconnect`: the client, composed with `ReplayService`

EXTENDS `ReplayService`: the client's connections are fed by the same window and the
same answers, live updates by what `GeyserServer` shows a stream to give (in order,
none missing until it ends). `Open` is `subscribe_with_request`: live, from a height, or
from the finalized and unfinalized blocks an application kept from an earlier run.
`UpdateRequest` and `ReplaceFilter` are a later request with another filter, at the
client and at the server. `Disconnect` and `Restart` (of the node: a new session, an
empty window) can come at any step; `Connect` is `connect_once` with the server's answer,
`replay_height`'s argument checks included; `HandleUpdate` is `handle_update` with
`ChainResumeState::observe` and `DedupState::observe`. The variable `app` is an
application that follows the updates it is given and rolls back what `ReconnectUpdate`
discards: what the client's promises are for. A height that is `None` is -1 here, since
a last height less the buffer can be 0: that is asked for as it is, and refused with
OUT_OF_RANGE by every window that begins above 0. Properties: `NothingMissedAfterFinality`
for clients that get finalized blocks, `UnfinalizedNotMissed` for those that resume by
height, `RequestsNeverInvalid`, `NoDuplicates`, `FinalityAdvances`, and the documented
`ReplacementDelivered` and `SkipToLiveGoesOn`. `ClientReconnect_proofs` proves all but the
last two, which do not hold.

`UnfinalizedNotMissed` speaks of what the window still *retains*. It cannot say more: a
height that was evicted during an outage is answered Ok as long as a lower finalized one
is retained (finding 1), and the client goes on without it. It also leaves aside
`BelowFinality`, the unfinalized blocks below all finalized ones the client holds or was
given, of which a client that begins with a kept block is given only some.

### `SubscriptionTracker`: the limit of streams

The count behind `acquire` and the guard, over the life of a call: it is counted
before the first request is read and given back by the end that is noticed first. A
client that closed its requests and then left is not noticed by the request arm
(`inbound_open` is false), only by a ping or an update. Properties: `SlotsCounted`,
`LimitRespected`, `SlotReturned`. `SubscriptionTracker_proofs` proves the safety ones.

### `PluginLifecycle`: loads, unloads and the servers between them

EXTENDS `SubscriptionTracker`: an id is a subscriber at one server, because `on_load`
makes a new tracker. The manager's calls are `Load`, `LoadFails` (which may leave the
encoding pool behind) and `Unload`, which cancels the server's token, drops its handle
and returns. The server task is `Serve`, `SeeShutdown`, `Drained`, `ServeFails`; tonic is
external: a graceful shutdown accepts no more calls and waits for the connections there
are (`Carried`: of handlers still waiting and of clients that stay). A stream's task is
spawned on its own (`server.rs:1010`): it outlives its connection, and the server, with
its slot until it notices that its client has left. `UnloadEnds` therefore asks for two
things of an unloaded server unless a client stays: that it ends, which takes the
cancellation, and that no task is left with a slot of it, which takes the ping timers.
`Subscribe` is the call's beginning with its token check; the rest of a call is the
tracker's `Continue`, on a server that may have been unloaded since. Properties: the
tracker's, across reloads; `ServerInReach`; `UnloadEnds`. `PluginLifecycle_proofs` shows
that the calls implement a tracker, so the tracker's theorems hold, and proves
`ServerInReach`.

### Conventions

A definition marked "Mutant" is a plausible wrong version of the one below it; no
specification uses it. `PROJECT.json` pairs each with the property that catches it.
Every checked property of a passing run has one.

## 3. The runs

| run | cfg | question | size |
|---|---|---|---|
| `replay_window` | `MCReplayWindow.cfg` | do counters, limits and order survive any pushes, evictions and ages? | 68 k states |
| `replay_service` | `MCReplayService.cfg` | is a resume that is let in complete and on the right chain, and is the window implemented? | 49 k |
| `replay_gap` | `MCReplayGap.cfg` | is an evicted height refused? (violated) | |
| `server_handoff` | `MCGeyserServer.cfg` | every interleaving of one publisher and one stream | 1.8 M |
| `server_attentive` | `MCGeyserAttentive.cfg` | is a reading client served, by a stream that is one of `Feed`'s? | 145 k |
| `server_lagging` | `MCGeyserLagging.cfg` | is a lagging client disconnected? (violated) | |
| `client_recovers` | `MCClientReconnect.cfg` | two connections lost, one to a restart, at any step: is anything missed, or a request invalid? | 661 k |
| `client_dedup` | `MCClientDedup.cfg` | is anything delivered twice, or taken back? | 255 k |
| `client_replacement` | `MCClientReplacement.cfg` | are discarded blocks given again? (violated) | |
| `client_skip_to_live` | `MCClientSkipToLive.cfg` | does `SkipToLive` go on? (violated) | |
| `plugin_lifecycle` | `MCPluginLifecycle.cfg` | is every slot counted and given back, and every server ended, across reloads? | 208 k |
| `event_filters` | `MCEventUpdates.cfg` | does each stream get what its request asks for? | 508 k |

### Bounds, and why they are enough

* `replay_window`: two heights, three updates, five bytes, one second; batches of one
  or two updates and one or three bytes. Each limit is the one that binds in some
  state, a batch can take the place of several, and a batch of two updates can follow
  a full window. Larger windows add no new comparison; the proofs cover them.
* `replay_service`: the window (4 heights, 7 events) is longer than the unfinalized chain
  (2) and shorter than two of them, as 150 is to 100 by default; the chain is 4 blocks
  long, with up to 11 events. A branch of one or two blocks, a finalization after a
  reset, evictions by events, bytes and age all happen. `replay_gap` lets the chain grow
  to 7 so that the gap between finalized and accepted heights opens.
* `server_handoff`: one stream, three events of up to two updates, ring of three,
  channel of two: the ring can lap a receiver, the channel fills while the ring moves
  on, and a window of two heights and four updates evicts. One stream is enough:
  streams share only what the publisher writes, plus the eviction of a snapshot, which
  finds nothing to evict here: the age limit is off (`ReplayService` has it). Four initial requests
  (live; replay with mempool; resume with mempool; mempool only), one filter
  replacement, one ping. The liveness runs have a ring and a channel of one, so one
  event already passes both. `server_attentive` has three events, so that the window
  evicts before, between and after the steps of `subscribe`, and requests that name a
  height above the oldest retained, which `FeedImplemented` needs next to a message that
  waits for room and a replacement at every point; pings are left to `server_handoff`. (tokio rounds the ring's capacity up to a power of two;
  the ring is a parameter here.)
* `client_recovers`: finality two below the tip and up to 8 events, so that the best chain
  can be reset by two blocks, which is one more than the buffer (1); a window of six
  events, so that some are evicted during an outage; two connections
  lost, one of them maybe to a restart, at any step; filters with and without finalized
  blocks, so that a client may have to resume by height. Two losses are what it takes for
  one outage to act on what was asked after another.
* `client_dedup`: finality one below the tip, a longer chain (tip 5) and one
  disconnection, so that the deduplication forgets heights. The two violation runs of the
  client have finality one below the tip as well.
* `plugin_lifecycle`: two servers one after the other, three calls, two subscribers, of
  whom one calls both servers, a limit of two: the limit is reached while another id is
  below it, and while a subscriber's streams at the unloaded server go on. The run
  checks deadlock as well.
* `event_filters`: two events of up to two transactions, so that the pool can finish them
  in another order and a failed event can be followed by one that is published; two
  interchangeable streams, which is what it takes to find a cell filled by another; one
  filter replacement. The seven requests have each field of a filter in use at least
  once, the unnamed filter next to a named one that alone needs addresses, all payload
  modes, TEX addresses in a filter and against a reject list, and text that does not
  parse. All kinds of updates are enabled; without transaction updates or without UTXO
  updates fewer are made of the same transactions.

`CHECK_DEADLOCK FALSE` is set where the bound on events lets everything come to rest.

### Fairness

* `PublisherSpec`: weak fairness of `Publisher` once a batch has begun. `publish_batch`
  is straight-line code on the node's event thread, which does not await: that it can
  always go on is `PublisherNeverWaits`. Nothing obliges the node to produce another
  event.
* `ServerSpec` adds weak fairness of each stream's task, in those steps that need
  neither the client nor the timer: tokio polls a task that can make progress, and
  `select!` picks among ready arms at random, so an arm that stays ready is taken.
* `AttentiveSpec` adds weak fairness of a client's reads. It is an assumption about the
  client, used only for the property about clients that do read.
* `PluginFairSpec`: weak fairness of each server task's steps and of noticing that a
  client has left: the runtime polls the task, the handlers and the streams, and the ping
  timer, 15 s by default, fires. Nothing obliges the manager or the clients to act. With
  `subscription_ping_interval_seconds` unset (`Pinging = FALSE`), a client that
  half-closed and left keeps its slot until an update is sent to it: if its server was
  unloaded, not before the next load, as both servers' streams follow the same ring. The
  server's end and its address do not depend on it.

### Findings

Four statements of the documentation do not hold of the code. The runs that show them
expect a violation.

1. `EvictedHeightRefused` (`server.rs:643`; README.md:411-412 of `src/`). `snapshot`
   refuses a height below the *least* retained one. Once a finalized block, far below
   the tip, is in the window, heights between it and the accepted ones can be evicted
   and are still answered Ok, with a replay that starts above them.
2. `LaggingClientDisconnected` (`server.rs:1086`; README.md:424 of `src/`). A client
   that stops reading fills its response channel; its task waits in `reserve()` and no
   longer looks at the ring, so it never finds out that it lags. The client keeps its
   task and slot; it is disconnected for lag only if it reads again.
3. `SkipToLiveGoesOn` (`reconnect.rs:469`; `reconnect.rs:65`). The request made after
   OUT_OF_RANGE has no `from_height` but still the refused `resume`: it is refused
   again and the subscription ends.
4. `ReplacementDelivered` (`reconnect.rs:268`; README.md:156-157 of `src/`). The
   replayed updates of a discarded block still on the best chain have the keys they
   had, and the deduplication suppresses them: an application that rolled the block
   back is not given it again.

Finding 1 reaches the client: one that has seen no finalized block resumes by height,
and when that height has been evicted under a finalized one below it, it is let in and
goes on without what was evicted. `UnfinalizedNotMissed` is about what is retained, and
holds if `checkpoint_height_buffer` is at least one less than the number of blocks a
reset replaces, which is what its mutant breaks. The default buffer is 2
(`reconnect.rs:89`, "to cover same-height ordering races"): a client whose filter leaves
the finalized blocks out is covered against resets of up to three blocks, not of the
node's full depth. And a client
with a finalized block ends with OUT_OF_RANGE after a restart of the node, whose window
is empty, unless it skips to live; under `SkipToLive` that is finding 3.

Two narrower ones were met in `filter.rs`, without a run of their own. A
`transaction_ids` filter never matches the `mempool_changed` update of a transaction
with an auth digest, whose summary has unmined IDs (`event.rs:68`), though
`geyser.proto:57` says it matches transaction-scoped updates with one of the IDs. And
`min_height` also drops every update without a height (`filter.rs:247`), where
`geyser.proto:55` speaks of block-scoped events below it.

Conditions for `NoDuplicates` came out of `client_dedup` and its proof, without a document
to contradict. They are about `height_retention`, the heights the deduplication keeps.

* A client that joined live sees two new heights per block until finality has passed the
  height it joined at, so for one outage `height_retention` must exceed
  `2 * finality depth + 1`, whatever the size of the server's window. The default (250)
  does for a finality near 100 blocks; TLC finds duplicates one below it, which is the
  mutant of that property.
* A client without a finalized block resumes from its last height less the buffer, the
  last height being that of the last update, be it a suppressed one (`reconnect.rs:264`
  sets it before the deduplication is asked). An outage in the midst of a replay asks
  from a buffer lower than the one before. The theorem's sufficient condition,
  `HeightRetention > 2 * (FinalityDepth + 1 + EarlyLosses * HeightBuffer)`, admits
  `EarlyLosses` such outages: 11 for the defaults and a depth of 100. Once the client has
  a finalized block, outages are unlimited.
* A client whose later filter leaves out finalized blocks keeps the one it has, however
  old, and resumes from it: it is given again what the deduplication has forgotten since;
  by default this is out of reach, because the window (150 heights, `config.rs:124`)
  evicts the block before the deduplication (250 heights) forgets it.

## 4. The proofs

Checked by TLAPS for every value of the constants, under each module's named
assumptions, which ask no more than `config.rs` validates (it also makes the limits
positive) and that heights, sizes and lengths are numbers.

**`ReplayWindow_proofs`.** `CountersExact` and `WithinLimits` are not inductive. The
code subtracts with `saturating_sub`; exactness needs that what is subtracted never
exceeds the counter, hence that the totals *grow along the history*. `IInv` is the
type, exact counts per height, exact totals, growing totals, the limits and the
ordering of numbers. `PopSound` (popping a prefix keeps counters exact) and
`PushSound` (so does a push) are about the operators alone; `EmptiedIsLimited` shows
that with exact counters an emptied window exceeds no limit, which is why the
eviction loop ends; `EvictSound` combines them. Then one lemma per action and

* `IInvHolds`: `Spec => []IInv`,
* `TypeCorrect`, `CountersAreExact`, `LimitsHold`, `EvictionTerminates`,
  `WindowOrdered`: the five properties of `replay_window`.

**`ReplayBuffer_proofs`.** What the window's operators do to a sound window, for the three
modules that use it: `Sound` is the type, the exact counters and the growing totals.
`PopSound`, `PushSound`, `EmptiedIsLimited`, `EvictSound`, `EvictStops` and `PushesSound` are here, and
`NewestKept`: a bucket within the limits survives its own push.

**`ReplayService_proofs`.** `IInv` is `Running /\ WholeInv /\ ReplyInv`.
`Running` has the node's order of events (`NodeInv`: it finalizes below its tip and
resets above the finalized height) and what the history owes to it (`OrderInv`: a
finalized bucket is of the best chain and lower than every later one). That is why a
verified anchor cannot be followed by a lower height the replay would leave out, and why
an answer keeps its meaning when later events come. `WholeInv`, that a window there from
the first event lacks no finalized height, is what `NoFalseMismatch` needs: a mismatch
is told for a height that *was* retained. It is kept apart because a restart breaks it.

* `ServiceInvariant`, `ServiceTypeCorrect` (with `RepliesFromWindow`, as the last answer
  is taken after the eviction of its own snapshot), `ResumesAreComplete`, `MismatchIsReal`,
  `ResumesOnBestChain`: the safety properties of `replay_service`;
* `ImplementsWindow`: `Spec => Window!Spec`, one lemma per handler, each a push, a read, a
  tick or a stutter of `ReplayWindow`.

**`GeyserServer_proofs`.** For any number of streams, any requests, rings, channels and
windows. `PublisherInv` says that the window's buckets cover exactly the numbers
pushed so far, one event each. Each stream then has: what it was given is in order and
below its watermark (`Order`, `Seam`), what it captured is still to come, above what it
was given, and lacks nothing from its front on (`Pending`), and what it followed live it
was given as far as its receiver has got (`Whole`). The argument is the seam: the
receiver was taken before the snapshot (`cursor <= start` until the stream goes live), so
what the watermark drops from the ring was in the replay, and nothing else is.
`ServerTypeCorrect`, `StreamsInOrder`, `StreamsLoseNothing`.

* `StreamsGetWholeBlocks`: `HoldsABlock => (Spec => []BlockEventsWhole)`. An event is in
  the window before its first update is in the ring, so a stream that subscribes between
  two sends has a watermark at the event's end, or beyond. `HoldsABlock` says that the
  window is on and admits one event of the model, of two updates and one byte. It is
  needed: an event larger than a limit evicts itself in its own push, the watermark is
  then 0, and TLC finds the rest of an event at the head of a stream.
* `ClientsMirrorMempool`: the mempool's lock is held from the change of the revision to
  the last send of the event, so the revision of a snapshot divides the changes: those in
  it are numbered up to it, those still to come after it, in the ring, in the channel and
  at the publisher. The invariant follows the mempool as of every number, and says of each
  stream that snapshot and changes given, applied in order, are that mempool.

* `ImplementsFeed`: `Spec => FeedImplemented`. Each handler maps to one step of `Feed` or to
  none: `PushReplay` to `Forget`, as it may evict, `SnapshotReplay` to `Open`, `SnapshotMempool` to `TakeSnapshot` if one is asked for,
  `SendReplay` to `Replay`, `SendHeld` to `Follow`. `ReceiveLive` is a `Follow` if the filter
  drops the update or the snapshot covers it, and otherwise none; every way a task ends is
  an `End`. That `Open` owes exactly what the request asks for is shown of `SnapshotReplay`:
  it captures the retained buckets at or above the height, all of them numbered up to the
  watermark, and is let in only if one is at the height or below; a read or a push only
  raises `OldestKept`. The mapping uses the invariants above (the log numbered by position, the seam,
  what is captured) and a new one, `FeedInv`: updates of the mempool have a revision and no
  height, so a replay from a height owes none and nothing is covered before there is a
  snapshot; and a message that is waited with is the update at the stream's position,
  still wanted by the filter (`WaitedWith`). That holds because a task that waits takes no
  request; the mutant, which lets it take one, sends an update that the filter in force
  excludes.

* `ReplayLockIsReleased`: `Spec => [](PublisherCanGoOn /\ SnapshotCanBeTaken)`. What a step
  of the publisher needs besides its stage is a window that the eviction loop reaches; the
  loop ends on any sound window, after a push and in a snapshot. This is
  `PublisherNeverWaits` with the conditions written out in place of ENABLED.

**`ClientReconnect_proofs`.** `ClientInv` uses only `Running`, not `WholeInv`, because it
must survive a restart. Its core: every unfinalized block the client keeps is above its
finalized one (`PartialAboveFinality`), the finalized one is not above the node's, a
request in preparation is valid (`Asks`), and what a connection will still deliver
finalizes nothing below what the client knows to be final (`FeedInv`): a captured bucket
is not below the height asked for, and a later one is above all that was finalized. A
replay that repeats old blocks then neither moves the client back nor leaves a final
block among the partial ones, for any node, window, filters and number of losses:
`ClientInvariant`, `ClientTypeCorrect`, `RequestsAreValid`, `FinalityNeverMovesBack`.

* `NothingIsMissed`: `RecoversAll => (ClientSpec => []NothingMissedAfterFinality)`, where
  `RecoversAll` excludes the two policies that skip data on purpose. `MissInv` has, for
  each finalized position given, a finalized position from it on, of the height the client
  would resume from, such that what is not given is behind that one and still to come.
  An outage throws away what was to come; the request that follows is let in only if the
  window still reaches down to the resume height, and with it retains all that follows.
* `BufferCoversReorganisations`: `RecoversAll /\ BufferSuffices => (ClientSpec =>
  []UnfinalizedNotMissed)`, with `BufferSuffices == HeightBuffer + 1 >= FinalityDepth`.
  The property is not inductive, and neither is "what is not given is still to come or
  asked for next" (`Owing`). `GapInv` adds: how far back the node's updates reach
  (`DepthInv`: no unfinalized one is `FinalityDepth` or more below an earlier one, nor
  below the next accepted height, `Reach`); that what is to come is not below the last
  height less the buffer, unless a finalized block takes its place (`FeedInReach`); that a
  last height left from another session asks for no less (`OldCheckpoint`); and that
  before the first update given, the capture has no gap of its own (`FeedUnbroken`). The
  hypothesis is needed, as its mutant shows; the default configuration does not meet it
  for a node's full depth (see the findings).
* `NothingIsRepeated`: `RecoversAll /\ FinalAsked /\ RetentionSuffices => (ClientSpec /\
  AnchoredAfter => []NoDuplicates)`. What was given is known to the deduplication, or is so
  low that it never comes again (`AllKnown`). The link is a count: the buckets are of
  different heights, none more than `Span` above a later one (`BucketsInv`), so when a full
  deduplication forgets its first, the heights it holds cannot all lie within `Span` of it
  (`ManyHeights`, by the cardinality of an interval), and one is more than `Span` above.
  Against that, whatever is still to come, asked for, or resumed from is at most `Drop`
  below every bucket, and `Drop <= Span` (`FeedWithin`, `AskWithin`, `ResumeWithin`). That
  rests on how far back a node's updates can go (`ChainInv`) and on the finalized block
  being the last one the client was given (`AnchorInv`), which a filter that leaves
  finalized blocks out would break: hence `FinalAsked`. `AnchoredAfter` is a condition on
  behaviours, that all connections lost after the first `EarlyLosses` find the client
  with a finalized block; `RetentionForEveryOutage` does without it, by a retention that
  covers `MaxDisconnects` outages of the other kind.

**`EventUpdates_proofs`.** First the operators, for all requests: `MatchedByRequest` says
what a request's filter matches, the filters taken one by one, because the addresses
collected for one change nothing for another (`CollectedForAnother`); a filter that is
not refused compiles to the parts it asks for. Then the invariant: updates are appended
to (`FlattenedIsSequence`, by minimal counterexample, as `FlattenSeq` is recursive), a
cell holds what it is named for, and what a stream was sent of its last update is what
its request makes of it. `FiltersAreIndependent`, `PayloadsAreAsAsked`, for any events,
limits and streams. `UtxosAgreeWithTransaction` and `NotationIsForgotten` are facts about
the operators: what a filter says of a transaction's two updates, and that a request in
canonical notation compiles to the same filter. Two more invariants follow the state:

* `EventsStayWhole` (`WholeInv`): what a pool has finished are distinct transactions of the
  event, each with its own updates, and each published event has a place in the sequence
  that holds its summary and its transactions' updates, in order. From it
  `EventsArePublishedWhole` (`UpdatesWhole`) and, as the two updates of a transaction are
  neighbours, `UtxosGoWithTheirTransaction` (`TransactionWithItsUtxos`).
* `StreamsStaySound` (`SoundInv`): a stream's filter is compiled from a request that was
  not refused, and a refused stream had one that is. From it `FiltersAreParsed` (`TypeOK`)
  and `NotationNeverMatters`: `NoneTwice => (Spec => []NotationDoesNotMatter)`. `NoneTwice`
  says that no list of the requests has one value in two notations. It is there because
  of the model, not of the code: a list is a set, which such a request makes shorter when
  rewritten, while the code counts the entries of a `Vec` against the maximum, before and
  after alike.

The module's assumptions say what events and requests are (`EventsAssumption`,
`RequestsAssumption`: finite lists of transactions with finite sets of facts, requests with
fields of their types); TLC evaluates them on the run's.

**`SubscriptionTracker_proofs`.** `TypeOK`, `SlotsCounted` and `LimitRespected` are
inductive together: the limit holds *because* the count that `acquire` compares is
exact, and `Release` may remove an entry at 1 only because exactness says that no other
guard of that id is alive. `CountIsHeld` is that link; `AcquireKeeps` and
`ReleaseKeeps` are the two cases that change a count, every way of ending a call being
`Release`. `TrackerInvariant` yields `TrackerTypeCorrect`, `SlotsAreCounted` and
`LimitIsRespected`, for any set of ids and any finite set of calls.

**`PluginLifecycle_proofs`.** `ImplementsTracker`: every step of the plugin is a step of
one call or none of the tracker's, so `ReloadKeepsSlots` follows from
`TrackerInvariant`. `ServerInReach` is inductive with the types of `server` and `task`: a
load finds nothing in the plugin's hands, so the servers that still take calls are
cancelled.

**Only model-checked.** All liveness (the prover does not do ENABLED or fairness):
`AttentiveClientServed`, `SlotReturned`, `UnloadEnds`; and `PublisherNeverWaits`, which is
about ENABLED (`ReplayLockIsReleased` proves what it comes to in this model, but not the
formula). Every other property of a passing run is a theorem. `client_dedup` has one
outage and takes the retention at its real boundary, which is below what the theorem asks
for: `Span` counts the buffer and the outages apart. The other way round, two cases rest on
the proofs alone: a batch larger than a whole limit of the window (`LimitsHold`; TLC's
batches fit) and more than one attempt at reconnecting (`RequestsAreValid` and the others
hold for any `MaxRetries`; the runs have 0).

## 5. What is not modelled, and what is external

* The node is external. At each height there are two forks, so a chain that was reset
  cannot be reset back, and a branch is accepted without blocks of the best chain in
  between; a reset may go down to the finalized height. Its chain survives a restart.
* One update stands for a bucket in `ReplayService` and `ClientReconnect`; that a
  bucket's updates stay together and in order is `GeyserServer`'s subject.
* The `Invalidated` and `Mined` actions of the mempool both remove entries; `GeyserServer`
  has one removal. Filters are sets of event types there; `UpdateFilter` has the rest.
* Clients without a `ReconnectConfig`, which end with their first connection, the client's
  pings and the capacity of its command channel, and the mempool snapshot sent again
  after a resume are not in `ClientReconnect`.
* `replay_height`'s argument checks are in `ClientReconnect`; `GeyserServer` begins with a
  height.
* A limit that spans a reload: every load has its own tracker, as in the code. The
  health service's watches, which also hold a connection of a draining server, are left
  out, as are the health statuses.
* Sequence numbers are unbounded (`checked_add` on `u64`), ping ids are not followed.
* Sums of values stay below `u64::MAX` (the supply bounds them) and indexes below
  `u32::MAX`, so those errors of `event.rs` are left out; `zcash_serialize_to_vec` is
  external and may fail for a transaction or for the block.
* Configuration parsing, the other unary calls, reflection, the client builder, protocol
  definitions and examples keep no state that two steps could see differently.

## 6. Plan

Written in this order, the most important behaviour first: `ReplayBuffer`,
`ReplayWindow`, `ReplayService`, `GeyserServer`, `ClientReconnect`,
`SubscriptionTracker`, `UpdateFilter`, `EventUpdates`, `PluginLifecycle`, `Feed`; then the
proofs about each, and the refinements `WindowImplemented`, `ImplementsTracker` and
`FeedImplemented`. What would come next:

* `ClientReconnect` with a `Feed` in place of its own `feed`, so that what its proofs say
  of a connection rests on `ImplementsFeed` by a theorem and not by how it is written.
  There, an update stands for a bucket, and the buckets for all updates of an event.
