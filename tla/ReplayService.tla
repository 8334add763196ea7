---------------------------- MODULE ReplayService ----------------------------
(***************************************************************************)
(* The replay window under the events a node produces, and the requests    *)
(* that read it: from_height, resume and SubscribeReplayInfo.              *)
(*                                                                         *)
(* The node (external) accepts a block on top of its best chain, reports   *)
(* that the best chain grew, and finalizes the block that is now           *)
(* FinalityDepth below the tip; or it accepts a branch that competes with  *)
(* the blocks above some unfinalized height, block by block, and resets    *)
(* the best chain to it.  Each report is one source event, and             *)
(* publish_batch pushes each as one bucket before the next is encoded.     *)
(***************************************************************************)
EXTENDS ReplayBuffer

CONSTANTS
    FinalityDepth,  \* blocks of the best chain that a reset may still replace
    MaxHeight,      \* bound: the tip
    MaxEvents,      \* bound: source events
    MaxTime         \* bound: the clock

ASSUME ChainAssumption ==
    /\ FinalityDepth \in Nat \ {0}
    /\ MaxHeight \in Nat
    /\ MaxEvents \in Nat
    /\ MaxTime \in Nat

VARIABLES
    replay,     \* the record behind the replay mutex
    clock,      \* Instant::now()
    best,       \* the node's best chain: the fork each of its heights is on
    finalized,  \* the node's finalized height
    branch,     \* the heights of the competing branch accepted so far
    next,       \* the event the node reports next
    reply       \* the answer to the last request, NoReply once an event followed

node == <<best, finalized, branch, next>>
vars == <<replay, clock, node, reply>>

Forks == {"main", "side"}

Tip == CHOOSE h \in DOMAIN best : \A g \in DOMAIN best : g <= h

NoBranch == [from |-> 0, to |-> 0]

\* What an event is about: a block on a fork, or a reset that replaces the blocks from
\* one height up to the tip.
Item(kind, fork) == [kind |-> kind, fork |-> fork, from |-> 0]
Reset(from) == [kind |-> "best", fork |-> "side", from |-> from]

NoReply == [op |-> "none"]

Init ==
    /\ replay = EmptyReplay
    /\ clock = 0
    /\ best = [h \in {0} |-> "main"]
    /\ finalized = 0
    /\ branch = NoBranch
    /\ next = "accept"
    /\ reply = NoReply

-----------------------------------------------------------------------------
(***************************************************************************)
(* The node's events.  Every one is a batch of one update of one byte: the *)
(* sizes are ReplayWindow's subject.                                       *)
(***************************************************************************)

\* Mutant of Publish: the batch is pushed and the window left as long as it has become.
PublishWithoutEvicting(height, item) ==
    /\ Len(replay.pushed) < MaxEvents
    /\ LET n == Len(replay.pushed) + 1 IN
       replay' = PushBack(replay, Batch(height, item, n, n, 1), clock)
    /\ reply' = NoReply
    /\ UNCHANGED clock

\* push_batch, inside publish_batch.
Publish(height, item) ==
    /\ Len(replay.pushed) < MaxEvents
    /\ LET n == Len(replay.pushed) + 1 IN
       PushesTo(replay, Batch(height, item, n, n, 1), clock, replay')
    /\ reply' = NoReply
    /\ UNCHANGED clock

AcceptBlock ==
    /\ next = "accept"
    /\ Tip < MaxHeight
    /\ Publish(Tip + 1, Item("accepted", "main"))
    /\ next' = "grow"
    /\ UNCHANGED <<best, finalized, branch>>

GrowBestChain ==
    /\ next = "grow"
    /\ Publish(Tip + 1, Item("best", "main"))
    /\ best' = [h \in DOMAIN best \union {Tip + 1} |-> IF h = Tip + 1 THEN "main" ELSE best[h]]
    /\ next' = IF Tip + 1 - finalized > FinalityDepth THEN "finalize" ELSE "accept"
    /\ UNCHANGED <<finalized, branch>>

\* The block at this height of the branch that began at another.
AcceptSideBlock(from, height) ==
    /\ Publish(height, Item("accepted", "side"))
    /\ branch' = [from |-> from, to |-> height]
    /\ next' = IF height = Tip THEN "reset" ELSE "branch"
    /\ UNCHANGED <<best, finalized>>

BeginBranch ==
    /\ next = "accept"
    /\ \E height \in (finalized + 1) .. Tip :
        /\ \A h \in height .. Tip : best[h] = "main"
        /\ AcceptSideBlock(height, height)

GrowBranch ==
    /\ next = "branch"
    /\ AcceptSideBlock(branch.from, branch.to + 1)

ResetBestChain ==
    /\ next = "reset"
    /\ Publish(Tip, Reset(branch.from))
    /\ best' = [h \in DOMAIN best |-> IF h >= branch.from THEN "side" ELSE best[h]]
    /\ branch' = NoBranch
    /\ next' = "accept"
    /\ UNCHANGED finalized

FinalizeBlock ==
    /\ next = "finalize"
    /\ Publish(finalized + 1, Item("finalized", best[finalized + 1]))
    /\ finalized' = finalized + 1
    /\ next' = "accept"
    /\ UNCHANGED <<best, branch>>

NodeStep ==
    \/ AcceptBlock \/ GrowBestChain \/ FinalizeBlock
    \/ BeginBranch \/ GrowBranch \/ ResetBestChain

Tick ==
    /\ clock < MaxTime
    /\ clock' = clock + 1
    /\ reply' = NoReply
    /\ UNCHANGED <<replay, node>>

-----------------------------------------------------------------------------
(***************************************************************************)
(* The requests.  `verified` is what verify_checkpoint says; it runs before *)
(* the eviction of snapshot, under the same lock, and an error of it skips *)
(* the snapshot.                                                           *)
(***************************************************************************)
Answer(op, from, fork, status, sent) ==
    [op |-> op, from |-> from, fork |-> fork, status |-> status, sent |-> sent]

\* Mutant of Snapshot: the window is read before it is evicted.
SnapshotBeforeEvicting(op, from, fork) ==
    /\ EvictsTo(replay, clock, replay')
    /\ reply' = IF HeightAvailable(replay, from)
                THEN Answer(op, from, fork, "ok", ReplayFrom(replay, from))
                ELSE Answer(op, from, fork, "out_of_range", {})

\* snapshot: evict, then refuse the height or send the buckets from it on (`sent`,
\* by position: no later event moves them).
Snapshot(op, from, fork) ==
    /\ EvictsTo(replay, clock, replay')
    /\ reply' = IF HeightAvailable(replay', from)
                THEN Answer(op, from, fork, "ok", ReplayFrom(replay', from))
                ELSE Answer(op, from, fork, "out_of_range", {})

SubscribeFromHeight ==
    /\ \E from \in 1 .. MaxHeight : Snapshot("from_height", from, "none")
    /\ UNCHANGED <<clock, node>>

SubscribeResume ==
    /\ \E from \in 1 .. MaxHeight, fork \in Forks :
        LET verified == VerifyCheckpoint(replay, from, Item("finalized", fork)) IN
        IF verified = "ok"
        THEN Snapshot("resume", from, fork)
        ELSE /\ reply' = Answer("resume", from, fork, verified, {})
             /\ UNCHANGED replay
    /\ UNCHANGED <<clock, node>>

\* replay_info: the retained range, after an eviction.
SubscribeReplayInfo ==
    /\ EvictsTo(replay, clock, replay')
    /\ reply' = Answer("replay_info",
                       IF DOMAIN replay'.heightCounts = {} THEN 0
                       ELSE FirstAvailableHeight(replay'),
                       "none", "ok", {})
    /\ UNCHANGED <<clock, node>>

Next ==
    \/ NodeStep
    \/ Tick
    \/ SubscribeFromHeight
    \/ SubscribeResume
    \/ SubscribeReplayInfo

Spec == Init /\ [][Next]_vars

-----------------------------------------------------------------------------
(***************************************************************************)
(* Properties                                                              *)
(***************************************************************************)
\* The last answer replays only what the window retains: what was beyond its limits at
\* the request, or behind them, is never sent.
RepliesFromWindow == reply.op # "none" => reply.sent \subseteq Retained(replay)

\* The type invariant, of the window, the node and the last answer.
TypeOK ==
    /\ replay.popped \in 0 .. Len(replay.pushed)
    /\ clock \in 0 .. MaxTime
    /\ best \in [0 .. Tip -> Forks]
    /\ finalized \in 0 .. Tip
    /\ branch \in [from : 0 .. Tip, to : 0 .. Tip]
    /\ next \in {"accept", "grow", "branch", "reset", "finalize"}
    /\ reply.op \in {"none", "from_height", "resume", "replay_info"}
    /\ RepliesFromWindow

\* A resume that is answered Ok replays the finalized block the client holds and
\* everything published after it at or above its height: what the client missed
\* is all there, although the anchor was verified before the window was evicted.
ResumeComplete ==
    reply.op = "resume" /\ reply.status = "ok" =>
        \E a \in 1 .. Len(replay.pushed) :
            /\ replay.pushed[a].height = reply.from
            /\ replay.pushed[a].item = Item("finalized", reply.fork)
            /\ \A i \in a .. Len(replay.pushed) :
                replay.pushed[i].height >= reply.from => i \in reply.sent

\* FAILED_PRECONDITION tells a client that it is on another chain.  A client whose
\* finalized block the node did finalize is never told so: it gets its replay or
\* OUT_OF_RANGE.
NoFalseMismatch ==
    reply.op = "resume" /\ reply.status = "failed_precondition" =>
        reply.from > finalized \/ best[reply.from] # reply.fork

\* A resume from a block the node did not finalize is never answered Ok, and the
\* replay a resumed client gets holds no finalized block but those of the best
\* chain: it cannot join another chain.
NeverJoinsAnotherChain ==
    reply.op = "resume" /\ reply.status = "ok" =>
        /\ reply.from <= finalized /\ best[reply.from] = reply.fork
        /\ \A i \in reply.sent :
            replay.pushed[i].item.kind = "finalized" =>
                replay.pushed[i].item.fork = best[replay.pushed[i].height]

\* Published once, and no bucket of it is left.
EvictedHeight(h) ==
    /\ \E i \in 1 .. replay.popped : replay.pushed[i].height = h
    /\ ~\E i \in Retained(replay) : replay.pushed[i].height = h

\* What README.md says of from_height: "If the requested height has been evicted,
\* the server returns OUT_OF_RANGE".  The code refuses only heights below the least
\* retained one, and the window also holds finalized blocks, which are
\* FinalityDepth below the accepted ones: the heights between the two are evicted
\* and still accepted.
EvictedHeightRefused ==
    reply.op = "from_height" /\ reply.status = "ok" => ~EvictedHeight(reply.from)

EventItems ==
    {Item(kind, fork) : kind \in {"accepted", "best", "finalized"}, fork \in Forks}
    \union {Reset(from) : from \in 1 .. MaxHeight}

\* The node's events and the requests, seen from the window, are batches and reads as
\* ReplayWindow has them: what is proved there of any batches in any order holds under
\* these.  A request refused before it reads the window is a stutter.
Window == INSTANCE ReplayWindow WITH
    Heights <- 0 .. MaxHeight,
    Items <- EventItems,
    BatchSizes <- {1},
    ByteSizes <- {1},
    MaxSequence <- MaxEvents,
    sequence <- Len(replay.pushed)

\* The service implements the window: it changes the deque, its counters and the clock
\* in no way but those of ReplayBuffer's methods (publish_batch, subscribe, replay_info).
WindowImplemented == Window!Spec
=============================================================================
