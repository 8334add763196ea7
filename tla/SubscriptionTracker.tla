------------------------- MODULE SubscriptionTracker -------------------------
(***************************************************************************)
(* The streams a subscriber may hold at once (auth.rs), over the life of a *)
(* Subscribe call: `acquire` counts it before the first request is read,   *)
(* the guard it returns goes into the stream's task, and dropping the      *)
(* guard gives the slot back.  A task holds its slot for as long as it     *)
(* does not notice that its client has left.                               *)
(***************************************************************************)
EXTENDS Naturals, FiniteSets

CONSTANTS
    Calls,     \* Subscribe calls that may be open at once
    Ids,       \* subscriber ids: x-subscription-id, or the IP address
    NoId,      \* of a call without a guard
    Limit,     \* Config.subscription_limit
    Enforce,   \* Config.subscription_limit_enforce
    Pinging    \* Config.subscription_ping_interval_seconds is set

ASSUME TrackerAssumption ==
    /\ IsFiniteSet(Calls)
    /\ NoId \notin Ids
    /\ Limit \in Nat \ {0}
    /\ Enforce \in BOOLEAN /\ Pinging \in BOOLEAN

VARIABLES
    counts,    \* the map behind the mutex: a function on the ids with an entry
    call,      \* per call: "none", "waiting" (for its first request) or "streaming"
    owner,     \* per call: the subscriber_id of its guard
    client     \* per call: "open", "halfclosed" (its requests) or "gone"; and "vanished"
               \* if it left when its requests had already ended

vars == <<counts, call, owner, client>>

Init ==
    /\ counts = [id \in {} |-> 0]
    /\ call = [c \in Calls |-> "none"]
    /\ owner = [c \in Calls |-> NoId]
    /\ client = [c \in Calls |-> "open"]

Held(c) == call[c] \in {"waiting", "streaming"}

Count(id) == IF id \in DOMAIN counts THEN counts[id] ELSE 0

-----------------------------------------------------------------------------
\* Mutant of Acquire: the limit is checked one stream too late.
AcquireOneMore(c, id) ==
    /\ call[c] = "none"
    /\ IF Enforce /\ Count(id) > Limit
       THEN UNCHANGED vars
       ELSE /\ counts' = [i \in DOMAIN counts \union {id} |->
                            IF i = id THEN Count(id) + 1 ELSE counts[i]]
            /\ call' = [call EXCEPT ![c] = "waiting"]
            /\ owner' = [owner EXCEPT ![c] = id]
            /\ client' = [client EXCEPT ![c] = "open"]

\* counts.entry(subscriber_id).or_default(), then the limit, then the increment.  (The
\* limit is not 0, so a refused call leaves no entry it made.)
Acquire(c, id) ==
    /\ call[c] = "none"
    /\ IF Enforce /\ Count(id) >= Limit
       THEN UNCHANGED vars
       ELSE /\ counts' = [i \in DOMAIN counts \union {id} |->
                            IF i = id THEN Count(id) + 1 ELSE counts[i]]
            /\ call' = [call EXCEPT ![c] = "waiting"]
            /\ owner' = [owner EXCEPT ![c] = id]
            /\ client' = [client EXCEPT ![c] = "open"]

\* The call is over, and what was its guard's and its client's is forgotten.
Ended(c) ==
    /\ call' = [call EXCEPT ![c] = "none"]
    /\ owner' = [owner EXCEPT ![c] = NoId]
    /\ client' = [client EXCEPT ![c] = "open"]

\* Mutant of Release: an entry that falls to 0 stays.
ReleaseKeepingEntry(c) ==
    /\ counts' = [counts EXCEPT ![owner[c]] = @ - 1]
    /\ Ended(c)

\* Mutant of Release: the entry goes with the first of its guards.
ReleaseWholeEntry(c) ==
    /\ counts' = [i \in DOMAIN counts \ {owner[c]} |-> counts[i]]
    /\ Ended(c)

\* SubscriptionGuard::drop
Release(c) ==
    LET id == owner[c] IN
    /\ counts' = IF counts[id] = 1
                 THEN [i \in DOMAIN counts \ {id} |-> counts[i]]
                 ELSE [counts EXCEPT ![id] = @ - 1]
    /\ Ended(c)

\* The first request came, with a filter and a replay the server accepts (its client
\* may have half-closed or left since it sent it).
FirstRequest(c) ==
    /\ call[c] = "waiting"
    /\ call' = [call EXCEPT ![c] = "streaming"]
    /\ UNCHANGED <<counts, owner, client>>

\* Or it was refused: an invalid filter, a replay that is not available.
RefuseFirstRequest(c) ==
    /\ call[c] = "waiting" /\ client[c] = "open"
    /\ Release(c)

\* What the client does.  Closing its requests leaves the response stream open.
HalfClose(c) ==
    /\ Held(c) /\ client[c] = "open"
    /\ client' = [client EXCEPT ![c] = "halfclosed"]
    /\ UNCHANGED <<counts, call, owner>>

Leave(c) ==
    /\ Held(c) /\ client[c] \in {"open", "halfclosed"}
    /\ client' = [client EXCEPT ![c] = IF @ = "open" THEN "gone" ELSE "vanished"]
    /\ UNCHANGED <<counts, call, owner>>

\* The handler that waits for the first request is dropped with its connection, or
\* reads the end or an error of the requests.
EndWaiting(c) ==
    /\ call[c] = "waiting" /\ client[c] # "open"
    /\ Release(c)

\* inbound.message() fails: only while the requests are still read (inbound_open).
RequestError(c) ==
    /\ call[c] = "streaming" /\ client[c] = "gone"
    /\ Release(c)

\* Mutant of PingFails: a closed channel is taken for a full one unless the requests
\* are still read.
PingFailsIfReading(c) ==
    /\ Pinging
    /\ call[c] = "streaming" /\ client[c] = "gone"
    /\ Release(c)

\* The ping timer finds the response channel closed (PingSend::Closed), as does the
\* reserve() a task may be waiting in when the timer fires.
PingFails(c) ==
    /\ Pinging
    /\ call[c] = "streaming" /\ client[c] \in {"gone", "vanished"}
    /\ Release(c)

\* The stream ends otherwise: an update finds the response channel closed, or the
\* server ends it (lag, an invalid filter).
EndStream(c) ==
    /\ call[c] = "streaming"
    /\ Release(c)

Notice(c) == EndWaiting(c) \/ RequestError(c) \/ PingFails(c)

\* What becomes of a call that holds a slot.
Continue(c) ==
    \/ FirstRequest(c) \/ RefuseFirstRequest(c)
    \/ HalfClose(c) \/ Leave(c)
    \/ EndWaiting(c) \/ RequestError(c) \/ PingFails(c) \/ EndStream(c)

Next ==
    \E c \in Calls :
        \/ \E id \in Ids : Acquire(c, id)
        \/ Continue(c)

Spec == Init /\ [][Next]_vars

-----------------------------------------------------------------------------
\* Entries are counters above 0: an id without a stream has no entry (the map does not
\* grow with the ids ever seen).
TypeOK ==
    /\ DOMAIN counts \subseteq Ids
    /\ \A id \in DOMAIN counts : counts[id] \in Nat \ {0}
    /\ call \in [Calls -> {"none", "waiting", "streaming"}]
    /\ owner \in [Calls -> Ids \union {NoId}]
    /\ \A c \in Calls : Held(c) => owner[c] \in Ids
    /\ client \in [Calls -> {"open", "halfclosed", "gone", "vanished"}]

HeldBy(id) == {c \in Calls : Held(c) /\ owner[c] = id}

\* The count of an id is the number of its guards alive, whatever way each of its
\* streams ended: no slot leaks, none is given back twice.
SlotsCounted ==
    /\ DOMAIN counts = {owner[c] : c \in {x \in Calls : Held(x)}}
    /\ \A id \in DOMAIN counts : counts[id] = Cardinality(HeldBy(id))

\* An enforced limit is never passed, by calls racing for the last slot either.
LimitRespected == Enforce => \A id \in Ids : Cardinality(HeldBy(id)) <= Limit

\* A client that left gives its slot back, even one whose requests had ended long
\* before and whose filter lets nothing through: the ping timer sees to it.
SlotReturned ==
    \A c \in Calls : Held(c) /\ client[c] \in {"gone", "vanished"} ~> ~Held(c)
=============================================================================
