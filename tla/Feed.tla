-------------------------------- MODULE Feed --------------------------------
(***************************************************************************)
(* What a Subscribe stream promises, whatever ring, channel, watermark or  *)
(* replay window is behind it: if its request names a height, a replay of  *)
(* all that is kept at that height and above, then every update published  *)
(* since, in order, none twice and none missing but for those the filter   *)
(* at that moment does not let through, until the stream ends.  What is    *)
(* kept is the same for every stream: it reaches back from the newest      *)
(* update, and only shrinks at its old end.  A stream that asked for a     *)
(* snapshot gets, of the kinds a snapshot stands for, what is later than   *)
(* the snapshot.                                                           *)
(*                                                                         *)
(* GeyserServer implements it (FeedImplemented); the connections of        *)
(* ClientReconnect are streams of this kind, one update to a bucket.       *)
(***************************************************************************)
EXTENDS Integers, Sequences

CONSTANTS
    Subscribers,
    Kinds,          \* kinds of updates, which filters are sets of
    Snapshotted,    \* those a snapshot stands for
    Requests,       \* what a stream may ask for: fromHeight, snapshot and filter
    NoHeight        \* fromHeight of a request without a replay

VARIABLES
    published,   \* every update there is: its kind and height (0: it has none)
    oldest,      \* those with a height are kept from this one on
    request,     \* per stream: what it asks for
    phase,       \* per stream: "none", "opening" (its snapshot to come), "open" or "ended"
    owed,        \* per stream: what of its replay is still to come
    position,    \* per stream: how far it has followed
    covered,     \* per stream: what its snapshot stands for
    filter,      \* per stream: the kinds it lets through
    given        \* per stream: the updates it was given

vars == <<published, oldest, request, phase, owed, position, covered, filter, given>>

Init ==
    /\ published = <<>>
    /\ oldest = 1
    /\ request \in [Subscribers -> Requests]
    /\ phase = [s \in Subscribers |-> "none"]
    /\ owed = [s \in Subscribers |-> {}]
    /\ position = [s \in Subscribers |-> 0]
    /\ covered = [s \in Subscribers |-> {}]
    /\ filter = [s \in Subscribers |-> request[s].filter]
    /\ given = [s \in Subscribers |-> {}]

Publish ==
    /\ Len(published) <= Len(published')
    /\ \A n \in DOMAIN published : published'[n] = published[n]
    /\ UNCHANGED <<oldest, request, phase, owed, position, covered, filter, given>>

\* Something old is kept no longer; it does not come back.
Forgets == oldest' \in oldest .. (Len(published) + 1)

Forget ==
    /\ Forgets
    /\ UNCHANGED <<published, request, phase, owed, position, covered, filter, given>>

\* From the point p on.  A replay is of all that is kept at its height or above, and is
\* given only if what is kept reaches down to that height.
Open(s) ==
    /\ phase[s] = "none"
    /\ Forgets
    /\ phase' = [phase EXCEPT ![s] = IF request[s].snapshot THEN "opening" ELSE "open"]
    /\ \E p \in 0 .. Len(published) :
        LET from == request[s].fromHeight IN
        /\ position' = [position EXCEPT ![s] = p]
        /\ IF from = NoHeight
           THEN UNCHANGED owed
           ELSE /\ \E n \in oldest' .. p : published[n].height \in 1 .. from
                /\ owed' = [owed EXCEPT ![s] =
                             {n \in oldest' .. p : published[n].height >= from}]
    /\ UNCHANGED <<published, request, covered, filter, given>>

TakeSnapshot(s) ==
    /\ phase[s] = "opening"
    /\ phase' = [phase EXCEPT ![s] = "open"]
    /\ covered' = [covered EXCEPT ![s] =
                    {n \in DOMAIN published : published[n].kind \in Snapshotted}]
    /\ UNCHANGED <<published, oldest, request, owed, position, filter, given>>

Wanted(s, n) == published[n].kind \in filter[s] /\ n \notin covered[s]

Pass(s, n) ==
    given' = [given EXCEPT ![s] = IF Wanted(s, n) THEN @ \union {n} ELSE @]

\* The replay comes first, in order.
Replay(s) ==
    /\ phase[s] = "open"
    /\ \E n \in owed[s] :
        /\ \A m \in owed[s] : n <= m
        /\ owed' = [owed EXCEPT ![s] = @ \ {n}]
        /\ Pass(s, n)
    /\ UNCHANGED <<published, oldest, request, phase, position, covered, filter>>

\* Then one update after the other.
Follow(s) ==
    /\ phase[s] = "open"
    /\ owed[s] = {} /\ position[s] < Len(published)
    /\ position' = [position EXCEPT ![s] = @ + 1]
    /\ Pass(s, position[s] + 1)
    /\ UNCHANGED <<published, oldest, request, phase, owed, covered, filter>>

\* Another filter takes effect between two updates, when the replay is over.
ReplaceFilter(s) ==
    /\ phase[s] = "open" /\ owed[s] = {}
    /\ \E f \in SUBSET Kinds : filter' = [filter EXCEPT ![s] = f]
    /\ UNCHANGED <<published, oldest, request, phase, owed, position, covered, given>>

\* It may end at any point, but goes on without a gap or not at all.
End(s) ==
    /\ phase[s] \in {"opening", "open"}
    /\ phase' = [phase EXCEPT ![s] = "ended"]
    /\ UNCHANGED <<published, oldest, request, owed, position, covered, filter, given>>

Next ==
    \/ Publish \/ Forget
    \/ \E s \in Subscribers :
        Open(s) \/ TakeSnapshot(s) \/ Replay(s) \/ Follow(s) \/ ReplaceFilter(s) \/ End(s)

Spec == Init /\ [][Next]_vars
=============================================================================
