--------------------------- MODULE MCGeyserServer ---------------------------
(***************************************************************************)
(* One stream: streams share nothing but the publisher's state, which none *)
(* of them changes (the eviction of a snapshot apart), and the mempool     *)
(* lock, which a stream takes and releases in one step.  A ring of three   *)
(* updates and a response channel of two: two events of two updates pass   *)
(* both (in the liveness runs, a single event does).                       *)
(***************************************************************************)
EXTENDS GeyserServer

Both == {"block", "mempool"}

Request(from, resume, snapshot, f) ==
    [fromHeight |-> from, resume |-> resume, snapshot |-> snapshot, filter |-> f]

\* Live only; replay; resume with the mempool; the mempool alone.
MCRequests ==
    {Request(0, FALSE, FALSE, Both), Request(1, FALSE, TRUE, Both),
     Request(1, TRUE, TRUE, Both), Request(0, FALSE, TRUE, {"mempool"})}

\* For the liveness runs and the refinement: live only; replay from a height that may be
\* the upper of two, the later of two or not there; resume with the mempool.
MCLiveRequests ==
    {Request(0, FALSE, FALSE, Both), Request(2, FALSE, FALSE, Both),
     Request(1, TRUE, TRUE, Both)}

MCFilters == {{"block"}, Both}
MCHeights == {1, 2}
=============================================================================
