-------------------------- MODULE MCClientReconnect --------------------------
(***************************************************************************)
(* A client of a chain that finalizes one or two below the tip.  The       *)
(* retention is 2 * FinalityDepth + 2 heights, the least that repeats no   *)
(* update after one outage.  A filter is the set of kinds of events it     *)
(* lets through: all of them, or all but the finalized blocks.             *)
(***************************************************************************)
EXTENDS ClientReconnect

AllKinds == {{"accepted", "best", "finalized"}}

AllOrUnfinalized == AllKinds \union {{"accepted", "best"}}
=============================================================================
