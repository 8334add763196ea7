--------------------------- MODULE MCReplayWindow ---------------------------
(***************************************************************************)
(* A window of two heights, three updates and five bytes, for one second:  *)
(* each limit is reached on its own, and a batch of two updates or three   *)
(* bytes can take the place of several.                                    *)
(***************************************************************************)
EXTENDS ReplayWindow

MCHeights == 1 .. 3
MCBatchSizes == {1, 2}
MCByteSizes == {1, 3}
=============================================================================
