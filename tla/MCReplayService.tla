--------------------------- MODULE MCReplayService ---------------------------
(***************************************************************************)
(* A window of four heights over a chain that finalizes two or three below *)
(* the tip: as in the default configuration (150 heights, finality near    *)
(* 100), the window is longer than the unfinalized chain and shorter than  *)
(* two of them.                                                            *)
(***************************************************************************)
EXTENDS ReplayService
=============================================================================
