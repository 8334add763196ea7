-------------------------- MODULE MCPluginLifecycle --------------------------
(***************************************************************************)
(* A plugin that is loaded twice, and three calls with an enforced limit   *)
(* of two.  Two subscribers call the first server, so that one can reach   *)
(* the limit while the other is below it; one of them calls the second,    *)
(* while its streams at the first go on.                                   *)
(***************************************************************************)
EXTENDS PluginLifecycle

CONSTANTS a, b

TwoServers == {1, 2}
TwoSubscribers == {a, b}
TrackerIds == {<<1, a>>, <<1, b>>, <<2, a>>}
=============================================================================
