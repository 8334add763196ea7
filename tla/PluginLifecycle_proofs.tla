----------------------- MODULE PluginLifecycle_proofs -----------------------
(***************************************************************************)
(* Proofs about the plugin's life cycle, for any number of loads, calls    *)
(* and subscribers: each server's calls are those of a subscription        *)
(* tracker, and no server gets out of the plugin's reach.                  *)
(***************************************************************************)
EXTENDS PluginLifecycle, SubscriptionTracker_proofs

\* With the types of what on_load and on_unload look at, ServerInReach is inductive: a load
\* finds no server in the plugin's hands, so those that still take calls are cancelled.
PluginIInv ==
    /\ server \in Servers \union {0}
    /\ task \in [Servers -> {"none", "starting", "serving", "draining", "ended"}]
    /\ ServerInReach

\* A step of the plugin is a step of one call, or none of the tracker's.
LEMMA StepOfTracker == [PluginNext]_allVars => [Next]_vars
<1> SUFFICES ASSUME [PluginNext]_allVars PROVE [Next]_vars
  OBVIOUS
<1>1. CASE \E c \in Calls : Subscribe(c)
  <2>1. PICK c \in Calls, id \in Ids : Acquire(c, id)
    BY <1>1 DEF Subscribe
  <2> QED BY <2>1 DEF Next
<1>2. CASE \E c \in Calls : Continue(c)
  BY <1>2 DEF Next
<1>3. CASE LoadFails \/ Unload
  BY <1>3 DEF LoadFails, Unload
<1>4. ASSUME NEW s \in Servers,
             Load(s) \/ Serve(s) \/ SeeShutdown(s) \/ Drained(s) \/ ServeFails(s)
      PROVE  [Next]_vars
  BY <1>4 DEF Load, Serve, SeeShutdown, Drained, ServeFails
<1>5. CASE UNCHANGED allVars
  BY <1>5 DEF allVars
<1> QED BY <1>1, <1>2, <1>3, <1>4, <1>5 DEF PluginNext

\* The plugin implements the tracker, servers that come and go included.
THEOREM ImplementsTracker == PluginSpec => Spec
<1>1. PluginInit => Init
  BY DEF PluginInit
<1> QED BY <1>1, StepOfTracker, PTL DEF PluginSpec, Spec

\* A reload loses no slot and gives none twice: each server's counts are its guards.
THEOREM ReloadKeepsSlots == PluginSpec => [](TypeOK /\ SlotsCounted /\ LimitRespected)
<1>1. IInv => TypeOK /\ SlotsCounted /\ LimitRespected
  BY DEF IInv
<1> QED BY <1>1, ImplementsTracker, TrackerInvariant, PTL

\* Every step of the plugin and of its servers keeps it.
LEMMA PluginNextKeeps == PluginIInv /\ [PluginNext]_allVars => PluginIInv'
<1> SUFFICES ASSUME PluginIInv, [PluginNext]_allVars PROVE PluginIInv'
  OBVIOUS
<1> USE DEF PluginIInv, ServerInReach
<1>1. CASE UNCHANGED plugin
  BY <1>1 DEF plugin
<1>2. CASE LoadFails
  BY <1>2 DEF LoadFails
<1>3. CASE Unload
  BY <1>3 DEF Unload
<1>4. ASSUME NEW s \in Servers, Load(s) PROVE PluginIInv'
  <2>1. 0 \notin Servers
    BY PluginAssumption
  <2> QED BY <1>4, <2>1 DEF Load
<1>5. ASSUME NEW s \in Servers, Serve(s) PROVE PluginIInv'
  BY <1>5 DEF Serve
<1>6. ASSUME NEW s \in Servers, SeeShutdown(s) \/ Drained(s) \/ ServeFails(s) PROVE PluginIInv'
  BY <1>6 DEF SeeShutdown, Drained, ServeFails
<1> QED BY <1>1, <1>2, <1>3, <1>4, <1>5, <1>6 DEF PluginNext, Subscribe, allVars

\* on_unload can stop every server that still takes calls, or has told it to stop.
THEOREM ServersInReach == PluginSpec => []ServerInReach
<1>1. PluginInit => PluginIInv
  BY DEF PluginInit, PluginIInv, ServerInReach
<1>2. PluginIInv => ServerInReach
  BY DEF PluginIInv
<1> QED BY <1>1, <1>2, PluginNextKeeps, PTL DEF PluginSpec
=============================================================================
