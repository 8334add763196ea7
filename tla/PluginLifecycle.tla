--------------------------- MODULE PluginLifecycle ---------------------------
(***************************************************************************)
(* The plugin from on_load to on_unload and back (lib.rs), with the calls  *)
(* of the servers it starts.  on_load starts a server task with a tracker  *)
(* of its own; on_unload cancels the task's token and does not wait: the   *)
(* old server goes on until its last connection ends, and its streams see  *)
(* no end of events, for the broadcast sender lives in the plugin and not  *)
(* in the server.                                                          *)
(*                                                                         *)
(* tonic's server (external): it accepts calls until it sees the           *)
(* cancellation, then waits for the connections it has, with the handlers  *)
(* and the responses they carry; an error of its own ends it and leaves    *)
(* the connections to themselves.  The task of a stream is not its: it is  *)
(* spawned on its own, and outlives connection and server, with its slot,  *)
(* until it notices that its client has left.                              *)
(***************************************************************************)
EXTENDS SubscriptionTracker

CONSTANTS
    Servers,           \* bound: the servers on_load may start, 1 .. n
    Subscribers,       \* x-subscription-id, or the IP address
    Tokens,            \* values of x-token, NoToken among them
    ExpectedToken,     \* Config.x_token
    NoToken,           \* no x-token; Option::None of Config.x_token
    AnyPort,           \* port 0 in Config.listen_addr: the system picks a free one
    ParallelEncoding   \* Config.event_encoding_threads > 1

\* The trackers of two servers share no entry: an id is a subscriber's at one server (Ids
\* says who calls which).
ASSUME PluginAssumption ==
    /\ Servers \subseteq Nat \ {0}
    /\ Ids \subseteq Servers \X Subscribers
    /\ NoToken \in Tokens
    /\ AnyPort \in BOOLEAN /\ ParallelEncoding \in BOOLEAN

VARIABLES
    server,      \* self.server and self.shutdown, set and taken together: 0 or a server
    pool,        \* self.encoding_pool is there
    cancelled,   \* the servers whose token is cancelled
    task,        \* per server: "none", "starting", "serving", "draining" or "ended"
    listening    \* the servers whose listener is open

plugin == <<server, pool, cancelled, task, listening>>
allVars == <<plugin, vars>>

PluginInit ==
    /\ Init
    /\ server = 0
    /\ pool = FALSE
    /\ cancelled = {}
    /\ task = [s \in Servers |-> "none"]
    /\ listening = {}

OnServer(s) == {c \in Calls : Held(c) /\ owner[c][1] = s}

\* Those with a connection that lasts: a client that stays, or a handler still to be
\* dropped.
Staying(c) == client[c] \in {"open", "halfclosed"}

Carried(s) == {c \in OnServer(s) : call[c] = "waiting" \/ Staying(c)}

-----------------------------------------------------------------------------
(***************************************************************************)
(* The manager's calls, which have &mut self.  on_load is refused while    *)
(* self.server is there, even if that task has ended.                      *)
(***************************************************************************)

\* No pool, no runtime, no listener, no descriptors: the pool stays if it came to that.
LoadFails ==
    /\ server = 0
    /\ pool' \in {pool, ParallelEncoding}
    /\ UNCHANGED <<server, cancelled, task, listening, vars>>

Load(s) ==
    /\ server = 0
    /\ task[s] = "none" /\ \A r \in Servers : r < s => task[r] # "none"
    /\ AnyPort \/ listening = {}
    /\ pool' = ParallelEncoding
    /\ server' = s
    /\ task' = [task EXCEPT ![s] = "starting"]
    /\ listening' = listening \union {s}
    /\ UNCHANGED <<cancelled, vars>>

\* Mutant of Unload: the handle is dropped and nothing cancelled (a dropped JoinHandle
\* detaches its task).
UnloadDetaching ==
    /\ server # 0
    /\ server' = 0
    /\ UNCHANGED <<cancelled, pool, task, listening, vars>>

Unload ==
    /\ server # 0
    /\ cancelled' = cancelled \union {server}
    /\ server' = 0
    /\ UNCHANGED <<pool, task, listening, vars>>

-----------------------------------------------------------------------------
(***************************************************************************)
(* The server task.                                                        *)
(***************************************************************************)

\* Its first poll: mark_serving, then serve_with_incoming_shutdown.
Serve(s) ==
    /\ task[s] = "starting"
    /\ task' = [task EXCEPT ![s] = "serving"]
    /\ UNCHANGED <<server, pool, cancelled, listening, vars>>

\* It accepts no more, and may close its listener now or when it ends.
SeeShutdown(s) ==
    /\ task[s] = "serving" /\ s \in cancelled
    /\ task' = [task EXCEPT ![s] = "draining"]
    /\ listening' \in {listening, listening \ {s}}
    /\ UNCHANGED <<server, pool, cancelled, vars>>

\* Its connections are over; streams whose clients have left may still run.
Drained(s) ==
    /\ task[s] = "draining" /\ Carried(s) = {}
    /\ task' = [task EXCEPT ![s] = "ended"]
    /\ listening' = listening \ {s}
    /\ UNCHANGED <<server, pool, cancelled, vars>>

ServeFails(s) ==
    /\ task[s] = "serving"
    /\ task' = [task EXCEPT ![s] = "ended"]
    /\ listening' = listening \ {s}
    /\ UNCHANGED <<server, pool, cancelled, vars>>

-----------------------------------------------------------------------------
(***************************************************************************)
(* Calls.  Every one of the service is authorized first.                   *)
(***************************************************************************)
Authorized(token) == ExpectedToken = NoToken \/ token = ExpectedToken

\* subscribe: authorize, then the slot.  A refused call leaves no trace.
Subscribe(c) ==
    /\ \E s \in Servers, id \in Subscribers, token \in Tokens :
        /\ task[s] = "serving" /\ <<s, id>> \in Ids
        /\ Authorized(token)
        /\ Acquire(c, <<s, id>>)
    /\ UNCHANGED plugin

PluginNext ==
    \/ LoadFails
    \/ Unload
    \/ \E s \in Servers :
        Load(s) \/ Serve(s) \/ SeeShutdown(s) \/ Drained(s) \/ ServeFails(s)
    \/ \E c \in Calls : Subscribe(c)
    \/ \E c \in Calls : Continue(c) /\ UNCHANGED plugin

PluginSpec == PluginInit /\ [][PluginNext]_allVars

\* The runtime polls the server task, the handlers and the streams' tasks, and the ping
\* timers fire.  Clients and the manager need do nothing.
PluginFairSpec ==
    /\ PluginSpec
    /\ \A s \in Servers : WF_allVars(Serve(s)) /\ WF_allVars(SeeShutdown(s) \/ Drained(s))
    /\ \A c \in Calls : WF_allVars(Notice(c) /\ UNCHANGED plugin)

-----------------------------------------------------------------------------
\* No server is out of the plugin's reach: one that takes calls, or is about to, is the
\* one on_unload would stop, or has been told to stop; so no two take calls for good.
ServerInReach ==
    \A s \in Servers : task[s] \in {"starting", "serving"} => server = s \/ s \in cancelled

\* A server the plugin has let go of comes to its end, unless a client stays: it gives
\* up its address, and none of its streams' tasks, which it does not wait for, is left
\* with a slot.  It takes the cancellation, without which it would go on, and the ping
\* timers, without which a stream nothing is sent to would.
UnloadEnds ==
    \A s \in Servers :
        server # s /\ task[s] # "none" ~>
            \/ task[s] = "ended" /\ s \notin listening /\ OnServer(s) = {}
            \/ \E c \in OnServer(s) : Staying(c)
=============================================================================
