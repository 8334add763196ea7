---------------------------- MODULE EventUpdates ----------------------------
(***************************************************************************)
(* From a node's event to what a subscriber is given of it: the updates    *)
(* an event is encoded into (zakura-grpc-geyser/src/event.rs), possibly by *)
(* a pool of threads, and each stream's copy of an update, chosen by its   *)
(* filter and projected to what it asked for (send_filtered and            *)
(* PublishedUpdate::payload in server.rs).  Streams share the projections  *)
(* of an update.  How updates get to the streams is GeyserServer's         *)
(* subject: here a stream goes through all of them, in order.              *)
(*                                                                         *)
(* A transaction of an event has the previous outputs the event came with: *)
(* an input's `previous` is empty when the event does not have it.  Sums   *)
(* of values stay below the supply, so checked_add never fails.            *)
(***************************************************************************)
EXTENDS UpdateFilter, SequencesExt

CONSTANTS
    Streams,                     \* subscriptions
    Events,                      \* events the node may produce
    Requests,                    \* requests a stream may send
    TransactionUpdates,          \* Config.transaction_updates
    UtxoUpdates,                 \* Config.utxo_updates
    MempoolTransactionUpdates,   \* Config.mempool_transaction_updates
    EncodingThreads,             \* Config.event_encoding_threads
    ParallelMinimum,             \* Config.parallel_encoding_min_transactions
    MaxEvents,                   \* bound: events
    MaxChanges                   \* bound: filter replacements, all streams together

ASSUME UpdatesAssumption ==
    /\ EncodingThreads \in Nat \ {0}
    /\ ParallelMinimum \in Nat \ {0}
    /\ MaxEvents \in Nat /\ MaxChanges \in Nat

(* The transactions of an event are a sequence, in the order of its block. *)
ASSUME EventsAssumption ==
    \A e \in Events : Len(e.txs) \in Nat /\ DOMAIN e.txs = 1..Len(e.txs)

(* A request has the fields of its message, whatever is in them.           *)
ASSUME RequestsAssumption ==
    \A request \in Requests :
        /\ DOMAIN request = {"eventTypes", "filters"}
        /\ \A n \in DOMAIN request.filters :
            LET f == request.filters[n]
            IN  /\ DOMAIN f = DOMAIN NoFilter
                /\ f.addresses = [list \in AddressLists |-> f.addresses[list]]
                /\ \A id \in f.ids : DOMAIN id = {"hash", "written"}
                /\ \A list \in AddressLists : \A a \in f.addresses[list] :
                    DOMAIN a = {"kind", "hash"}

VARIABLES
    history,    \* the events so far; the last may still be encoded
    encoding,   \* on_event is in encode_event
    finished,   \* its transactions encoded so far, in the order they were finished
    updates,    \* what was published
    cache,      \* per update: the projections made so far
    state,      \* per stream: "none", "open" or "refused"
    asked,      \* per stream: the request it follows, or was refused
    filter,     \* per stream: the compiled filter
    position,   \* per stream: how many updates it went through
    last,       \* per stream: what became of the last one under this filter
    changes     \* filter replacements so far

encoder == <<history, encoding, finished>>
stream == <<state, asked, filter, position, last>>
vars == <<encoder, updates, cache, stream, changes>>

Nobody == [eventTypes |-> {}, filters |-> <<>>]

Unseen == [update |-> 0, sent |-> {}]

Init ==
    /\ history = <<>>
    /\ encoding = FALSE
    /\ finished = <<>>
    /\ updates = <<>>
    /\ cache = <<>>
    /\ state = [s \in Streams |-> "none"]
    /\ asked = [s \in Streams |-> Nobody]
    /\ filter = [s \in Streams |-> EventFilter(Nobody)]
    /\ position = [s \in Streams |-> 0]
    /\ last = [s \in Streams |-> Unseen]
    /\ changes = 0
-----------------------------------------------------------------------------
(***************************************************************************)
(* Encoding.                                                               *)
(***************************************************************************)
IsBlock(e) == e.kind \in {"block_accepted", "block_finalized"}

IsBestChain(e) == e.kind \in {"grow", "reset"}

MinedId(tx) == [hash |-> tx.hash, written |-> "lower"]

(* A transaction without an auth digest has its mined ID.                  *)
UnminedId(tx) ==
    IF tx.digest THEN [hash |-> tx.hash, written |-> "unmined"] ELSE MinedId(tx)

Summary(e, n) ==
    CASE IsBlock(e) ->
            [type |-> e.kind, event |-> n, index |-> 0, height |-> e.height,
             parts |-> {"raw"}]
      [] IsBestChain(e) ->
            [type |-> "best_chain_changed", event |-> n, index |-> 0, height |-> e.height,
             grow |-> e.kind = "grow", ids |-> {MinedId(tx) : tx \in Range(e.txs)},
             parts |-> {}]
      [] OTHER ->
            [type |-> "mempool_changed", event |-> n, index |-> 0,
             ids |-> {UnminedId(tx) : tx \in Range(e.txs)}, parts |-> {}]

(* previous_value_zat; a coinbase input counts as 0.                       *)
InputValue(input) == IF input.coinbase THEN {0} ELSE {p.value : p \in input.previous}

(* One unknown previous output makes the total unknown.                    *)
InputTotal(tx) ==
    IF \E i \in DOMAIN tx.inputs : InputValue(tx.inputs[i]) = {} THEN {}
    ELSE {SumFunction([i \in DOMAIN tx.inputs |->
                          CHOOSE v \in InputValue(tx.inputs[i]) : TRUE])}

OutputTotal(tx) == SumFunction([i \in DOMAIN tx.outputs |-> tx.outputs[i].value])

PreviousAddresses(tx) == UNION {UNION {p.address : p \in i.previous} : i \in Range(tx.inputs)}

OutputAddresses(tx) == UNION {o.address : o \in Range(tx.outputs)}

Facts(tx) ==
    [coinbase |-> tx.coinbase, version |-> tx.version, features |-> tx.features,
     inputValue |-> InputTotal(tx), outputValue |-> OutputTotal(tx)]

TransactionUpdate(e, n, k) ==
    LET tx == e.txs[k]
    IN  [type |-> IF IsBlock(e) THEN "transaction" ELSE "mempool_transaction",
         event |-> n, index |-> k, height |-> e.height, id |-> MinedId(tx),
         inputs |-> PreviousAddresses(tx), outputs |-> OutputAddresses(tx),
         facts |-> Facts(tx), parts |-> {"raw", "transparent"}]

UtxoUpdate(e, n, k) ==
    LET tx == e.txs[k]
    IN  [type |-> "utxo", event |-> n, index |-> k, height |-> e.height,
         id |-> MinedId(tx), spent |-> PreviousAddresses(tx),
         created |-> OutputAddresses(tx), facts |-> Facts(tx), parts |-> {}]

ChangesUtxos(tx) == tx.outputs # <<>> \/ \E i \in Range(tx.inputs) : ~i.coinbase

(* The updates of the k-th transaction of the n-th event.                  *)
TransactionUpdatesOf(e, n, k) ==
    (IF IsBlock(e) => TransactionUpdates THEN <<TransactionUpdate(e, n, k)>> ELSE <<>>)
        \o (IF IsBlock(e) /\ UtxoUpdates /\ ChangesUtxos(e.txs[k])
            THEN <<UtxoUpdate(e, n, k)>> ELSE <<>>)

(* The transactions of an event that get updates of their own.             *)
ToEncode(e) ==
    IF \/ IsBlock(e) /\ (TransactionUpdates \/ UtxoUpdates)
       \/ e.kind = "added" /\ MempoolTransactionUpdates
    THEN DOMAIN e.txs ELSE {}

(* A transaction is only serialized for an update that carries its bytes.  *)
FailsToEncode(e, k) ==
    ~e.txs[k].serializes /\ (IsBlock(e) => TransactionUpdates)

InParallel(e) == EncodingThreads > 1 /\ Len(e.txs) >= ParallelMinimum

Current == Len(history)

Event == history[Current]

(* on_event: the summary comes first, and is the first that can fail.      *)
OnEvent ==
    /\ ~encoding
    /\ Current < MaxEvents
    /\ \E e \in Events :
        /\ history' = Append(history, e)
        /\ encoding' = (IsBlock(e) => e.serializes)
    /\ finished' = <<>>
    /\ UNCHANGED <<updates, cache, stream, changes>>

(* One transaction is encoded: the next one, or with the pool any one.  An *)
(* error is the end of encode_event: on_event publishes nothing.           *)
EncodeTransaction ==
    /\ encoding
    /\ \E k \in ToEncode(Event) \ Range(finished) :
        /\ ~InParallel(Event) => k = Len(finished) + 1
        /\ encoding' = ~FailsToEncode(Event, k)
        /\ finished' = IF FailsToEncode(Event, k) THEN <<>> ELSE Append(finished, k)
    /\ UNCHANGED <<history, updates, cache, stream, changes>>

(* Mutant: the results are taken as the pool finishes them.                *)
CollectedAsFinished ==
    <<Summary(Event, Current)>>
        \o FlattenSeq([i \in DOMAIN finished |->
                          TransactionUpdatesOf(Event, Current, finished[i])])

(* collect() has the results in the order of the transactions.             *)
Collected ==
    <<Summary(Event, Current)>>
        \o FlattenSeq([k \in 1..Len(finished) |-> TransactionUpdatesOf(Event, Current, k)])

Publish ==
    /\ encoding
    /\ Range(finished) = ToEncode(Event)
    /\ encoding' = FALSE
    /\ finished' = <<>>
    /\ updates' = updates \o Collected
    /\ cache' = cache \o [i \in DOMAIN Collected |-> {}]
    /\ UNCHANGED <<history, stream, changes>>
-----------------------------------------------------------------------------
(***************************************************************************)
(* Streams.                                                                *)
(***************************************************************************)
Follow(s, request) ==
    /\ asked' = [asked EXCEPT ![s] = request]
    /\ last' = [last EXCEPT ![s] = Unseen]
    /\ state' = [state EXCEPT ![s] = IF Refused(request) THEN "refused" ELSE "open"]
    /\ filter' = IF Refused(request) THEN filter
                 ELSE [filter EXCEPT ![s] = EventFilter(request)]
    /\ UNCHANGED <<encoder, updates, cache, position>>

(* The first request; a refused one ends the call.                         *)
Subscribe(s) ==
    /\ state[s] = "none"
    /\ \E request \in Requests : Follow(s, request)
    /\ UNCHANGED changes

(* A later request without a ping; a refused one ends the stream.          *)
ReplaceFilter(s) ==
    /\ state[s] = "open"
    /\ changes < MaxChanges
    /\ \E request \in Requests : Follow(s, request)
    /\ changes' = changes + 1

(* What is kept of an update for a match.                                  *)
PartsFor(u, match) ==
    CASE IsTransaction(u) -> u.parts \cap match.transaction
      [] u.type \in {"block_accepted", "block_finalized"} -> u.parts \cap match.block
      [] OTHER -> u.parts

(* Mutant: one cell for all projections of an update.                      *)
CellShared(parts) == "projection"

(* The cell of PayloadProjectionCache that holds a projection.             *)
Cell(parts) == parts

(* PublishedUpdate::payload: the whole update, or a projection made once.  *)
Payload(n, parts) ==
    IF parts = updates[n].parts THEN parts
    ELSE IF \E made \in cache[n] : made.cell = Cell(parts)
    THEN (CHOOSE made \in cache[n] : made.cell = Cell(parts)).parts
    ELSE parts

Made(n, parts) ==
    IF parts = updates[n].parts \/ \E made \in cache[n] : made.cell = Cell(parts)
    THEN cache[n]
    ELSE cache[n] \cup {[cell |-> Cell(parts), parts |-> parts]}

(* send_filtered, with the room it waits for.                              *)
SendFiltered(s) ==
    LET n == position[s] + 1
        matches == Matched(filter[s], updates[n])
        messages == {[names |-> match.names,
                      parts |-> Payload(n, PartsFor(updates[n], match))] : match \in matches}
    IN  /\ state[s] = "open"
        /\ position[s] < Len(updates)
        /\ position' = [position EXCEPT ![s] = n]
        /\ last' = [last EXCEPT ![s] = [update |-> n, sent |-> messages]]
        /\ cache' = [cache EXCEPT ![n] =
                        @ \cup UNION {Made(n, PartsFor(updates[n], match)) : match \in matches}]
        /\ UNCHANGED <<encoder, updates, state, asked, filter, changes>>

Next ==
    \/ OnEvent \/ EncodeTransaction \/ Publish
    \/ \E s \in Streams : Subscribe(s) \/ ReplaceFilter(s) \/ SendFiltered(s)

Spec == Init /\ [][Next]_vars
-----------------------------------------------------------------------------
(***************************************************************************)
(* Properties.                                                             *)
(***************************************************************************)
Messages == [names : SUBSET ValidNames, parts : SUBSET {"raw", "transparent"}]

Filters(s) == filter[s].legacy \cup Range(filter[s].named)

(* The type invariant.  A stream that is open has a filter in which all    *)
(* text was parsed and no TEX address is left, whatever was requested      *)
(* (CompiledFilter::from_proto).                                           *)
TypeOK ==
    /\ history \in Seq(Events) /\ Current <= MaxEvents
    /\ encoding \in BOOLEAN
    /\ Len(finished) = Cardinality(Range(finished))
    /\ finished # <<>> => Range(finished) \subseteq ToEncode(Event)
    /\ DOMAIN cache = DOMAIN updates
    /\ \A n \in DOMAIN updates : \A made \in cache[n] : made.parts \subseteq updates[n].parts
    /\ changes \in 0..MaxChanges
    /\ \A s \in Streams :
        /\ state[s] \in {"none", "open", "refused"}
        /\ position[s] \in 0..Len(updates)
        /\ last[s].update \in {0, position[s]}
        /\ last[s].sent \subseteq Messages /\ Cardinality(last[s].sent) <= 1
        /\ \A c \in Filters(s) :
            /\ c.kinds \subseteq EventTypes
            /\ \A id \in c.ids : id.written = "lower"
            /\ \A a \in c.include \cup c.exclude \cup c.required : a.kind \in {"p2pkh", "p2sh"}

(* An event is published whole and in the order of its transactions, or    *)
(* not at all, whichever threads encode it and whichever of them fails:    *)
(* its summary, then for each transaction its transaction update and its   *)
(* UTXO update (append_block_updates, append_mempool_transaction_updates). *)
UpdatesWhole ==
    LET Place(u) == 2 * u.index + (IF u.type = "utxo" THEN 1 ELSE 0)
        Of(n) == {i \in DOMAIN updates : updates[i].event = n}
        Fails(e) ==
            \/ IsBlock(e) /\ ~e.serializes
            \/ \E k \in ToEncode(e) : FailsToEncode(e, k)
    IN  /\ \A i \in 2..Len(updates) : updates[i - 1].event <= updates[i].event
        /\ \A n \in DOMAIN history :
            \/ Of(n) = {} /\ (Fails(history[n]) \/ (n = Current /\ encoding))
            \/ /\ ~Fails(history[n])
               /\ \A i, j \in Of(n) : i < j => Place(updates[i]) < Place(updates[j])
               /\ {updates[i].index : i \in Of(n)} =
                    {0} \cup {k \in ToEncode(history[n]) :
                                TransactionUpdatesOf(history[n], n, k) # <<>>}

(* The named filters of a request do not influence each other: a stream is *)
(* given an update if, and under the names for which, the filter would be  *)
(* given it as the only one of a request (EventFilter::matched with its    *)
(* shared UpdateContext).                                                  *)
EachFilterForItself ==
    LET Alone(s, name) ==
            [eventTypes |-> {}, filters |-> [n \in {name} |-> asked[s].filters[name]]]
    IN  \A s \in Streams : last[s].update # 0 =>
            LET u == updates[last[s].update]
                names == {n \in DOMAIN asked[s].filters :
                            Matched(EventFilter(Alone(s, n)), u) # {}}
            IN  /\ last[s].sent # {} <=>
                    DefaultAll(asked[s]) \/ u.type \in asked[s].eventTypes \/ names # {}
                /\ \A message \in last[s].sent : message.names = names

(* A message has of its update exactly what the request asks for: the      *)
(* union of what the filters that matched ask for, and everything if the   *)
(* unnamed filter matched, whatever other streams asked of the same update *)
(* before (PayloadProjectionCache, richest_transaction_payload).           *)
PayloadAsAsked ==
    LET Unnamed(s, u) == DefaultAll(asked[s]) \/ u.type \in asked[s].eventTypes
        Keeps(f, u) ==
            CASE IsTransaction(u) ->
                    CASE f.transaction = "raw_only" -> {"raw"}
                      [] f.transaction = "transparent_only" -> {"transparent"}
                      [] f.transaction = "meta_only" -> {}
                      [] OTHER -> {"raw", "transparent"}
              [] u.type \in {"block_accepted", "block_finalized"} ->
                    IF f.block = "meta_only" THEN {} ELSE {"raw"}
              [] OTHER -> {}
    IN  \A s \in Streams : \A message \in last[s].sent :
            LET u == updates[last[s].update]
            IN  message.parts =
                    IF Unnamed(s, u) THEN u.parts
                    ELSE UNION {Keeps(asked[s].filters[n], u) : n \in message.names}

(* A named filter that does not choose between event types is given a      *)
(* transaction if and only if it is given its UTXO changes: the two        *)
(* updates carry the same IDs, addresses and facts, decoded twice          *)
(* (encode_transaction_updates, update_transparent_addresses).             *)
TransactionWithItsUtxos ==
    LET AnyType(f) == [f EXCEPT !.named = [n \in DOMAIN @ |-> [@[n] EXCEPT !.kinds = {}]]]
        Names(f, u) == UNION {match.names : match \in Matched(AnyType(f), u)}
    IN  \A s \in Streams :
            LET j == last[s].update
                i == j - 1
            IN  (j > 1 /\ updates[j].type = "utxo" /\ updates[i].type = "transaction")
                    => /\ updates[i].event = updates[j].event
                       /\ updates[i].index = updates[j].index
                       /\ Names(filter[s], updates[i]) = Names(filter[s], updates[j])

(* How a client writes an address or an ID does not matter: a request      *)
(* written in the canonical notation is refused, or let through the same   *)
(* updates, as the request itself (canonical_transparent_address_string,   *)
(* on the reject lists as well as on the request).  A list is a set here,  *)
(* so the requests must not have one value in two notations in one list    *)
(* (NoneTwice in the proofs): rewritten, it would be a shorter one, where  *)
(* the code's stays as long.                                               *)
NotationDoesNotMatter ==
    LET Rewritten(f) ==
            [f EXCEPT !.ids = Canonical("transaction_ids", @),
                      !.addresses = [list \in AddressLists |-> Canonical(list, @[list])]]
        Canonically(request) ==
            [request EXCEPT !.filters = [n \in DOMAIN @ |-> Rewritten(@[n])]]
        Parsed(request) ==
            \A f \in Range(request.filters) :
                /\ \A id \in f.ids : Parses("transaction_ids", id)
                /\ \A list \in AddressLists : \A a \in f.addresses[list] : Parses(list, a)
    IN  \A s \in Streams : Parsed(asked[s]) =>
            /\ state[s] # "none" => (state[s] = "refused" <=> Refused(Canonically(asked[s])))
            /\ last[s].update # 0 =>
                LET u == updates[last[s].update]
                IN  Matched(EventFilter(Canonically(asked[s])), u) = Matched(filter[s], u)
=============================================================================
