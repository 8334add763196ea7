--------------------------- MODULE MCEventUpdates ---------------------------
(* Transactions, events, requests and limits for the model checking of     *)
(* EventUpdates.                                                           *)
EXTENDS EventUpdates

Address(kind, hash) == [kind |-> kind, hash |-> hash]

Paid == Address("p2pkh", "alice")
Script == Address("p2sh", "bob")
Banned == Address("p2pkh", "mallory")

Tx(hash, digest, coinbase, features, inputs, outputs) ==
    [hash |-> hash, digest |-> digest, version |-> IF digest THEN 5 ELSE 4,
     coinbase |-> coinbase, features |-> features, inputs |-> inputs, outputs |-> outputs,
     serializes |-> TRUE]

Spends(previous) == <<[coinbase |-> FALSE, previous |-> previous]>>
Pays(value, address) == <<[value |-> value, address |-> address]>>

Coinbase == Tx("coinbase", FALSE, TRUE, {"transparent"},
               <<[coinbase |-> TRUE, previous |-> {}]>>, Pays(5, {Script}))
Payment == Tx("payment", TRUE, FALSE, {"transparent"},
              Spends({[value |-> 4, address |-> {Script}]}), Pays(3, {Paid}))
Sweep == Tx("sweep", TRUE, FALSE, {"transparent", "orchard"},
            Spends({[value |-> 2, address |-> {Paid}]}) \o Spends({}), <<>>)
Shielded == Tx("shielded", TRUE, FALSE, {"orchard"}, <<>>, <<>>)
Broken == [Payment EXCEPT !.serializes = FALSE]

SourceEvent(kind, height, txs) ==
    [kind |-> kind, height |-> height, txs |-> txs, serializes |-> TRUE]

MCEvents ==
    {SourceEvent("block_accepted", 2, <<Coinbase, Payment>>),
     SourceEvent("block_accepted", 3, <<Coinbase, Broken>>),
     [SourceEvent("block_accepted", 3, <<Coinbase>>) EXCEPT !.serializes = FALSE],
     SourceEvent("block_finalized", 1, <<Coinbase, Sweep>>),
     SourceEvent("grow", 2, <<Coinbase, Payment>>),
     SourceEvent("added", 0, <<Shielded>>)}

Request(eventTypes, filters) == [eventTypes |-> eventTypes, filters |-> filters]
One(f) == [name \in {"one"} |-> f]
Two(f, g) == [name \in {"one", "two"} |-> IF name = "one" THEN f ELSE g]
Listed(list, values) == [NoFilter EXCEPT !.addresses[list] = values]

MCRequests ==
    {Request({}, <<>>),
     Request({"transaction", "block_accepted"},
             One([Listed("include", {Address("tex", "alice")}) EXCEPT !.eventTypes = {"utxo"}])),
     Request({}, Two([Listed("include", {Paid}) EXCEPT !.transaction = "raw_only"],
                     [NoFilter EXCEPT !.minValue = {4}, !.transaction = "transparent_only",
                                      !.block = "meta_only"])),
     Request({}, Two([NoFilter EXCEPT !.block = "meta_only", !.transaction = "meta_only"],
                     [NoFilter EXCEPT !.ids = {[hash |-> "payment", written |-> "upper"]},
                                      !.transaction = "raw_only"])),
     Request({}, Two([Listed("required", {Paid, Script}) EXCEPT !.has["orchard"] = {FALSE}],
                     [Listed("exclude", {Address("tex", "alice")}) EXCEPT
                         !.minHeight = {2}, !.version = {4}, !.coinbase = {TRUE}])),
     Request({"utxo"}, One(Listed("transparent_addresses", {Address("tex", "mallory")}))),
     Request({}, One(Listed("exclude", {Address("garbled", "alice")})))}

MCLimits ==
    [namedFilters |-> 2, allowAll |-> TRUE,
     maximum |-> [list \in {"event_types", "transaction_ids"} \cup AddressLists |-> 2],
     reject |-> [list \in {"transaction_ids"} \cup AddressLists |->
                    IF list = "transparent_addresses" THEN {Banned} ELSE {}]]

StreamSymmetry == Permutations(Streams)
=============================================================================
