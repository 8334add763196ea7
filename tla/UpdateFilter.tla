---------------------------- MODULE UpdateFilter ----------------------------
(***************************************************************************)
(* Subscription filters (zakura-grpc-geyser/src/filter.rs): how a request  *)
(* is validated and compiled, and what a compiled filter lets through.     *)
(*                                                                         *)
(* An Option is a set of at most one value: is_none_or is \A over it and   *)
(* is_some_and is \E.  A repeated field is the set of its values.  A bit   *)
(* mask is the set of its bits.  A string is what parsing it can tell:     *)
(* an address has a kind and a hash, a transaction ID a hash and the way   *)
(* it is written.  "garbled" is text that does not parse.                  *)
(***************************************************************************)
EXTENDS Naturals, FiniteSets

CONSTANTS
    Limits,       \* FilterLimits
    ValidNames    \* filter names neither empty nor longer than max_name_bytes

EventTypes == {"block_accepted", "best_chain_changed", "block_finalized",
               "mempool_changed", "transaction", "utxo", "mempool_transaction"}

AddressLists == {"transparent_addresses", "include", "exclude", "required"}

Features == {"transparent", "sapling", "orchard"}

(* Limits.maximum has max_event_types and the length of each list,         *)
(* Limits.reject the reject list of each of them.                          *)
ASSUME LimitsAssumption ==
    /\ Limits.namedFilters \in Nat \ {0}
    /\ Limits.maximum \in [{"event_types", "transaction_ids"} \cup AddressLists -> Nat]
    /\ Limits.maximum["event_types"] # 0
    /\ Limits.allowAll \in BOOLEAN
    /\ \A id \in Limits.reject["transaction_ids"] : id.written \in {"lower", "upper"}
    /\ \A list \in AddressLists : \A a \in Limits.reject[list] :
        a.kind \in {"p2pkh", "p2sh", "tex"}

(* SubscribeRequestFilter::default()                                       *)
NoFilter ==
    [eventTypes |-> {}, minHeight |-> {}, ids |-> {},
     addresses |-> [list \in AddressLists |-> {}],
     coinbase |-> {}, version |-> {}, has |-> [f \in Features |-> {}], minValue |-> {},
     block |-> "unspecified", transaction |-> "unspecified"]

(* An address keeps no trace of a TEX encoding on the chain.               *)
CanonicalAddress(a) == IF a.kind = "tex" THEN [a EXCEPT !.kind = "p2pkh"] ELSE a

CanonicalId(id) == [id EXCEPT !.written = "lower"]

Canonical(list, values) ==
    IF list = "transaction_ids" THEN {CanonicalId(v) : v \in values}
    ELSE {CanonicalAddress(v) : v \in values}

Parses(list, v) ==
    IF list = "transaction_ids" THEN v.written \in {"lower", "upper"}
    ELSE v.kind \in {"p2pkh", "p2sh", "tex"}

(* Mutant: the reject list is compared as it is written.                   *)
RefusedListAsWritten(list, values) ==
    \/ Cardinality(values) > Limits.maximum[list]
    \/ \E v \in values : ~Parses(list, v) \/ v \in Limits.reject[list]

(* Mutant: text that is not an address is kept.                            *)
RefusedListUnparsed(list, values) ==
    \/ Cardinality(values) > Limits.maximum[list]
    \/ \E v \in Canonical(list, values) : v \in Canonical(list, Limits.reject[list])

RefusedList(list, values) ==
    \/ Cardinality(values) > Limits.maximum[list]
    \/ \E v \in values : ~Parses(list, v)
    \/ Canonical(list, values) \cap Canonical(list, Limits.reject[list]) # {}

BlockModes == {"unspecified", "full", "meta_only"}

TransactionModes == {"unspecified", "full", "meta_only", "raw_only", "transparent_only"}

(* What makes from_proto refuse one filter.                                *)
RefusedFilter(f) ==
    \/ Cardinality(f.eventTypes) > Limits.maximum["event_types"]
    \/ ~(f.eventTypes \subseteq EventTypes)
    \/ RefusedList("transaction_ids", f.ids)
    \/ \E list \in AddressLists : RefusedList(list, f.addresses[list])
    \/ f.block \notin BlockModes
    \/ f.transaction \notin TransactionModes

(* The parts of a transaction that a payload mode keeps.                   *)
PartsOf(mode) ==
    (IF mode \in {"unspecified", "full", "raw_only"} THEN {"raw"} ELSE {})
        \cup (IF mode \in {"unspecified", "full", "transparent_only"}
              THEN {"transparent"} ELSE {})

CompiledFilter(f) ==
    [kinds |-> f.eventTypes, minHeight |-> f.minHeight,
     ids |-> Canonical("transaction_ids", f.ids),
     include |-> Canonical("include", f.addresses["include"]
                                          \cup f.addresses["transparent_addresses"]),
     exclude |-> Canonical("exclude", f.addresses["exclude"]),
     required |-> Canonical("required", f.addresses["required"]),
     coinbase |-> f.coinbase, version |-> f.version, has |-> f.has, minValue |-> f.minValue,
     block |-> IF f.block = "meta_only" THEN {} ELSE {"raw"},
     transaction |-> PartsOf(f.transaction)]

(* The payload modes select nothing, so they do not make a filter full.    *)
IsEmptyFilter(f) == [f EXCEPT !.block = NoFilter.block,
                              !.transaction = NoFilter.transaction] = NoFilter

(* A request, for what filters are about: event_types and the named filters.*)
DefaultAll(request) == request.eventTypes = {} /\ DOMAIN request.filters = {}

LegacyFilter(request) == [NoFilter EXCEPT !.eventTypes = request.eventTypes]

(* What makes EventFilter::new refuse a request.                           *)
Refused(request) ==
    \/ Cardinality(DOMAIN request.filters) > Limits.namedFilters
    \/ DefaultAll(request) /\ ~Limits.allowAll
    \/ RefusedFilter(LegacyFilter(request))
    \/ \E name \in DOMAIN request.filters :
        \/ name \notin ValidNames
        \/ IsEmptyFilter(request.filters[name]) /\ ~Limits.allowAll
        \/ RefusedFilter(request.filters[name])

UsesAddresses(c) == c.include # {} \/ c.exclude # {} \/ c.required # {}

CompiledLegacy(request) ==
    IF request.eventTypes = {} THEN {} ELSE {CompiledFilter(LegacyFilter(request))}

CompiledNamed(request) ==
    [name \in DOMAIN request.filters |-> CompiledFilter(request.filters[name])]

(* Mutant: the addresses are collected if all filters need them.           *)
EventFilterIfAllNeed(request) ==
    [defaultAll |-> DefaultAll(request),
     legacy |-> CompiledLegacy(request),
     named |-> CompiledNamed(request),
     needsAddresses |->
        /\ \A c \in CompiledLegacy(request) : UsesAddresses(c)
        /\ \A n \in DOMAIN request.filters : UsesAddresses(CompiledNamed(request)[n])]

EventFilter(request) ==
    [defaultAll |-> DefaultAll(request),
     legacy |-> CompiledLegacy(request),
     named |-> CompiledNamed(request),
     needsAddresses |->
        \/ \E c \in CompiledLegacy(request) : UsesAddresses(c)
        \/ \E n \in DOMAIN request.filters : UsesAddresses(CompiledNamed(request)[n])]

(***************************************************************************)
(* Updates.  Transaction, mempool transaction and UTXO updates are about   *)
(* one transaction, the others are summaries.                              *)
(***************************************************************************)
IsTransaction(u) == u.type \in {"transaction", "mempool_transaction"}

BlockHeight(u) ==
    IF u.type \in {"mempool_changed", "mempool_transaction"} THEN {} ELSE {u.height}

TransactionIds(u) ==
    CASE IsTransaction(u) \/ u.type = "utxo" -> {u.id}
      [] u.type = "mempool_changed" -> u.ids
      [] u.type = "best_chain_changed" -> IF u.grow THEN u.ids ELSE {}
      [] OTHER -> {}

(* Mutant: only the outputs a UTXO update creates.                         *)
AddressesOfCreated(u) ==
    CASE IsTransaction(u) -> {u.inputs \cup u.outputs}
      [] u.type = "utxo" -> {u.created}
      [] OTHER -> {}

(* The decoded addresses: of previous outputs and of outputs.              *)
TransparentAddresses(u) ==
    CASE IsTransaction(u) -> {u.inputs \cup u.outputs}
      [] u.type = "utxo" -> {u.created \cup u.spent}
      [] OTHER -> {}

TransactionFacts(u) == IF IsTransaction(u) \/ u.type = "utxo" THEN {u.facts} ELSE {}

(* `collected` is the addresses of the context, none if no filter of the   *)
(* stream needs them or the update has none.                               *)
AddressesMatch(c, collected) ==
    UsesAddresses(c) =>
        \E addresses \in collected :
            /\ c.include # {} => c.include \cap addresses # {}
            /\ c.exclude \cap addresses = {}
            /\ c.required \subseteq addresses

UsesMetadata(c) ==
    c.coinbase # {} \/ c.version # {} \/ c.minValue # {} \/ \E f \in Features : c.has[f] # {}

MetadataMatch(c, u) ==
    UsesMetadata(c) =>
        \E facts \in TransactionFacts(u) :
            /\ \A expected \in c.coinbase : expected = facts.coinbase
            /\ \A expected \in c.version : expected = facts.version
            /\ \A f \in Features : \A expected \in c.has[f] : expected = (f \in facts.features)
            /\ \A minimum \in c.minValue :
                \E value \in facts.inputValue \cup {facts.outputValue} : value >= minimum

FilterMatches(c, u, collected) ==
    /\ c.kinds # {} => u.type \in c.kinds
    /\ \A minimum \in c.minHeight : \E height \in BlockHeight(u) : height >= minimum
    /\ c.ids # {} => c.ids \cap TransactionIds(u) # {}
    /\ AddressesMatch(c, collected)
    /\ MetadataMatch(c, u)

(* EventFilter::matched: None, or the names and the parts to send.         *)
Matched(filter, u) ==
    LET collected == IF filter.needsAddresses THEN TransparentAddresses(u) ELSE {}
        legacy == \E c \in filter.legacy : FilterMatches(c, u, collected)
        names == {n \in DOMAIN filter.named : FilterMatches(filter.named[n], u, collected)}
        all == filter.defaultAll \/ legacy
    IN  IF ~all /\ names = {} THEN {}
        ELSE {[names |-> names,
               block |-> IF all THEN {"raw"} ELSE UNION {filter.named[n].block : n \in names},
               transaction |-> IF all THEN PartsOf("full")
                               ELSE UNION {filter.named[n].transaction : n \in names}]}
=============================================================================
