-------------------------- MODULE EventUpdates_proofs --------------------------
(***************************************************************************)
(* Proofs about how events are encoded and what subscribers are given of   *)
(* the updates, for all requests, limits, events, threads and streams.     *)
(*                                                                         *)
(* Three inductive invariants carry the theorems.                          *)
(*  - UpdatesIInv ties what a stream was sent of an update to its request: *)
(*    a stream that is open has the compiled form of a request that was    *)
(*    not refused, and what was sent is what this filter matches, with the *)
(*    parts it asks for, whatever the cells held.                          *)
(*  - WholeInv is about encoding: which transactions of an event were      *)
(*    encoded says what will be published of it, and what was published is *)
(*    in order and all there, event by event.                              *)
(*  - SoundInv adds where filters come from: requests that were not        *)
(*    refused, hence text that was parsed.                                 *)
(* What encode_event collects is a FlattenSeq, a definition by recursion:  *)
(* FlattenedThrough carries a property from its parts to the whole.        *)
(***************************************************************************)
EXTENDS EventUpdates, FiniteSetTheorems, TLAPS, WellFoundedInduction

IsSequence(s) == \E S : s \in Seq(S)

\* The least of a set of indexes: the step from the one before it is what fails.
LEMMA LeastIndex ==
    ASSUME NEW n \in Nat, NEW T \in SUBSET (1..n), T # {}
    PROVE  \E m \in T : m # 1 => m - 1 \in 1..n /\ m - 1 \notin T
<1>1. T \in SUBSET Nat
  OBVIOUS
<1>2. PICK m \in T : \A i \in T : ~(<<i, m>> \in OpToRel(<, Nat))
  BY <1>1, NatLessThanWellFounded, WFMin
<1>3. \A i \in T : ~(i < m)
  BY <1>1, <1>2 DEF OpToRel
<1> QED
  BY <1>3

\* Appending sequences gives a sequence that begins with the first of them.
LEMMA Concatenation ==
    ASSUME NEW s, NEW t, IsSequence(s), IsSequence(t)
    PROVE  /\ IsSequence(s \o t)
           /\ Len(s) \in Nat /\ Len(t) \in Nat
           /\ Len(s \o t) = Len(s) + Len(t)
           /\ DOMAIN s = 1..Len(s) /\ DOMAIN (s \o t) = 1..(Len(s) + Len(t))
           /\ \A i \in 1..Len(s) : (s \o t)[i] = s[i]
           /\ \A i \in (Len(s) + 1)..(Len(s) + Len(t)) : (s \o t)[i] = t[i - Len(s)]
<1>1. PICK S : s \in Seq(S)
  BY DEF IsSequence
<1>2. PICK T : t \in Seq(T)
  BY DEF IsSequence
<1>3. s \in Seq(S \cup T) /\ t \in Seq(S \cup T)
  <2>1. s \in [1..Len(s) -> S] /\ Len(s) \in Nat
    BY <1>1
  <2>2. t \in [1..Len(t) -> T] /\ Len(t) \in Nat
    BY <1>2
  <2>3. s \in [1..Len(s) -> S \cup T]
    BY <2>1
  <2>4. t \in [1..Len(t) -> S \cup T]
    BY <2>2
  <2> QED
    BY <2>1, <2>2, <2>3, <2>4
<1>4. s \o t \in Seq(S \cup T)
  BY <1>3
<1> QED
  BY <1>3, <1>4 DEF IsSequence

LEMMA JoinedTyped ==
    ASSUME NEW S, NEW s \in Seq(S), NEW t \in Seq(S)
    PROVE  s \o t \in Seq(S)
OBVIOUS

\* FlattenSeq joins sequences one after the other: what each keeps that is joined to
\* what came before it, the whole has.
LEMMA FlattenedThrough ==
    ASSUME NEW S, NEW n \in Nat, NEW x \in [1..n -> Seq(S)],
           NEW P, P[0] = {<<>>}, \A k \in 1..n : P[k] \subseteq Seq(S),
           \A k \in 1..n : \A s \in P[k - 1] : s \o x[k] \in P[k]
    PROVE  FlattenSeq(x) \in P[n]
<1> DEFINE Step(f, i) == IF i = 1 THEN x[i] ELSE f[i - 1] \o x[i]
           Flattens(f, m) == f = [i \in 1..m |-> Step(f, i)]
<1>1. x \in Seq(Seq(S)) /\ Len(x) = n
  OBVIOUS
<1>2. CASE n = 0
  <2>1. FlattenSeq(x) = <<>>
    BY <1>1, <1>2 DEF FlattenSeq
  <2> QED
    BY <1>2, <2>1
<1>3. CASE n # 0
  <2>1. \A m \in 1..n : \E f : Flattens(f, m)
    <3> DEFINE T == {m \in 1..n : ~\E f : Flattens(f, m)}
    <3>1. SUFFICES ASSUME T # {} PROVE FALSE
      OBVIOUS
    <3>2. PICK m \in T : m # 1 => m - 1 \in 1..n /\ m - 1 \notin T
      <4> HIDE DEF Flattens
      <4>1. T \in SUBSET (1..n)
        OBVIOUS
      <4> HIDE DEF T
      <4> QED
        BY <3>1, <4>1, LeastIndex
    <3>3. CASE m = 1
      <4>1. Flattens([i \in 1..1 |-> x[1]], 1)
        OBVIOUS
      <4> QED
        BY <3>2, <3>3, <4>1
    <3>4. CASE m # 1
      <4>1. m - 1 \in 1..n /\ m - 1 < m
        BY <3>2, <3>4
      <4>2. PICK g : Flattens(g, m - 1)
        <5> HIDE DEF Flattens
        <5> QED
          BY <3>2, <4>1
      <4> DEFINE h == [i \in 1..m |-> IF i = m THEN g[m - 1] \o x[m] ELSE g[i]]
      <4>3. \A i \in 1..m : h[i] = Step(h, i)
        <5>1. TAKE i \in 1..m
        <5>2. CASE i = m
          <6>1. h[m] = g[m - 1] \o x[m] /\ h[m - 1] = g[m - 1]
            BY <4>1
          <6> QED
            BY <5>2, <6>1, <3>4
        <5>3. CASE i # m
          <6>1. h[i] = g[i] /\ i \in 1..(m - 1)
            BY <5>3, <4>1
          <6>2. g[i] = Step(g, i)
            BY <6>1, <4>2
          <6>3. i # 1 => h[i - 1] = g[i - 1]
            BY <5>3, <4>1
          <6> QED
            BY <6>1, <6>2, <6>3
        <5> QED
          BY <5>2, <5>3
      <4>4. Flattens(h, m)
        BY <4>3
      <4> QED
        BY <4>4, <3>2
    <3> QED
      BY <3>3, <3>4
  <2>2. Flattens(CHOOSE f : Flattens(f, n), n)
    <3> HIDE DEF Flattens
    <3>1. n \in 1..n
      BY <1>3
    <3> QED
      BY <3>1, <2>1, Zenon
  <2> DEFINE f == CHOOSE f : Flattens(f, n)
  <2>3. FlattenSeq(x) = f[n]
    BY <1>1, <1>3 DEF FlattenSeq
  <2> HIDE DEF f
  <2>4. Flattens(f, n)
    BY <2>2 DEF f
  <2>5. \A i \in 1..n : f[i] \in P[i]
    <3> DEFINE T == {i \in 1..n : f[i] \notin P[i]}
    <3>1. SUFFICES ASSUME T # {} PROVE FALSE
      OBVIOUS
    <3>2. PICK m \in T : m # 1 => m - 1 \in 1..n /\ m - 1 \notin T
      <4>1. T \in SUBSET (1..n)
        OBVIOUS
      <4> HIDE DEF T
      <4> QED
        BY <3>1, <4>1, LeastIndex
    <3>3. f[m] = Step(f, m) /\ x[m] \in Seq(S) /\ m \in 1..n
      BY <3>2, <2>4
    <3>4. m # 1 => f[m - 1] \in P[m - 1]
      BY <3>2
    <3>5. CASE m = 1
      <4>1. <<>> \o x[1] \in P[1]
        <5>1. 1 \in 1..n /\ 1 - 1 = 0
          BY <3>3, <3>5
        <5>2. <<>> \in P[1 - 1]
          BY <5>1
        <5> QED
          BY <5>1, <5>2
      <4>2. <<>> \o x[1] = x[1]
        BY <3>3, <3>5
      <4> QED
        BY <3>2, <3>3, <3>5, <4>1, <4>2
    <3>6. CASE m # 1
      <4>1. f[m] = f[m - 1] \o x[m]
        BY <3>3, <3>6
      <4>2. f[m - 1] \o x[m] \in P[m]
        BY <3>3, <3>4, <3>6
      <4> QED
        BY <3>2, <4>1, <4>2
    <3> QED
      BY <3>5, <3>6
  <2> QED
    BY <2>3, <2>5, <1>3
<1> QED
  BY <1>2, <1>3

-----------------------------------------------------------------------------
(***************************************************************************)
(* What an event is encoded into.                                          *)
(***************************************************************************)
\* An update has the parts its type has to offer.
WellMade(u) ==
    u.parts = IF IsTransaction(u) THEN {"raw", "transparent"}
              ELSE IF u.type \in {"block_accepted", "block_finalized"} THEN {"raw"} ELSE {}

LEMMA SummaryWellMade ==
    ASSUME NEW e, NEW n
    PROVE  WellMade(Summary(e, n))
BY DEF WellMade, Summary, IsBlock, IsBestChain, IsTransaction

LEMMA TransactionWellMade ==
    ASSUME NEW e, NEW n, NEW k
    PROVE  WellMade(TransactionUpdate(e, n, k))
<1> DEFINE u == TransactionUpdate(e, n, k)
<1>1. u.type \in {"transaction", "mempool_transaction"} /\ u.parts = {"raw", "transparent"}
  BY DEF TransactionUpdate
<1> QED
  BY <1>1 DEF WellMade, IsTransaction

LEMMA UtxoWellMade ==
    ASSUME NEW e, NEW n, NEW k
    PROVE  WellMade(UtxoUpdate(e, n, k))
<1> DEFINE u == UtxoUpdate(e, n, k)
<1>1. u.type = "utxo" /\ u.parts = {}
  BY DEF UtxoUpdate
<1> QED
  BY <1>1 DEF WellMade, IsTransaction

\* The place of an update among those of its event: the summary, then for each
\* transaction its own update and its UTXO update.
Place(u) == 2 * u.index + (IF u.type = "utxo" THEN 1 ELSE 0)

InPlace(s) == \A i, j \in DOMAIN s : i < j => Place(s[i]) < Place(s[j])

\* The updates of some of an event's transactions.
EncodedInto(e, n, K) ==
    {TransactionUpdate(e, n, k) : k \in {i \in K : IsBlock(e) => TransactionUpdates}}
        \cup {UtxoUpdate(e, n, k) :
                k \in {i \in K : IsBlock(e) /\ UtxoUpdates /\ ChangesUtxos(e.txs[i])}}

LEMMA PlaceOf ==
    ASSUME NEW e, NEW n, NEW k \in Nat
    PROVE  /\ Place(Summary(e, n)) = 0
           /\ Place(TransactionUpdate(e, n, k)) = 2 * k
           /\ Place(UtxoUpdate(e, n, k)) = 2 * k + 1
<1>1. Summary(e, n).index = 0 /\ Summary(e, n).type # "utxo"
  BY DEF Summary, IsBlock, IsBestChain
<1>2. /\ TransactionUpdate(e, n, k).index = k /\ TransactionUpdate(e, n, k).type # "utxo"
      /\ UtxoUpdate(e, n, k).index = k /\ UtxoUpdate(e, n, k).type = "utxo"
  BY DEF TransactionUpdate, UtxoUpdate
<1> QED
  BY <1>1, <1>2 DEF Place

\* What is encoded of transaction k has the places 2k and 2k + 1.
LEMMA PlacesOf ==
    ASSUME NEW e, NEW n, NEW K \in SUBSET Nat, NEW u \in EncodedInto(e, n, K)
    PROVE  \E k \in K : Place(u) \in {2 * k, 2 * k + 1}
<1>1. CASE \E k \in K : u = TransactionUpdate(e, n, k)
  BY <1>1, PlaceOf
<1>2. CASE \E k \in K : u = UtxoUpdate(e, n, k)
  BY <1>2, PlaceOf
<1> QED
  BY <1>1, <1>2 DEF EncodedInto

\* Every element of a joined sequence is one of its parts', in its place there.
LEMMA PartsOfJoined ==
    ASSUME NEW s, NEW t, IsSequence(s), IsSequence(t)
    PROVE  LET r == s \o t IN
           /\ \A i \in DOMAIN r :
                \/ i \in DOMAIN s /\ r[i] = s[i]
                \/ i > Len(s) /\ i - Len(s) \in DOMAIN t /\ r[i] = t[i - Len(s)]
           /\ Range(r) = Range(s) \cup Range(t)
<1> DEFINE r == s \o t
<1>1. DOMAIN t = 1..Len(t)
  BY DEF IsSequence
<1>2. /\ Len(s) \in Nat /\ Len(t) \in Nat
      /\ DOMAIN s = 1..Len(s) /\ DOMAIN r = 1..(Len(s) + Len(t))
      /\ \A i \in 1..Len(s) : r[i] = s[i]
      /\ \A i \in (Len(s) + 1)..(Len(s) + Len(t)) : r[i] = t[i - Len(s)]
  BY Concatenation
<1> HIDE DEF r
<1>3. \A i \in DOMAIN r :
        \/ i \in DOMAIN s /\ r[i] = s[i]
        \/ i > Len(s) /\ i - Len(s) \in DOMAIN t /\ r[i] = t[i - Len(s)]
  <2> TAKE i \in DOMAIN r
  <2>1. CASE i <= Len(s)
    BY <1>1, <1>2, <2>1
  <2>2. CASE ~(i <= Len(s))
    BY <1>1, <1>2, <2>2
  <2> QED
    BY <2>1, <2>2
<1>4. Range(r) = Range(s) \cup Range(t)
  <2>1. \A u \in Range(r) : u \in Range(s) \cup Range(t)
    BY <1>3 DEF Range
  <2>2. \A u \in Range(s) : u \in Range(r)
    BY <1>1, <1>2 DEF Range
  <2>3. ASSUME NEW u \in Range(t) PROVE u \in Range(r)
    <3>1. PICK i \in DOMAIN t : u = t[i]
      BY <2>3 DEF Range
    <3>2. Len(s) + i \in (Len(s) + 1)..(Len(s) + Len(t)) /\ (Len(s) + i) - Len(s) = i
      BY <1>1, <1>2
    <3>3. r[Len(s) + i] = u /\ Len(s) + i \in DOMAIN r
      BY <1>1, <1>2, <3>1, <3>2
    <3> QED
      BY <3>3 DEF Range
  <2> QED
    BY <2>1, <2>2, <2>3
<1> QED
  BY <1>3, <1>4 DEF r

LEMMA JoinedInPlace ==
    ASSUME NEW S, NEW s \in Seq(S), NEW t \in Seq(S), InPlace(s), InPlace(t),
           \A u \in Range(s), v \in Range(t) : Place(u) < Place(v)
    PROVE  s \o t \in Seq(S) /\ Range(s \o t) = Range(s) \cup Range(t) /\ InPlace(s \o t)
<1>1. IsSequence(s) /\ IsSequence(t)
  BY DEF IsSequence
<1> DEFINE r == s \o t
<1>2. /\ r \in Seq(S)
      /\ Len(s) \in Nat /\ Len(t) \in Nat
      /\ DOMAIN s = 1..Len(s) /\ DOMAIN t = 1..Len(t) /\ DOMAIN r = 1..(Len(s) + Len(t))
      /\ \A i \in 1..Len(s) : r[i] = s[i]
      /\ \A i \in (Len(s) + 1)..(Len(s) + Len(t)) : r[i] = t[i - Len(s)]
  BY <1>1, Concatenation, JoinedTyped
<1>3. \A i \in DOMAIN r :
        \/ i \in DOMAIN s /\ r[i] = s[i]
        \/ i > Len(s) /\ i - Len(s) \in DOMAIN t /\ r[i] = t[i - Len(s)]
  BY <1>1, PartsOfJoined
<1>4. Range(r) = Range(s) \cup Range(t)
  BY <1>1, PartsOfJoined
<1> HIDE DEF r
<1>5. InPlace(r)
  <2> SUFFICES ASSUME NEW i \in DOMAIN r, NEW j \in DOMAIN r, i < j
               PROVE  Place(r[i]) < Place(r[j])
    BY DEF InPlace
  <2>1. CASE j \in DOMAIN s /\ r[j] = s[j]
    <3>1. i \in DOMAIN s /\ r[i] = s[i]
      BY <1>2, <2>1
    <3> QED
      BY <2>1, <3>1 DEF InPlace
  <2>2. CASE j > Len(s) /\ j - Len(s) \in DOMAIN t /\ r[j] = t[j - Len(s)]
    <3>1. CASE i \in DOMAIN s /\ r[i] = s[i]
      BY <2>2, <3>1 DEF Range
    <3>2. CASE i > Len(s) /\ i - Len(s) \in DOMAIN t /\ r[i] = t[i - Len(s)]
      <4>1. i - Len(s) < j - Len(s)
        BY <1>2
      <4> QED
        BY <2>2, <3>2, <4>1 DEF InPlace
    <3> QED
      BY <1>3, <3>1, <3>2
  <2> QED
    BY <1>3, <2>1, <2>2
<1> QED
  BY <1>2, <1>4, <1>5 DEF r

LEMMA Single ==
    ASSUME NEW u
    PROVE  <<u>> \in Seq({u}) /\ Range(<<u>>) = {u} /\ InPlace(<<u>>)
<1>1. <<u>> \in Seq({u}) /\ DOMAIN <<u>> = {1} /\ <<u>>[1] = u
  OBVIOUS
<1> QED
  BY <1>1 DEF Range, InPlace

LEMMA Nothing == ASSUME NEW S PROVE <<>> \in Seq(S) /\ Range(<<>>) = {} /\ InPlace(<<>>)
<1>1. <<>> \in Seq(S) /\ DOMAIN <<>> = {}
  OBVIOUS
<1> QED
  BY <1>1 DEF Range, InPlace

LEMMA OfTransaction ==
    ASSUME NEW e, NEW n, NEW k \in Nat, NEW S, EncodedInto(e, n, {k}) \subseteq S
    PROVE  LET s == TransactionUpdatesOf(e, n, k) IN
           s \in Seq(S) /\ Range(s) = EncodedInto(e, n, {k}) /\ InPlace(s)
<1> DEFINE own == IsBlock(e) => TransactionUpdates
           utxo == IsBlock(e) /\ UtxoUpdates /\ ChangesUtxos(e.txs[k])
           s == IF own THEN <<TransactionUpdate(e, n, k)>> ELSE <<>>
           t == IF utxo THEN <<UtxoUpdate(e, n, k)>> ELSE <<>>
           A == IF own THEN {TransactionUpdate(e, n, k)} ELSE {}
           B == IF utxo THEN {UtxoUpdate(e, n, k)} ELSE {}
<1>1. TransactionUpdatesOf(e, n, k) = s \o t
  BY DEF TransactionUpdatesOf
<1>2. EncodedInto(e, n, {k}) = A \cup B
  BY DEF EncodedInto
<1>3. \A u \in A, v \in B : Place(u) < Place(v)
  BY PlaceOf
<1> HIDE DEF own, utxo
<1>4. s \in Seq(S) /\ Range(s) = A /\ InPlace(s)
  <2>1. CASE own
    <3>1. TransactionUpdate(e, n, k) \in S
      BY <1>2, <2>1
    <3>2. <<TransactionUpdate(e, n, k)>> \in Seq(S)
      BY <3>1
    <3> QED
      BY <2>1, <3>2, Single
  <2>2. CASE ~own
    BY <2>2, Nothing
  <2> QED
    BY <2>1, <2>2
<1>5. t \in Seq(S) /\ Range(t) = B /\ InPlace(t)
  <2>1. CASE utxo
    <3>1. UtxoUpdate(e, n, k) \in S
      BY <1>2, <2>1
    <3>2. <<UtxoUpdate(e, n, k)>> \in Seq(S)
      BY <3>1
    <3> QED
      BY <2>1, <3>2, Single
  <2>2. CASE ~utxo
    BY <2>2, Nothing
  <2> QED
    BY <2>1, <2>2
<1> HIDE DEF s, t, A, B
<1>6. s \o t \in Seq(S) /\ Range(s \o t) = Range(s) \cup Range(t) /\ InPlace(s \o t)
  BY <1>3, <1>4, <1>5, JoinedInPlace
<1> QED
  BY <1>1, <1>2, <1>4, <1>5, <1>6

\* The updates of an event's first m transactions, joined: theirs, all of them, in place.
LEMMA JoinedTransactions ==
    ASSUME NEW e, NEW n, NEW m \in Nat
    PROVE  LET s == FlattenSeq([k \in 1..m |-> TransactionUpdatesOf(e, n, k)]) IN
           s \in Seq(EncodedInto(e, n, 1..m)) /\ Range(s) = EncodedInto(e, n, 1..m) /\ InPlace(s)
<1> DEFINE S == EncodedInto(e, n, 1..m)
           x == [k \in 1..m |-> TransactionUpdatesOf(e, n, k)]
           P == [k \in 0..m |-> {s \in Seq(S) : Range(s) = EncodedInto(e, n, 1..k) /\ InPlace(s)}]
<1>1. ASSUME NEW k \in 1..m
      PROVE  /\ x[k] \in Seq(S) /\ Range(x[k]) = EncodedInto(e, n, {k}) /\ InPlace(x[k])
             /\ \A s \in P[k - 1] : s \o x[k] \in P[k]
  <2>1. EncodedInto(e, n, {k}) \subseteq S
    BY DEF EncodedInto
  <2>2. x[k] \in Seq(S) /\ Range(x[k]) = EncodedInto(e, n, {k}) /\ InPlace(x[k])
    <3> HIDE DEF S
    <3> QED
      BY <2>1, OfTransaction
  <2>3. ASSUME NEW s \in P[k - 1] PROVE s \o x[k] \in P[k]
    <3>1. k - 1 \in 0..m /\ k \in 0..m /\ 1..k = (1..(k - 1)) \cup {k}
      OBVIOUS
    <3>2. s \in Seq(S) /\ Range(s) = EncodedInto(e, n, 1..(k - 1)) /\ InPlace(s)
      BY <3>1
    <3>3. EncodedInto(e, n, 1..k) = EncodedInto(e, n, 1..(k - 1)) \cup EncodedInto(e, n, {k})
      BY <3>1 DEF EncodedInto
    <3>4. ASSUME NEW u \in Range(s), NEW v \in Range(x[k]) PROVE Place(u) < Place(v)
      <4>1. PICK i \in 1..(k - 1) : Place(u) \in {2 * i, 2 * i + 1}
        BY <3>2, PlacesOf
      <4>2. PICK j \in {k} : Place(v) \in {2 * j, 2 * j + 1}
        <5> DEFINE K == {k}
        <5>1. K \in SUBSET Nat /\ v \in EncodedInto(e, n, K)
          BY <2>2
        <5> HIDE DEF K
        <5>2. \E j \in K : Place(v) \in {2 * j, 2 * j + 1}
          BY <5>1, PlacesOf
        <5> QED
          BY <5>2 DEF K
      <4> QED
        BY <4>1, <4>2
    <3> HIDE DEF S, x
    <3>5. s \o x[k] \in Seq(S) /\ Range(s \o x[k]) = Range(s) \cup Range(x[k]) /\ InPlace(s \o x[k])
      BY <2>2, <3>2, <3>4, JoinedInPlace
    <3> QED
      BY <2>2, <3>1, <3>2, <3>3, <3>5
  <2> QED
    BY <2>2, <2>3
<1>2. P[0] = {<<>>}
  <2>1. EncodedInto(e, n, 1..0) = {}
    BY DEF EncodedInto
  <2> HIDE DEF S
  <2>2. \A s \in Seq(S) : Range(s) = {} => s = <<>>
    <3> TAKE s \in Seq(S)
    <3> HAVE Range(s) = {}
    <3>1. DOMAIN s = 1..Len(s) /\ Len(s) \in Nat
      OBVIOUS
    <3>2. 1 \notin DOMAIN s
      BY DEF Range
    <3> QED
      BY <3>1, <3>2
  <2>3. 0 \in 0..m
    OBVIOUS
  <2>4. P[0] = {s \in Seq(S) : Range(s) = {} /\ InPlace(s)}
    BY <2>1, <2>3
  <2> HIDE DEF P
  <2> QED
    BY <2>2, <2>4, Nothing
<1>3. \A k \in 1..m : P[k] \subseteq Seq(S)
  OBVIOUS
<1>4. x \in [1..m -> Seq(S)]
  BY <1>1
<1>5. \A k \in 1..m : \A s \in P[k - 1] : s \o x[k] \in P[k]
  BY <1>1
<1> HIDE DEF P, x, S
<1>6. FlattenSeq(x) \in P[m]
  BY <1>2, <1>3, <1>4, <1>5, FlattenedThrough
<1>7. P[m] = {s \in Seq(S) : Range(s) = EncodedInto(e, n, 1..m) /\ InPlace(s)}
  BY DEF P
<1> QED
  BY <1>6, <1>7 DEF x, S

\* What is collected of an event: its summary, then all of its transactions', in place.
LEMMA CollectedInPlace ==
    ASSUME Len(finished) \in Nat
    PROVE  LET all == {Summary(Event, Current)} \cup EncodedInto(Event, Current, 1..Len(finished)) IN
           Collected \in Seq(all) /\ Range(Collected) = all /\ InPlace(Collected)
<1> DEFINE m == Len(finished)
           s == FlattenSeq([k \in 1..m |-> TransactionUpdatesOf(Event, Current, k)])
           S == EncodedInto(Event, Current, 1..m)
           first == Summary(Event, Current)
           all == {first} \cup S
<1>1. s \in Seq(S) /\ Range(s) = S /\ InPlace(s)
  BY JoinedTransactions
<1>2. Collected = <<first>> \o s
  BY DEF Collected
<1>3. \A v \in S : Place(first) < Place(v)
  <2> TAKE v \in S
  <2>1. PICK k \in 1..m : Place(v) \in {2 * k, 2 * k + 1}
    BY PlacesOf
  <2>2. Place(first) = 0
    BY PlaceOf
  <2> QED
    BY <2>1, <2>2
<1> HIDE DEF s, S, first
<1>4. s \in Seq(all) /\ <<first>> \in Seq(all) /\ Range(<<first>>) = {first} /\ InPlace(<<first>>)
  <2>1. first \in all
    OBVIOUS
  <2>2. s \in [1..Len(s) -> S] /\ Len(s) \in Nat
    BY <1>1
  <2>3. s \in [1..Len(s) -> all]
    BY <2>2
  <2>4. s \in Seq(all)
    BY <2>2, <2>3
  <2>5. <<first>> \in Seq(all)
    <3> HIDE DEF all
    <3> QED
      BY <2>1
  <2> QED
    BY <2>4, <2>5, Single
<1> HIDE DEF all
<1>5. /\ <<first>> \o s \in Seq(all) /\ Range(<<first>> \o s) = Range(<<first>>) \cup Range(s)
      /\ InPlace(<<first>> \o s)
  BY <1>1, <1>3, <1>4, JoinedInPlace
<1> QED
  BY <1>1, <1>2, <1>4, <1>5 DEF all, S, first

\* What is collected of an event is a sequence of well-made updates.
LEMMA CollectedWellMade ==
    ASSUME IsSequence(finished)
    PROVE  /\ IsSequence(Collected)
           /\ \A i \in DOMAIN Collected : WellMade(Collected[i])
<1>1. Len(finished) \in Nat
  BY DEF IsSequence
<1> DEFINE all == {Summary(Event, Current)} \cup EncodedInto(Event, Current, 1..Len(finished))
<1>2. Collected \in Seq(all)
  BY <1>1, CollectedInPlace
<1>3. \A u \in all : WellMade(u)
  BY SummaryWellMade, TransactionWellMade, UtxoWellMade DEF EncodedInto
<1> HIDE DEF all
<1> QED
  BY <1>2, <1>3 DEF IsSequence
-----------------------------------------------------------------------------
(***************************************************************************)
(* What a filter lets through.                                             *)
(***************************************************************************)
\* A request with one of the named filters only.
Alone(request, name) ==
    [eventTypes |-> {}, filters |-> [n \in {name} |-> request.filters[name]]]

\* The names a request's filters would be given an update under, each on its own.
NamesAlone(request, u) ==
    {n \in DOMAIN request.filters : Matched(EventFilter(Alone(request, n)), u) # {}}

\* All updates, or this type of them, were asked for without a name.
Unnamed(request, u) == DefaultAll(request) \/ u.type \in request.eventTypes

\* The legacy list of event types compiles to a filter that looks at nothing else.
LEMMA LegacyByType ==
    ASSUME NEW request, NEW u, NEW collected
    PROVE  (\E c \in CompiledLegacy(request) : FilterMatches(c, u, collected))
                <=> u.type \in request.eventTypes
<1> DEFINE f == LegacyFilter(request)
           c == CompiledFilter(f)
<1>1. /\ f.eventTypes = request.eventTypes /\ f.minHeight = {} /\ f.ids = {}
      /\ \A list \in AddressLists : f.addresses[list] = {}
      /\ f.coinbase = {} /\ f.version = {} /\ f.minValue = {}
      /\ \A feature \in Features : f.has[feature] = {}
  BY DEF LegacyFilter, NoFilter
<1> HIDE DEF f
<1>2. c.kinds = request.eventTypes /\ c.minHeight = {}
  BY <1>1 DEF CompiledFilter
<1>3. c.ids = {}
  BY <1>1 DEF CompiledFilter, Canonical
<1>4. c.include = {} /\ c.exclude = {} /\ c.required = {}
  BY <1>1 DEF CompiledFilter, Canonical, AddressLists
<1>5. c.coinbase = {} /\ c.version = {} /\ c.minValue = {} /\ c.has = f.has
  BY <1>1 DEF CompiledFilter
<1>6. CompiledLegacy(request) = IF request.eventTypes = {} THEN {} ELSE {c}
  BY DEF CompiledLegacy, f
<1> HIDE DEF c
<1>7. AddressesMatch(c, collected) /\ MetadataMatch(c, u)
  BY <1>1, <1>4, <1>5 DEF AddressesMatch, UsesAddresses, MetadataMatch, UsesMetadata
<1>8. FilterMatches(c, u, collected) <=> (request.eventTypes # {} => u.type \in request.eventTypes)
  BY <1>2, <1>3, <1>7 DEF FilterMatches
<1> QED
  BY <1>6, <1>8

\* A filter matches the same updates whether the addresses were collected for itself
\* or for another filter as well.
LEMMA CollectedForAnother ==
    ASSUME NEW c, NEW u, NEW collected,
           UsesAddresses(c) => collected = TransparentAddresses(u)
    PROVE  FilterMatches(c, u, collected)
                <=> FilterMatches(c, u, IF UsesAddresses(c) THEN TransparentAddresses(u) ELSE {})
<1>1. CASE UsesAddresses(c)
  BY <1>1
<1>2. CASE ~UsesAddresses(c)
  BY <1>2 DEF FilterMatches, AddressesMatch
<1> QED
  BY <1>1, <1>2

\* A named filter as the only one of a request matches what it matches in the request.
LEMMA AloneAsTogether ==
    ASSUME NEW request, NEW n \in DOMAIN request.filters, NEW u
    PROVE  LET together == EventFilter(request)
               collected == IF together.needsAddresses THEN TransparentAddresses(u) ELSE {}
           IN  FilterMatches(together.named[n], u, collected)
                    <=> Matched(EventFilter(Alone(request, n)), u) # {}
<1> DEFINE together == EventFilter(request)
           collected == IF together.needsAddresses THEN TransparentAddresses(u) ELSE {}
           alone == EventFilter(Alone(request, n))
           c == CompiledFilter(request.filters[n])
           own == IF UsesAddresses(c) THEN TransparentAddresses(u) ELSE {}
<1>1. together.named[n] = c
  BY DEF EventFilter, CompiledNamed
<1>2. UsesAddresses(c) => together.needsAddresses
  BY DEF EventFilter, CompiledNamed
<1>3. FilterMatches(c, u, collected) <=> FilterMatches(c, u, own)
  <2>1. UsesAddresses(c) => collected = TransparentAddresses(u)
    BY <1>2
  <2> HIDE DEF c, collected
  <2> QED
    BY <2>1, CollectedForAnother
<1>4. ~alone.defaultAll /\ alone.legacy = {}
  BY DEF EventFilter, Alone, DefaultAll, CompiledLegacy
<1>5. DOMAIN alone.named = {n} /\ alone.named[n] = c
  BY DEF EventFilter, Alone, CompiledNamed
<1>6. alone.needsAddresses <=> UsesAddresses(c)
  BY DEF EventFilter, Alone, CompiledLegacy, CompiledNamed
<1> HIDE DEF alone, c
<1>7. Matched(alone, u) # {} <=> FilterMatches(c, u, own)
  <2>1. own = IF alone.needsAddresses THEN TransparentAddresses(u) ELSE {}
    BY <1>6
  <2>2. {m \in DOMAIN alone.named : FilterMatches(alone.named[m], u, own)} # {}
            <=> FilterMatches(c, u, own)
    BY <1>5
  <2> HIDE DEF own
  <2> QED
    BY <1>4, <2>1, <2>2 DEF Matched
<1> QED
  BY <1>1, <1>3, <1>7 DEF alone

\* What a request's filter matches of an update.
LEMMA MatchedByRequest ==
    ASSUME NEW request, NEW u
    PROVE  LET names == NamesAlone(request, u)
               named == CompiledNamed(request)
           IN  Matched(EventFilter(request), u) =
                 IF ~Unnamed(request, u) /\ names = {} THEN {}
                 ELSE {[names |-> names,
                        block |-> IF Unnamed(request, u) THEN {"raw"}
                                  ELSE UNION {named[n].block : n \in names},
                        transaction |-> IF Unnamed(request, u) THEN PartsOf("full")
                                        ELSE UNION {named[n].transaction : n \in names}]}
<1> DEFINE f == EventFilter(request)
           collected == IF f.needsAddresses THEN TransparentAddresses(u) ELSE {}
<1>1. /\ f.defaultAll = DefaultAll(request) /\ f.legacy = CompiledLegacy(request)
      /\ f.named = CompiledNamed(request) /\ DOMAIN f.named = DOMAIN request.filters
  BY DEF EventFilter, CompiledNamed
<1>2. \A n \in DOMAIN request.filters :
        FilterMatches(f.named[n], u, collected)
            <=> Matched(EventFilter(Alone(request, n)), u) # {}
  BY AloneAsTogether
<1>3. (\E c \in f.legacy : FilterMatches(c, u, collected)) <=> u.type \in request.eventTypes
  BY <1>1, LegacyByType
<1> HIDE DEF f
<1>4. {n \in DOMAIN f.named : FilterMatches(f.named[n], u, collected)} = NamesAlone(request, u)
  BY <1>1, <1>2 DEF NamesAlone
<1>5. (f.defaultAll \/ \E c \in f.legacy : FilterMatches(c, u, collected)) <=> Unnamed(request, u)
  BY <1>1, <1>3 DEF Unnamed
<1>6. Matched(f, u) =
        IF ~Unnamed(request, u) /\ NamesAlone(request, u) = {} THEN {}
        ELSE {[names |-> NamesAlone(request, u),
               block |-> IF Unnamed(request, u) THEN {"raw"}
                         ELSE UNION {f.named[n].block : n \in NamesAlone(request, u)},
               transaction |-> IF Unnamed(request, u) THEN PartsOf("full")
                               ELSE UNION {f.named[n].transaction : n \in NamesAlone(request, u)}]}
  BY <1>4, <1>5 DEF Matched
<1> QED
  BY <1>1, <1>6 DEF f

\* The names a filter gives an update under, if event types are not looked at.
NamesOfAnyType(f, u) ==
    UNION {match.names :
        match \in Matched([f EXCEPT !.named = [n \in DOMAIN @ |-> [@[n] EXCEPT !.kinds = {}]]], u)}

\* The transaction update and the UTXO update of a transaction of a block are let
\* through under the same names, whatever the filter asks of IDs, addresses, facts and
\* heights (encode_transaction_updates, update_transparent_addresses).
THEOREM UtxosAgreeWithTransaction ==
    ASSUME NEW request, NEW e, IsBlock(e), NEW n, NEW k
    PROVE  NamesOfAnyType(EventFilter(request), TransactionUpdate(e, n, k))
                = NamesOfAnyType(EventFilter(request), UtxoUpdate(e, n, k))
<1> DEFINE f == EventFilter(request)
           t == TransactionUpdate(e, n, k)
           o == UtxoUpdate(e, n, k)
           any == [f EXCEPT !.named = [m \in DOMAIN @ |-> [@[m] EXCEPT !.kinds = {}]]]
<1>1. t.type = "transaction" /\ o.type = "utxo"
  BY DEF TransactionUpdate, UtxoUpdate
<1>2. BlockHeight(t) = BlockHeight(o) /\ TransactionIds(t) = TransactionIds(o)
  <2>1. t.height = o.height /\ t.id = o.id
    BY DEF TransactionUpdate, UtxoUpdate
  <2> HIDE DEF t, o
  <2> QED
    BY <1>1, <2>1 DEF BlockHeight, TransactionIds, IsTransaction
<1>3. TransparentAddresses(t) = TransparentAddresses(o)
  <2>1. t.inputs = o.spent /\ t.outputs = o.created
    BY DEF TransactionUpdate, UtxoUpdate
  <2> HIDE DEF t, o
  <2> QED
    BY <1>1, <2>1 DEF TransparentAddresses, IsTransaction
<1>4. TransactionFacts(t) = TransactionFacts(o)
  <2>1. t.facts = o.facts
    BY DEF TransactionUpdate, UtxoUpdate
  <2> HIDE DEF t, o
  <2> QED
    BY <1>1, <2>1 DEF TransactionFacts, IsTransaction
<1> HIDE DEF t, o
<1>5. \A c, collected : c.kinds = {} => (FilterMatches(c, t, collected) <=> FilterMatches(c, o, collected))
  BY <1>2, <1>4 DEF FilterMatches, MetadataMatch
<1> DEFINE collected == IF any.needsAddresses THEN TransparentAddresses(t) ELSE {}
           names(u) == {m \in DOMAIN any.named : FilterMatches(any.named[m], u, collected)}
<1>6. names(t) = names(o)
  <2>1. DOMAIN any.named = DOMAIN f.named
    BY DEF EventFilter
  <2>2. \A m \in DOMAIN f.named : any.named[m] = [f.named[m] EXCEPT !.kinds = {}]
    BY DEF EventFilter
  <2>3. \A m \in DOMAIN f.named : "kinds" \in DOMAIN f.named[m]
    BY DEF EventFilter, CompiledNamed, CompiledFilter
  <2>4. \A m \in DOMAIN any.named : any.named[m].kinds = {}
    BY <2>1, <2>2, <2>3
  <2> HIDE DEF any
  <2> QED
    BY <1>5, <2>4
<1> HIDE DEF any
<1>7. ASSUME NEW u, TransparentAddresses(u) = TransparentAddresses(t)
      PROVE  UNION {match.names : match \in Matched(any, u)} = names(u)
  <2>1. \A match \in Matched(any, u) : match.names = names(u)
    BY <1>7 DEF Matched
  <2>2. names(u) # {} => Matched(any, u) # {}
    BY <1>7 DEF Matched
  <2> HIDE DEF names
  <2> QED
    BY <2>1, <2>2
<1>8. UNION {match.names : match \in Matched(any, t)}
        = UNION {match.names : match \in Matched(any, o)}
  BY <1>3, <1>6, <1>7
<1> QED
  BY <1>8 DEF NamesOfAnyType, any, t, o

\* A request with all IDs and addresses in the canonical notation.
InCanonicalNotation(request) ==
    LET Rewritten(f) ==
            [f EXCEPT !.ids = Canonical("transaction_ids", @),
                      !.addresses = [list \in AddressLists |-> Canonical(list, @[list])]]
    IN  [request EXCEPT !.filters = [n \in DOMAIN @ |-> Rewritten(@[n])]]

\* Requests as the protocol has them, for the fields that are rewritten.
WellFormed(request) ==
    /\ DOMAIN request = {"eventTypes", "filters"}
    /\ \A n \in DOMAIN request.filters : DOMAIN request.filters[n] = DOMAIN NoFilter

\* Rewriting twice is rewriting once.
LEMMA CanonicalIsCanonical ==
    ASSUME NEW list, NEW values
    PROVE  Canonical(list, Canonical(list, values)) = Canonical(list, values)
<1>1. \A v : CanonicalAddress(CanonicalAddress(v)) = CanonicalAddress(v)
  <2>1. TAKE v
  <2>2. CASE v.kind = "tex"
    <3> DEFINE w == CanonicalAddress(v)
    <3>1. w = [k \in DOMAIN v |-> IF k = "kind" THEN "p2pkh" ELSE v[k]]
      BY <2>2 DEF CanonicalAddress
    <3>2. [w EXCEPT !.kind = "p2pkh"] = w
      BY <3>1
    <3> HIDE DEF w
    <3>3. CanonicalAddress(w) = w
      BY <3>2 DEF CanonicalAddress
    <3> QED
      BY <3>3 DEF w
  <2>3. CASE v.kind # "tex"
    BY <2>3 DEF CanonicalAddress
  <2> QED
    BY <2>2, <2>3
<1>2. \A v : CanonicalId(CanonicalId(v)) = CanonicalId(v)
  BY DEF CanonicalId
<1> QED
  BY <1>1, <1>2 DEF Canonical

\* The addresses of two lists, rewritten on their own or together.
LEMMA CanonicalOfUnion ==
    ASSUME NEW a, NEW b
    PROVE  Canonical("include", Canonical("include", a)
                        \cup Canonical("transparent_addresses", b)) = Canonical("include", a \cup b)
<1>1. \A x, y : Canonical("include", x \cup y) = Canonical("include", x) \cup Canonical("include", y)
  BY DEF Canonical
<1>2. \A x : Canonical("transparent_addresses", x) = Canonical("include", x)
  BY DEF Canonical
<1> QED
  BY <1>1, <1>2, CanonicalIsCanonical

\* A compiled filter keeps no trace of how its addresses and IDs were written, so a
\* request in the canonical notation is let through what the request itself is
\* (canonical_transparent_address_string, decode_transaction_id).
THEOREM NotationIsForgotten ==
    ASSUME NEW request, WellFormed(request)
    PROVE  EventFilter(InCanonicalNotation(request)) = EventFilter(request)
<1> DEFINE r == InCanonicalNotation(request)
           g(n) == [request.filters[n] EXCEPT !.ids = Canonical("transaction_ids", @),
                        !.addresses = [list \in AddressLists |-> Canonical(list, @[list])]]
<1>1. r.eventTypes = request.eventTypes /\ r.filters = [n \in DOMAIN request.filters |-> g(n)]
  BY DEF InCanonicalNotation, WellFormed
<1>2. \A n \in DOMAIN request.filters : CompiledFilter(g(n)) = CompiledFilter(request.filters[n])
  <2>1. TAKE n \in DOMAIN request.filters
  <2> DEFINE f == request.filters[n]
             h == g(n)
  <2>2. DOMAIN f = DOMAIN NoFilter
    BY DEF WellFormed
  <2>3. {"ids", "addresses", "eventTypes", "minHeight", "coinbase", "version", "has",
         "minValue", "block", "transaction"} \subseteq DOMAIN f
    BY <2>2 DEF NoFilter
  <2> HIDE DEF f
  <2>4. /\ h = [f EXCEPT !.ids = Canonical("transaction_ids", @),
                          !.addresses = [list \in AddressLists |-> Canonical(list, @[list])]]
    BY DEF f
  <2>5. /\ h.ids = Canonical("transaction_ids", f.ids)
        /\ h.addresses = [list \in AddressLists |-> Canonical(list, f.addresses[list])]
        /\ h.eventTypes = f.eventTypes /\ h.minHeight = f.minHeight /\ h.coinbase = f.coinbase
        /\ h.version = f.version /\ h.has = f.has /\ h.minValue = f.minValue
        /\ h.block = f.block /\ h.transaction = f.transaction
    BY <2>3, <2>4
  <2> HIDE DEF h
  <2>6. \A list \in AddressLists : h.addresses[list] = Canonical(list, f.addresses[list])
    BY <2>5
  <2>7. Canonical("transaction_ids", h.ids) = Canonical("transaction_ids", f.ids)
    BY <2>5, CanonicalIsCanonical
  <2>8. /\ Canonical("exclude", h.addresses["exclude"]) = Canonical("exclude", f.addresses["exclude"])
        /\ Canonical("required", h.addresses["required"]) = Canonical("required", f.addresses["required"])
    BY <2>6, CanonicalIsCanonical DEF AddressLists
  <2>9. Canonical("include", h.addresses["include"] \cup h.addresses["transparent_addresses"])
          = Canonical("include", f.addresses["include"] \cup f.addresses["transparent_addresses"])
    BY <2>6, CanonicalOfUnion DEF AddressLists
  <2>10. CompiledFilter(h) = CompiledFilter(f)
    BY <2>5, <2>7, <2>8, <2>9 DEF CompiledFilter
  <2> QED
    BY <2>10 DEF f, h
<1> HIDE DEF g, r
<1>3. DOMAIN r.filters = DOMAIN request.filters
  BY <1>1
<1>4. CompiledNamed(r) = CompiledNamed(request)
  BY <1>1, <1>2 DEF CompiledNamed
<1>5. DefaultAll(r) = DefaultAll(request) /\ CompiledLegacy(r) = CompiledLegacy(request)
  BY <1>1, <1>3 DEF DefaultAll, CompiledLegacy, LegacyFilter
<1> QED
  BY <1>3, <1>4, <1>5 DEF EventFilter, r

-----------------------------------------------------------------------------
(***************************************************************************)
(* What a stream is sent.                                                  *)
(***************************************************************************)
\* The messages a filter makes of an update.
SentThrough(f, u) ==
    {[names |-> match.names, parts |-> PartsFor(u, match)] : match \in Matched(f, u)}

\* The parts of an update one filter of a request asks for.
KeptFor(f, u) ==
    CASE IsTransaction(u) ->
            CASE f.transaction = "raw_only" -> {"raw"}
              [] f.transaction = "transparent_only" -> {"transparent"}
              [] f.transaction = "meta_only" -> {}
              [] OTHER -> {"raw", "transparent"}
      [] u.type \in {"block_accepted", "block_finalized"} ->
            IF f.block = "meta_only" THEN {} ELSE {"raw"}
      [] OTHER -> {}

\* A filter that is not refused compiles to the parts it asks for.
LEMMA CompiledParts ==
    ASSUME NEW request, ~Refused(request), NEW n \in DOMAIN request.filters
    PROVE  LET f == request.filters[n]
               c == CompiledNamed(request)[n]
           IN  /\ c.block = IF f.block = "meta_only" THEN {} ELSE {"raw"}
               /\ c.transaction =
                    CASE f.transaction = "raw_only" -> {"raw"}
                      [] f.transaction = "transparent_only" -> {"transparent"}
                      [] f.transaction = "meta_only" -> {}
                      [] OTHER -> {"raw", "transparent"}
<1> DEFINE f == request.filters[n]
           c == CompiledNamed(request)[n]
<1>1. f.transaction \in TransactionModes
  BY DEF Refused, RefusedFilter
<1>2. c.block = (IF f.block = "meta_only" THEN {} ELSE {"raw"}) /\ c.transaction = PartsOf(f.transaction)
  BY DEF CompiledNamed, CompiledFilter
<1> HIDE DEF f, c
<1>3. PartsOf(f.transaction) =
        CASE f.transaction = "raw_only" -> {"raw"}
          [] f.transaction = "transparent_only" -> {"transparent"}
          [] f.transaction = "meta_only" -> {}
          [] OTHER -> {"raw", "transparent"}
  BY <1>1 DEF PartsOf, TransactionModes
<1> QED
  BY <1>2, <1>3 DEF f, c

\* A message has the parts of its update that were asked for.
LEMMA PartsForRequest ==
    ASSUME NEW request, ~Refused(request), NEW u, WellMade(u),
           NEW match \in Matched(EventFilter(request), u)
    PROVE  PartsFor(u, match) =
             IF Unnamed(request, u) THEN u.parts
             ELSE UNION {KeptFor(request.filters[n], u) : n \in match.names}
<1> DEFINE named == CompiledNamed(request)
<1>1. /\ match.names = NamesAlone(request, u)
      /\ match.block = IF Unnamed(request, u) THEN {"raw"}
                       ELSE UNION {named[n].block : n \in match.names}
      /\ match.transaction = IF Unnamed(request, u) THEN PartsOf("full")
                             ELSE UNION {named[n].transaction : n \in match.names}
  <2> DEFINE whole == Unnamed(request, u)
             names == NamesAlone(request, u)
             block == IF whole THEN {"raw"} ELSE UNION {named[n].block : n \in names}
             transaction == IF whole THEN PartsOf("full")
                            ELSE UNION {named[n].transaction : n \in names}
             messages == IF ~whole /\ names = {} THEN {}
                         ELSE {[names |-> names, block |-> block, transaction |-> transaction]}
  <2>1. Matched(EventFilter(request), u) = messages
    BY MatchedByRequest
  <2> HIDE DEF named, whole, names, block, transaction
  <2>2. match = [names |-> names, block |-> block, transaction |-> transaction]
    BY <2>1
  <2>3. match.names = names /\ match.block = block /\ match.transaction = transaction
    BY <2>2
  <2> QED
    BY <2>3 DEF whole, names, block, transaction
<1>2. match.names \subseteq DOMAIN request.filters
  BY <1>1 DEF NamesAlone
<1>3. \A n \in match.names :
        /\ IsTransaction(u) => named[n].transaction = KeptFor(request.filters[n], u)
        /\ ~IsTransaction(u) /\ u.type \in {"block_accepted", "block_finalized"} =>
                named[n].block = KeptFor(request.filters[n], u)
        /\ ~IsTransaction(u) /\ u.type \notin {"block_accepted", "block_finalized"} =>
                KeptFor(request.filters[n], u) = {}
        /\ KeptFor(request.filters[n], u) \subseteq u.parts
  <2>1. TAKE n \in match.names
  <2> DEFINE f == request.filters[n]
  <2>2. /\ named[n].block = IF f.block = "meta_only" THEN {} ELSE {"raw"}
        /\ named[n].transaction =
             CASE f.transaction = "raw_only" -> {"raw"}
               [] f.transaction = "transparent_only" -> {"transparent"}
               [] f.transaction = "meta_only" -> {}
               [] OTHER -> {"raw", "transparent"}
    BY <1>2, CompiledParts
  <2> HIDE DEF f, named
  <2>3. KeptFor(f, u) =
          IF IsTransaction(u) THEN named[n].transaction
          ELSE IF u.type \in {"block_accepted", "block_finalized"} THEN named[n].block ELSE {}
    BY <2>2 DEF KeptFor, IsTransaction
  <2>4. KeptFor(f, u) \subseteq u.parts
    BY <2>2, <2>3 DEF WellMade
  <2> QED
    BY <2>3, <2>4 DEF f
<1> HIDE DEF named
<1>4. CASE IsTransaction(u)
  <2>1. PartsFor(u, match) = u.parts \cap match.transaction
    BY <1>4 DEF PartsFor, IsTransaction
  <2>2. u.parts = PartsOf("full")
    BY <1>4 DEF WellMade, PartsOf
  <2> QED
    BY <1>1, <1>3, <1>4, <2>1, <2>2
<1>5. CASE ~IsTransaction(u) /\ u.type \in {"block_accepted", "block_finalized"}
  <2>1. PartsFor(u, match) = u.parts \cap match.block
    BY <1>5 DEF PartsFor
  <2>2. u.parts = {"raw"}
    BY <1>5 DEF WellMade
  <2> QED
    BY <1>1, <1>3, <1>5, <2>1, <2>2
<1>6. CASE ~IsTransaction(u) /\ u.type \notin {"block_accepted", "block_finalized"}
  <2>1. PartsFor(u, match) = u.parts
    BY <1>6 DEF PartsFor
  <2>2. u.parts = {}
    BY <1>6 DEF WellMade
  <2> QED
    BY <1>3, <1>6, <2>1, <2>2
<1> QED
  BY <1>4, <1>5, <1>6

UpdatesInv ==
    /\ IsSequence(finished)
    /\ IsSequence(updates)
    /\ IsSequence(cache)
    /\ Len(cache) = Len(updates)
    /\ \A n \in 1..Len(updates) :
        WellMade(updates[n]) /\ \A made \in cache[n] : made.parts = made.cell

StreamInv(s) ==
    /\ position[s] \in 0..Len(updates)
    /\ state[s] = "open" => ~Refused(asked[s]) /\ filter[s] = EventFilter(asked[s])
    /\ last[s].update = 0 => last[s].sent = {}
    /\ last[s].update # 0 =>
        /\ state[s] = "open"
        /\ last[s].update \in 1..Len(updates)
        /\ last[s].sent = SentThrough(filter[s], updates[last[s].update])

StreamsInv ==
    /\ DOMAIN state = Streams /\ DOMAIN asked = Streams /\ DOMAIN filter = Streams
    /\ DOMAIN position = Streams /\ DOMAIN last = Streams
    /\ \A s \in Streams : StreamInv(s)

UpdatesIInv == UpdatesInv /\ StreamsInv

LEMMA InitEstablishes == Init => UpdatesIInv
<1> SUFFICES ASSUME Init PROVE UpdatesIInv
  OBVIOUS
<1>1. IsSequence(<<>>) /\ Len(<<>>) = 0
  <2>1. <<>> \in Seq({})
    OBVIOUS
  <2> QED
    BY <2>1 DEF IsSequence
<1>2. UpdatesInv
  BY <1>1 DEF Init, UpdatesInv
<1>3. StreamsInv
  BY <1>1 DEF Init, StreamsInv, StreamInv, Unseen
<1> QED
  BY <1>2, <1>3 DEF UpdatesIInv

LEMMA OnEventKeeps ==
    ASSUME UpdatesIInv, OnEvent
    PROVE  UpdatesIInv'
<1>1. IsSequence(finished')
  <2>1. <<>> \in Seq({})
    OBVIOUS
  <2> QED
    BY <2>1 DEF OnEvent, IsSequence
<1> QED
  BY <1>1 DEF OnEvent, UpdatesIInv, UpdatesInv, StreamsInv, StreamInv, stream, SentThrough, PartsFor, IsSequence

LEMMA EncodeTransactionKeeps ==
    ASSUME UpdatesIInv, EncodeTransaction
    PROVE  UpdatesIInv'
<1>1. IsSequence(finished')
  <2>1. PICK k : finished' = IF FailsToEncode(Event, k) THEN <<>> ELSE Append(finished, k)
    BY DEF EncodeTransaction
  <2>2. PICK S : finished \in Seq(S)
    BY DEF UpdatesIInv, UpdatesInv, IsSequence
  <2>3. finished \in Seq(S \cup {k}) /\ k \in S \cup {k}
    <3>1. finished \in [1..Len(finished) -> S] /\ Len(finished) \in Nat
      BY <2>2
    <3>2. finished \in [1..Len(finished) -> S \cup {k}]
      BY <3>1
    <3> QED
      BY <3>1, <3>2
  <2>4. finished' \in Seq(S \cup {k})
    BY <2>1, <2>3
  <2> QED
    BY <2>4 DEF IsSequence
<1> QED
  BY <1>1 DEF EncodeTransaction, UpdatesIInv, UpdatesInv, StreamsInv, StreamInv, stream, SentThrough, PartsFor, IsSequence

LEMMA PublishKeeps ==
    ASSUME UpdatesIInv, Publish
    PROVE  UpdatesIInv'
<1>1. IsSequence(Collected) /\ \A i \in DOMAIN Collected : WellMade(Collected[i])
  BY CollectedWellMade DEF UpdatesIInv, UpdatesInv
<1> DEFINE new == Collected
           fresh == [i \in DOMAIN new |-> {}]
<1>2. updates' = updates \o new /\ cache' = cache \o fresh
  BY DEF Publish
<1> HIDE DEF new
<1>3. /\ IsSequence(updates') /\ Len(updates) \in Nat /\ Len(new) \in Nat
      /\ Len(updates') = Len(updates) + Len(new)
      /\ DOMAIN updates = 1..Len(updates) /\ DOMAIN updates' = 1..(Len(updates) + Len(new))
      /\ \A i \in 1..Len(updates) : updates'[i] = updates[i]
      /\ \A i \in (Len(updates) + 1)..(Len(updates) + Len(new)) :
            updates'[i] = new[i - Len(updates)]
  BY <1>1, <1>2, Concatenation DEF UpdatesIInv, UpdatesInv, new
<1>4. IsSequence(fresh) /\ Len(fresh) = Len(new) /\ DOMAIN new = 1..Len(new)
  <2>1. DOMAIN new = 1..Len(new) /\ Len(new) \in Nat
    BY <1>1 DEF new, IsSequence
  <2>2. fresh \in Seq({{}}) /\ Len(fresh) = Len(new)
    BY <2>1
  <2> QED
    BY <2>1, <2>2 DEF IsSequence
<1>5. /\ IsSequence(cache') /\ Len(cache') = Len(cache) + Len(fresh)
      /\ \A i \in 1..Len(cache) : cache'[i] = cache[i]
      /\ \A i \in (Len(cache) + 1)..(Len(cache) + Len(fresh)) :
            cache'[i] = fresh[i - Len(cache)]
  <2> HIDE DEF fresh
  <2> QED
    BY <1>2, <1>4, Concatenation DEF UpdatesIInv, UpdatesInv
<1>6. Len(cache) = Len(updates)
  BY DEF UpdatesIInv, UpdatesInv
<1>7. \A n \in 1..Len(updates') :
        WellMade(updates'[n]) /\ \A made \in cache'[n] : made.parts = made.cell
  <2>1. TAKE n \in 1..Len(updates')
  <2>2. CASE n \in 1..Len(updates)
    <3>1. updates'[n] = updates[n] /\ cache'[n] = cache[n]
      BY <1>3, <1>5, <1>6, <2>2
    <3> QED
      BY <2>2, <3>1 DEF UpdatesIInv, UpdatesInv
  <2>3. CASE n \notin 1..Len(updates)
    <3>1. n - Len(updates) \in 1..Len(new) /\ n \in (Len(updates) + 1)..(Len(updates) + Len(new))
      BY <1>3, <2>3
    <3>2. updates'[n] = new[n - Len(updates)] /\ cache'[n] = {}
      BY <1>3, <1>4, <1>5, <1>6, <3>1
    <3>3. WellMade(new[n - Len(updates)])
      BY <1>1, <1>4, <3>1 DEF new
    <3> QED
      BY <3>2, <3>3
  <2> QED
    BY <2>2, <2>3
<1>8. IsSequence(finished')
  <2>1. <<>> \in Seq({})
    OBVIOUS
  <2> QED
    BY <2>1 DEF Publish, IsSequence
<1>9. UpdatesInv'
  BY <1>3, <1>4, <1>5, <1>6, <1>7, <1>8 DEF UpdatesInv
<1>10. StreamsInv'
  <2>1. UNCHANGED stream
    BY DEF Publish
  <2>2. \A s \in Streams : StreamInv(s)'
    <3>1. TAKE s \in Streams
    <3>2. StreamInv(s)
      BY DEF UpdatesIInv, StreamsInv
    <3>3. 0..Len(updates) \subseteq 0..Len(updates') /\ 1..Len(updates) \subseteq 1..Len(updates')
      BY <1>3
    <3>4. /\ state' = state /\ asked' = asked /\ filter' = filter
          /\ position' = position /\ last' = last
      BY <2>1 DEF stream
    <3>5. last[s].update \in 1..Len(updates) =>
            updates'[last[s].update] = updates[last[s].update]
      BY <1>3
    <3> QED
      BY <3>2, <3>3, <3>4, <3>5 DEF StreamInv
  <2> QED
    BY <2>1, <2>2 DEF UpdatesIInv, StreamsInv, stream
<1> QED
  BY <1>9, <1>10 DEF UpdatesIInv

\* A request that is followed is not refused, and nothing was sent under it yet.
LEMMA FollowKeeps ==
    ASSUME UpdatesIInv, NEW s \in Streams, NEW request, Follow(s, request)
    PROVE  UpdatesIInv'
<1>1. UpdatesInv'
  BY DEF UpdatesIInv, UpdatesInv, Follow, encoder, IsSequence
<1>2. \A t \in Streams : StreamInv(t)'
  <2>1. TAKE t \in Streams
  <2>2. StreamInv(t)
    BY DEF UpdatesIInv, StreamsInv
  <2>3. CASE t = s
    <3>1. /\ asked'[t] = request /\ last'[t] = Unseen
          /\ state'[t] = IF Refused(request) THEN "refused" ELSE "open"
          /\ ~Refused(request) => filter'[t] = EventFilter(request)
      BY <2>3 DEF Follow, UpdatesIInv, StreamsInv
    <3>2. position' = position /\ updates' = updates
      BY DEF Follow
    <3> QED
      BY <2>2, <3>1, <3>2 DEF StreamInv, Unseen
  <2>4. CASE t # s
    <3>1. /\ asked'[t] = asked[t] /\ last'[t] = last[t] /\ state'[t] = state[t]
          /\ filter'[t] = filter[t] /\ position' = position /\ updates' = updates
      BY <2>4 DEF Follow, UpdatesIInv, StreamsInv
    <3> QED
      BY <2>2, <3>1 DEF StreamInv
  <2> QED
    BY <2>3, <2>4
<1>3. StreamsInv'
  BY <1>2 DEF UpdatesIInv, StreamsInv, Follow
<1> QED
  BY <1>1, <1>3 DEF UpdatesIInv

\* Whatever the cells hold, a projection is the one that is asked for.
LEMMA PayloadIsParts ==
    ASSUME UpdatesInv, NEW n \in 1..Len(updates), NEW parts
    PROVE  /\ Payload(n, parts) = parts
           /\ \A made \in Made(n, parts) : made.parts = made.cell
<1>1. \A made \in cache[n] : made.parts = made.cell
  BY DEF UpdatesInv
<1>2. Payload(n, parts) = parts
  <2>1. CASE \E made \in cache[n] : made.cell = Cell(parts)
    <3> DEFINE found == CHOOSE made \in cache[n] : made.cell = Cell(parts)
    <3>1. found \in cache[n] /\ found.cell = Cell(parts)
      BY <2>1
    <3>2. found.parts = parts
      BY <1>1, <3>1 DEF Cell
    <3> QED
      BY <3>2 DEF Payload
  <2>2. CASE ~\E made \in cache[n] : made.cell = Cell(parts)
    BY <2>2 DEF Payload
  <2> QED
    BY <2>1, <2>2
<1>3. \A made \in Made(n, parts) : made.parts = made.cell
  BY <1>1 DEF Made, Cell
<1> QED
  BY <1>2, <1>3

LEMMA SendFilteredKeeps ==
    ASSUME UpdatesIInv, NEW s \in Streams, SendFiltered(s)
    PROVE  UpdatesIInv'
<1> DEFINE n == position[s] + 1
           matches == Matched(filter[s], updates[n])
           messages == {[names |-> match.names,
                         parts |-> Payload(n, PartsFor(updates[n], match))] : match \in matches}
<1>1. /\ state[s] = "open" /\ position[s] < Len(updates)
      /\ position' = [position EXCEPT ![s] = n]
      /\ last' = [last EXCEPT ![s] = [update |-> n, sent |-> messages]]
      /\ cache' = [cache EXCEPT ![n] =
                      @ \cup UNION {Made(n, PartsFor(updates[n], match)) : match \in matches}]
      /\ UNCHANGED <<finished, updates, state, asked, filter>>
  BY DEF SendFiltered, encoder
<1>2. n \in 1..Len(updates) /\ Len(updates) \in Nat
  <2>1. position[s] \in 0..Len(updates)
    BY DEF UpdatesIInv, StreamsInv, StreamInv
  <2>2. Len(updates) \in Nat
    BY DEF UpdatesIInv, UpdatesInv, IsSequence
  <2> QED
    BY <1>1, <2>1, <2>2
<1>3. messages = SentThrough(filter[s], updates[n])
  <2>1. \A match \in matches :
            Payload(n, PartsFor(updates[n], match)) = PartsFor(updates[n], match)
    BY <1>2, PayloadIsParts DEF UpdatesIInv
  <2> QED
    BY <2>1 DEF SentThrough
<1> DEFINE more == UNION {Made(n, PartsFor(updates[n], match)) : match \in matches}
<1>4. \A made \in more : made.parts = made.cell
  <2>1. \A match \in matches : \A made \in Made(n, PartsFor(updates[n], match)) :
            made.parts = made.cell
    BY <1>2, PayloadIsParts DEF UpdatesIInv
  <2> QED
    BY <2>1
<1>5. cache' = [cache EXCEPT ![n] = @ \cup more]
  BY <1>1
<1> HIDE DEF n, messages, more
<1>6. UpdatesInv'
  <2>1. PICK S : cache \in Seq(S)
    BY DEF UpdatesIInv, UpdatesInv, IsSequence
  <2>2. /\ cache \in [1..Len(cache) -> S] /\ Len(cache) \in Nat /\ Len(cache) = Len(updates)
    BY <2>1 DEF UpdatesIInv, UpdatesInv
  <2>3. cache' \in [1..Len(cache) -> S \cup {cache[n] \cup more}]
    BY <1>2, <1>5, <2>2
  <2>4. cache' \in Seq(S \cup {cache[n] \cup more}) /\ Len(cache') = Len(cache)
    BY <2>2, <2>3
  <2>5. \A i \in 1..Len(updates) :
            WellMade(updates[i]) /\ \A made \in cache'[i] : made.parts = made.cell
    <3>1. TAKE i \in 1..Len(updates)
    <3>2. cache'[i] = IF i = n THEN cache[i] \cup more ELSE cache[i]
      BY <1>5, <2>2
    <3> QED
      BY <1>4, <3>2 DEF UpdatesIInv, UpdatesInv
  <2> QED
    BY <1>1, <2>4, <2>5 DEF UpdatesIInv, UpdatesInv, IsSequence
<1>7. \A t \in Streams : StreamInv(t)'
  <2>1. TAKE t \in Streams
  <2>2. StreamInv(t)
    BY DEF UpdatesIInv, StreamsInv
  <2>3. CASE t = s
    <3>1. position'[t] = n /\ last'[t] = [update |-> n, sent |-> messages]
      BY <1>1, <2>3 DEF UpdatesIInv, StreamsInv
    <3>2. n # 0 /\ n \in 0..Len(updates)
      BY <1>2
    <3> QED
      BY <1>1, <1>2, <1>3, <2>2, <2>3, <3>1, <3>2 DEF StreamInv
  <2>4. CASE t # s
    <3>1. position'[t] = position[t] /\ last'[t] = last[t]
      BY <1>1, <2>4 DEF UpdatesIInv, StreamsInv
    <3> QED
      BY <1>1, <2>2, <3>1 DEF StreamInv
  <2> QED
    BY <2>3, <2>4
<1>8. StreamsInv'
  BY <1>1, <1>7 DEF UpdatesIInv, StreamsInv
<1> QED
  BY <1>6, <1>8 DEF UpdatesIInv

LEMMA StutterKeeps ==
    ASSUME UpdatesIInv, UNCHANGED vars
    PROVE  UpdatesIInv'
BY DEF UpdatesIInv, UpdatesInv, StreamsInv, StreamInv, vars, encoder, stream, SentThrough,
       PartsFor, IsSequence

LEMMA StepKeeps ==
    ASSUME UpdatesIInv, [Next]_vars
    PROVE  UpdatesIInv'
<1>1. CASE OnEvent
  BY <1>1, OnEventKeeps
<1>2. CASE EncodeTransaction
  BY <1>2, EncodeTransactionKeeps
<1>3. CASE Publish
  BY <1>3, PublishKeeps
<1>4. ASSUME NEW s \in Streams, Subscribe(s)
      PROVE  UpdatesIInv'
  BY <1>4, FollowKeeps DEF Subscribe
<1>5. ASSUME NEW s \in Streams, ReplaceFilter(s)
      PROVE  UpdatesIInv'
  BY <1>5, FollowKeeps DEF ReplaceFilter
<1>6. ASSUME NEW s \in Streams, SendFiltered(s)
      PROVE  UpdatesIInv'
  BY <1>6, SendFilteredKeeps
<1>7. CASE UNCHANGED vars
  BY <1>7, StutterKeeps
<1> QED
  BY <1>1, <1>2, <1>3, <1>4, <1>5, <1>6, <1>7 DEF Next

\* The inductive invariant: updates are only appended to and have the parts of their
\* type, cells hold what they are named for, and what a stream was sent of its last
\* update is what the compiled form of its request makes of it (CompiledFilter,
\* EventFilter::matched, PayloadProjectionCache).
THEOREM UpdatesInvariant == Spec => []UpdatesIInv
<1>1. Init => UpdatesIInv
  BY InitEstablishes
<1>2. UpdatesIInv /\ [Next]_vars => UpdatesIInv'
  BY StepKeeps
<1> QED
  BY <1>1, <1>2, PTL DEF Spec

LEMMA InvariantGivesFilters == UpdatesIInv => EachFilterForItself
<1> SUFFICES ASSUME UpdatesIInv, NEW s \in Streams, last[s].update # 0
             PROVE  LET u == updates[last[s].update]
                        names == NamesAlone(asked[s], u)
                    IN  /\ last[s].sent # {} <=>
                            DefaultAll(asked[s]) \/ u.type \in asked[s].eventTypes \/ names # {}
                        /\ \A message \in last[s].sent : message.names = names
  BY DEF EachFilterForItself, NamesAlone, Alone
<1> DEFINE u == updates[last[s].update]
           names == NamesAlone(asked[s], u)
<1>1. last[s].sent = SentThrough(EventFilter(asked[s]), u)
  BY DEF UpdatesIInv, StreamsInv, StreamInv
<1>2. Matched(EventFilter(asked[s]), u) # {} <=> Unnamed(asked[s], u) \/ names # {}
  BY MatchedByRequest
<1>3. \A match \in Matched(EventFilter(asked[s]), u) : match.names = names
  BY MatchedByRequest
<1> HIDE DEF u, names
<1>4. last[s].sent # {} <=> Unnamed(asked[s], u) \/ names # {}
  BY <1>1, <1>2 DEF SentThrough
<1>5. \A message \in last[s].sent : message.names = names
  BY <1>1, <1>3 DEF SentThrough
<1> QED
  BY <1>4, <1>5 DEF Unnamed, u, names

LEMMA InvariantGivesPayload == UpdatesIInv => PayloadAsAsked
<1> SUFFICES ASSUME UpdatesIInv, NEW s \in Streams, NEW message \in last[s].sent
             PROVE  LET u == updates[last[s].update]
                    IN  message.parts =
                          IF Unnamed(asked[s], u) THEN u.parts
                          ELSE UNION {KeptFor(asked[s].filters[n], u) : n \in message.names}
  BY DEF PayloadAsAsked, Unnamed, KeptFor
<1> DEFINE u == updates[last[s].update]
<1>1. /\ last[s].update \in 1..Len(updates)
      /\ ~Refused(asked[s])
      /\ last[s].sent = SentThrough(EventFilter(asked[s]), u)
  BY DEF UpdatesIInv, StreamsInv, StreamInv
<1>2. WellMade(u)
  BY <1>1 DEF UpdatesIInv, UpdatesInv
<1> HIDE DEF u
<1>3. PICK match \in Matched(EventFilter(asked[s]), u) :
        message = [names |-> match.names, parts |-> PartsFor(u, match)]
  BY <1>1 DEF SentThrough
<1>4. message.names = match.names /\ message.parts = PartsFor(u, match)
  BY <1>3
<1>5. PartsFor(u, match) =
        IF Unnamed(asked[s], u) THEN u.parts
        ELSE UNION {KeptFor(asked[s].filters[n], u) : n \in match.names}
  BY <1>1, <1>2, PartsForRequest
<1> QED
  BY <1>4, <1>5 DEF u

\* The named filters of a request do not influence each other (EventFilter::matched),
\* for every request, every limit and every event.
THEOREM FiltersAreIndependent == Spec => []EachFilterForItself
BY UpdatesInvariant, InvariantGivesFilters, PTL

\* A message has exactly the parts of its update that its request asks for, whatever
\* the streams that share its cells asked for before (PublishedUpdate::payload).
THEOREM PayloadsAreAsAsked == Spec => []PayloadAsAsked
BY UpdatesInvariant, InvariantGivesPayload, PTL

-----------------------------------------------------------------------------
(***************************************************************************)
(* Whole events.  What is published of an event follows from what was      *)
(* encoded of it; the invariant says which of its updates are there, and   *)
(* that all are in order.                                                  *)
(***************************************************************************)
Before(u, v) == u.event < v.event \/ (u.event = v.event /\ Place(u) < Place(v))

\* What makes an event fail to encode, which publishes nothing of it.
Fails(e) ==
    \/ IsBlock(e) /\ ~e.serializes
    \/ \E k \in ToEncode(e) : FailsToEncode(e, k)

AllOf(e, n) == {Summary(e, n)} \cup EncodedInto(e, n, ToEncode(e))

PublishedOf(n) == {u \in Range(updates) : u.event = n}

\* An event in encoding has transactions encoded, each once and none in vain.
EncoderInv ==
    /\ history \in Seq(Events) /\ Current <= MaxEvents
    /\ encoding \in BOOLEAN
    /\ finished \in Seq(Nat)
    /\ IsFiniteSet(Range(finished)) /\ Len(finished) = Cardinality(Range(finished))
    /\ encoding =>
        /\ Current # 0
        /\ IsBlock(Event) => Event.serializes
        /\ Range(finished) \subseteq ToEncode(Event)
        /\ \A k \in Range(finished) : ~FailsToEncode(Event, k)
    /\ ~encoding => finished = <<>>

\* The updates are in the order of the events and their transactions, and an event's
\* are all there, or none of them.
PublishedInv ==
    /\ IsSequence(updates)
    /\ \A i, j \in DOMAIN updates : i < j => Before(updates[i], updates[j])
    /\ \A u \in Range(updates) : u.event \in 1..Current
    /\ \A n \in 1..Current :
        PublishedOf(n) = IF Fails(history[n]) \/ (n = Current /\ encoding) THEN {}
                         ELSE AllOf(history[n], n)

LEMMA RangeOfAppend ==
    ASSUME NEW S, NEW s \in Seq(S), NEW u \in S
    PROVE  Append(s, u) \in Seq(S) /\ Range(Append(s, u)) = Range(s) \cup {u}
           /\ Len(Append(s, u)) = Len(s) + 1
<1> DEFINE r == Append(s, u)
<1>1. /\ r \in Seq(S) /\ Len(r) = Len(s) + 1 /\ Len(s) \in Nat
      /\ DOMAIN s = 1..Len(s) /\ DOMAIN r = 1..(Len(s) + 1)
      /\ \A i \in 1..Len(s) : r[i] = s[i]
      /\ r[Len(s) + 1] = u
  OBVIOUS
<1> HIDE DEF r
<1>2. 1..(Len(s) + 1) = (1..Len(s)) \cup {Len(s) + 1}
  BY <1>1
<1>3. Range(r) = Range(s) \cup {u}
  BY <1>1, <1>2 DEF Range
<1> QED
  BY <1>1, <1>3 DEF r

\* The event in encoding is one of the node's.
LEMMA EventTyped ==
    ASSUME EncoderInv, encoding
    PROVE  Event \in Events /\ Current \in 1..Current /\ Current \in Nat /\ ToEncode(Event) \subseteq Nat
<1>1. Current \in Nat /\ Current # 0 /\ history \in Seq(Events)
  BY DEF EncoderInv, Current
<1>2. Event \in Events
  <2>1. history \in [1..Current -> Events]
    BY <1>1 DEF Current
  <2> QED
    BY <1>1, <2>1 DEF Event
<1>3. DOMAIN Event.txs \subseteq Nat
  BY <1>2, EventsAssumption
<1> QED
  BY <1>1, <1>2, <1>3 DEF ToEncode

\* With all transactions encoded, as many are as the event has: collect() takes them all.
LEMMA AllEncoded ==
    ASSUME EncoderInv, encoding, Range(finished) = ToEncode(Event)
    PROVE  1..Len(finished) = ToEncode(Event)
<1>1. CASE ToEncode(Event) = {}
  <2>1. Len(finished) = 0
    BY <1>1, FS_EmptySet DEF EncoderInv
  <2> QED
    BY <1>1, <2>1
<1>2. CASE ToEncode(Event) # {}
  <2>1. /\ ToEncode(Event) = 1..Len(Event.txs) /\ Len(Event.txs) \in Nat
    BY <1>2, EventTyped, EventsAssumption DEF ToEncode
  <2>2. Cardinality(1..Len(Event.txs)) = Len(Event.txs)
    <3>1. \A m \in Nat : Cardinality(1..m) = m
      <4> TAKE m \in Nat
      <4>1. Cardinality(1..m) = IF 1 > m THEN 0 ELSE m - 1 + 1
        BY FS_Interval
      <4> QED
        BY <4>1
    <3> QED
      BY <2>1, <3>1
  <2> QED
    BY <2>1, <2>2 DEF EncoderInv
<1> QED
  BY <1>1, <1>2

LEMMA EmptyFinished ==
    /\ <<>> \in Seq(Nat) /\ Range(<<>>) = {}
    /\ IsFiniteSet(Range(<<>>)) /\ Len(<<>>) = Cardinality(Range(<<>>))
<1>1. Range(<<>>) = {}
  BY Nothing
<1> QED
  BY <1>1, FS_EmptySet

LEMMA OnEventEncoder ==
    ASSUME EncoderInv, OnEvent
    PROVE  /\ EncoderInv'
           /\ Current' = Current + 1 /\ Current \in Nat
           /\ \A n \in 1..Current : history'[n] = history[n]
           /\ Fails(history'[Current']) \/ encoding'
<1>1. PICK e \in Events : history' = Append(history, e) /\ encoding' = (IsBlock(e) => e.serializes)
  BY DEF OnEvent
<1>2. /\ history' \in Seq(Events) /\ Len(history') = Len(history) + 1 /\ Len(history) \in Nat
      /\ history'[Len(history) + 1] = e
      /\ \A n \in 1..Len(history) : history'[n] = history[n]
  BY <1>1 DEF EncoderInv
<1>3. Event' = e /\ Current' = Current + 1 /\ Current \in Nat /\ Current' # 0
  BY <1>2 DEF Event, Current
<1>4. Current' <= MaxEvents
  BY <1>3, UpdatesAssumption DEF OnEvent
<1>5. EncoderInv'
  BY <1>1, <1>2, <1>3, <1>4, EmptyFinished DEF EncoderInv, OnEvent
<1>6. Fails(e) \/ encoding'
  BY <1>1 DEF Fails
<1> QED
  BY <1>2, <1>3, <1>5, <1>6 DEF Current

LEMMA EncodeEncoder ==
    ASSUME EncoderInv, EncodeTransaction
    PROVE  EncoderInv' /\ (encoding' \/ Fails(Event)) /\ encoding
<1>1. PICK k \in ToEncode(Event) \ Range(finished) :
        /\ encoding' = ~FailsToEncode(Event, k)
        /\ finished' = IF FailsToEncode(Event, k) THEN <<>> ELSE Append(finished, k)
  BY DEF EncodeTransaction
<1>2. encoding /\ history' = history /\ Event' = Event /\ Current' = Current
  BY DEF EncodeTransaction, Event, Current
<1>3. CASE FailsToEncode(Event, k)
  <2>1. encoding' = FALSE /\ finished' = <<>> /\ Fails(Event)
    BY <1>1, <1>3 DEF Fails
  <2> QED
    BY <1>2, <2>1, EmptyFinished DEF EncoderInv
<1>4. CASE ~FailsToEncode(Event, k)
  <2>1. encoding' = TRUE /\ finished' = Append(finished, k)
    BY <1>1, <1>4
  <2>2. k \in Nat /\ finished \in Seq(Nat) /\ Len(finished) \in Nat
    BY <1>2, EventTyped DEF EncoderInv
  <2>3. /\ finished' \in Seq(Nat) /\ Range(finished') = Range(finished) \cup {k}
        /\ Len(finished') = Len(finished) + 1
    BY <2>1, <2>2, RangeOfAppend
  <2>4. k \notin Range(finished)
    BY <1>1
  <2>5. /\ IsFiniteSet(Range(finished'))
        /\ Cardinality(Range(finished')) = Cardinality(Range(finished)) + 1
    BY <1>2, <2>3, <2>4, FS_AddElement DEF EncoderInv
  <2> QED
    BY <1>1, <1>2, <1>4, <2>1, <2>2, <2>3, <2>5 DEF EncoderInv
<1> QED
  BY <1>2, <1>3, <1>4

LEMMA EventOfAll ==
    ASSUME NEW e, NEW n, NEW u \in AllOf(e, n)
    PROVE  u.event = n
<1>1. Summary(e, n).event = n
  BY DEF Summary, IsBlock, IsBestChain
<1>2. \A k : TransactionUpdate(e, n, k).event = n /\ UtxoUpdate(e, n, k).event = n
  BY DEF TransactionUpdate, UtxoUpdate
<1> QED
  BY <1>1, <1>2 DEF AllOf, EncodedInto

\* A step that publishes nothing: an event that came to its end had to.
LEMMA NothingPublished ==
    ASSUME PublishedInv, updates' = updates, Current \in Nat, Current' \in Nat,
           Current <= Current',
           \A n \in 1..Current : history'[n] = history[n],
           \A n \in 1..Current : (Fails(history[n]) \/ (n = Current' /\ encoding'))
                                    <=> (Fails(history[n]) \/ (n = Current /\ encoding)),
           \A n \in 1..Current' : n > Current =>
                Fails(history'[n]) \/ (n = Current' /\ encoding')
    PROVE  PublishedInv'
<1>1. \A u \in Range(updates') : u.event \in 1..Current'
  BY DEF PublishedInv
<1>2. ASSUME NEW n \in 1..Current'
      PROVE  PublishedOf(n)' = IF Fails(history'[n]) \/ (n = Current' /\ encoding') THEN {}
                               ELSE AllOf(history'[n], n)
  <2>1. PublishedOf(n)' = PublishedOf(n)
    BY DEF PublishedOf
  <2>2. CASE n \in 1..Current
    BY <2>1, <2>2 DEF PublishedInv
  <2>3. CASE n \notin 1..Current
    <3>1. n > Current
      BY <2>3
    <3>2. PublishedOf(n) = {}
      BY <2>3 DEF PublishedOf, PublishedInv
    <3> QED
      BY <2>1, <3>1, <3>2
  <2> QED
    BY <2>2, <2>3
<1> QED
  BY <1>1, <1>2 DEF PublishedInv, IsSequence

LEMMA OnEventPublished ==
    ASSUME EncoderInv, PublishedInv, OnEvent
    PROVE  PublishedInv'
<1>1. /\ Current' = Current + 1 /\ Current \in Nat
      /\ \A n \in 1..Current : history'[n] = history[n]
      /\ Fails(history'[Current']) \/ encoding'
  BY OnEventEncoder
<1>2. ~encoding /\ updates' = updates
  BY DEF OnEvent
<1>3. \A n \in 1..Current : n # Current'
  BY <1>1
<1>4. \A n \in 1..Current' : n > Current => n = Current'
  BY <1>1
<1>5. Current' \in Nat /\ Current <= Current'
  BY <1>1
<1> QED
  BY <1>1, <1>2, <1>3, <1>4, <1>5, NothingPublished

LEMMA EncodePublished ==
    ASSUME EncoderInv, PublishedInv, EncodeTransaction
    PROVE  PublishedInv'
<1>1. (encoding' \/ Fails(Event)) /\ encoding
  BY EncodeEncoder
<1>2. history' = history /\ Current' = Current /\ updates' = updates /\ Event = history[Current]
  BY DEF EncodeTransaction, Current, Event
<1>3. Current \in Nat
  BY DEF EncoderInv, Current
<1>4. Fails(history[Current]) \/ encoding'
  BY <1>1, <1>2
<1>5. \A n \in 1..Current : (Fails(history[n]) \/ (n = Current' /\ encoding'))
                                <=> (Fails(history[n]) \/ (n = Current /\ encoding))
  BY <1>1, <1>2, <1>4
<1>6. \A n \in 1..Current' : ~(n > Current)
  BY <1>2, <1>3
<1>7. Current' \in Nat /\ Current <= Current'
  BY <1>2, <1>3
<1> QED
  BY <1>2, <1>3, <1>5, <1>6, <1>7, NothingPublished

LEMMA PublishEncoder ==
    ASSUME EncoderInv, Publish
    PROVE  EncoderInv'
<1>1. encoding' = FALSE /\ finished' = <<>> /\ history' = history
  BY DEF Publish
<1> QED
  BY <1>1, EmptyFinished DEF EncoderInv, Current

LEMMA PublishPublished ==
    ASSUME EncoderInv, PublishedInv, Publish
    PROVE  PublishedInv'
<1>1. /\ encoding /\ ~encoding' /\ history' = history /\ Current' = Current
      /\ Range(finished) = ToEncode(Event) /\ updates' = updates \o Collected
  BY DEF Publish, Current
<1>2. Current \in 1..Current /\ Current \in Nat
  BY <1>1, EventTyped
<1>3. ~Fails(history[Current])
  BY <1>1 DEF EncoderInv, Fails, Event
<1> DEFINE all == AllOf(Event, Current)
           new == Collected
<1>4. new \in Seq(all) /\ Range(new) = all /\ InPlace(new)
  <2>1. 1..Len(finished) = ToEncode(Event) /\ Len(finished) \in Nat
    BY <1>1, AllEncoded DEF EncoderInv
  <2> QED
    BY <2>1, CollectedInPlace DEF AllOf
<1>5. \A u \in all : u.event = Current
  BY EventOfAll
<1>6. IsSequence(new) /\ IsSequence(updates)
  BY <1>4 DEF IsSequence, PublishedInv
<1>7. PublishedOf(Current) = {}
  BY <1>1, <1>2 DEF PublishedInv
<1>8. \A u \in Range(updates) : u.event \in 1..Current /\ u.event # Current
  BY <1>7 DEF PublishedInv, PublishedOf
<1>9. Event = history[Current]
  BY DEF Event
<1> HIDE DEF new, all
<1>10. /\ IsSequence(updates')
       /\ \A i \in DOMAIN updates' :
            \/ i \in DOMAIN updates /\ updates'[i] = updates[i]
            \/ /\ i > Len(updates) /\ i - Len(updates) \in DOMAIN new
               /\ updates'[i] = new[i - Len(updates)]
       /\ Range(updates') = Range(updates) \cup Range(new)
  BY <1>1, <1>6, PartsOfJoined, Concatenation DEF new
<1>11. /\ DOMAIN updates = 1..Len(updates) /\ Len(updates) \in Nat
       /\ DOMAIN new = 1..Len(new) /\ Len(new) \in Nat
       /\ DOMAIN updates' = 1..(Len(updates) + Len(new))
  <2>1. DOMAIN new = 1..Len(new)
    BY <1>6 DEF IsSequence
  <2> QED
    BY <1>1, <1>6, <2>1, Concatenation DEF new
<1>12. ASSUME NEW i \in DOMAIN updates', NEW j \in DOMAIN updates', i < j
       PROVE  Before(updates'[i], updates'[j])
  <2>1. CASE j \in DOMAIN updates /\ updates'[j] = updates[j]
    <3>1. i \in DOMAIN updates /\ updates'[i] = updates[i]
      BY <1>10, <1>11, <1>12, <2>1
    <3> QED
      BY <1>12, <2>1, <3>1 DEF PublishedInv
  <2>2. CASE /\ j > Len(updates) /\ j - Len(updates) \in DOMAIN new
             /\ updates'[j] = new[j - Len(updates)]
    <3>1. new[j - Len(updates)].event = Current
      BY <1>4, <1>5, <2>2 DEF Range
    <3>2. CASE i \in DOMAIN updates /\ updates'[i] = updates[i]
      <4>1. updates[i].event < Current
        BY <1>2, <1>8, <3>2 DEF Range
      <4> QED
        BY <2>2, <3>1, <3>2, <4>1 DEF Before
    <3>3. CASE /\ i > Len(updates) /\ i - Len(updates) \in DOMAIN new
               /\ updates'[i] = new[i - Len(updates)]
      <4>1. new[i - Len(updates)].event = Current
        BY <1>4, <1>5, <3>3 DEF Range
      <4>2. i - Len(updates) < j - Len(updates)
        BY <1>11, <1>12
      <4>3. Place(new[i - Len(updates)]) < Place(new[j - Len(updates)])
        BY <1>4, <2>2, <3>3, <4>2 DEF InPlace
      <4> QED
        BY <2>2, <3>1, <3>3, <4>1, <4>3 DEF Before
    <3> QED
      BY <1>10, <3>2, <3>3
  <2> QED
    BY <1>10, <2>1, <2>2
<1>13. \A u \in Range(updates') : u.event \in 1..Current'
  BY <1>1, <1>2, <1>4, <1>5, <1>8, <1>10
<1>14. ASSUME NEW n \in 1..Current'
       PROVE  PublishedOf(n)' = IF Fails(history'[n]) \/ (n = Current' /\ encoding') THEN {}
                                ELSE AllOf(history'[n], n)
  <2>1. PublishedOf(n)' = PublishedOf(n) \cup {u \in all : u.event = n}
    BY <1>4, <1>10 DEF PublishedOf
  <2>2. CASE n = Current
    <3>1. PublishedOf(n)' = all
      BY <1>5, <1>7, <2>1, <2>2
    <3> QED
      BY <1>1, <1>3, <1>9, <2>2, <3>1 DEF all
  <2>3. CASE n # Current
    <3>1. PublishedOf(n)' = PublishedOf(n)
      BY <1>5, <2>1, <2>3
    <3> QED
      BY <1>1, <2>3, <3>1 DEF PublishedInv
  <2> QED
    BY <2>2, <2>3
<1> QED
  BY <1>10, <1>12, <1>13, <1>14 DEF PublishedInv

\* The inductive invariant of encoding: what is published is in order, and of each
\* event all or nothing.
WholeInv == EncoderInv /\ PublishedInv

LEMMA WholeUnchanged ==
    ASSUME WholeInv, UNCHANGED <<history, encoding, finished, updates>>
    PROVE  WholeInv'
BY DEF WholeInv, EncoderInv, PublishedInv, PublishedOf, Current, Event, IsSequence, Before

LEMMA WholeInitially == Init => WholeInv
<1> SUFFICES ASSUME Init PROVE WholeInv
  OBVIOUS
<1>1. history = <<>> /\ updates = <<>> /\ finished = <<>> /\ encoding = FALSE
  BY DEF Init
<1>2. Current = 0 /\ history \in Seq(Events)
  BY <1>1 DEF Current
<1>3. EncoderInv
  <2>1. Current <= MaxEvents
    BY <1>2, UpdatesAssumption
  <2>2. /\ finished \in Seq(Nat) /\ IsFiniteSet(Range(finished))
        /\ Len(finished) = Cardinality(Range(finished))
    BY <1>1, EmptyFinished
  <2> QED
    BY <1>1, <1>2, <2>1, <2>2 DEF EncoderInv
<1>4. IsSequence(updates) /\ DOMAIN updates = {} /\ Range(updates) = {}
  <2>1. <<>> \in Seq({}) /\ DOMAIN <<>> = {}
    OBVIOUS
  <2> QED
    BY <1>1, <2>1, Nothing DEF IsSequence
<1>5. PublishedInv
  BY <1>2, <1>4 DEF PublishedInv
<1> QED
  BY <1>3, <1>5 DEF WholeInv

LEMMA WholeStep ==
    ASSUME WholeInv, [Next]_vars
    PROVE  WholeInv'
<1>1. CASE OnEvent
  BY <1>1, OnEventEncoder, OnEventPublished DEF WholeInv
<1>2. CASE EncodeTransaction
  BY <1>2, EncodeEncoder, EncodePublished DEF WholeInv
<1>3. CASE Publish
  BY <1>3, PublishEncoder, PublishPublished DEF WholeInv
<1>4. ASSUME NEW s \in Streams, Subscribe(s) \/ ReplaceFilter(s) \/ SendFiltered(s)
      PROVE  WholeInv'
  <2>1. UNCHANGED <<history, encoding, finished, updates>>
    BY <1>4 DEF Subscribe, ReplaceFilter, SendFiltered, Follow, encoder
  <2> QED
    BY <2>1, WholeUnchanged
<1>5. CASE UNCHANGED vars
  <2>1. UNCHANGED <<history, encoding, finished, updates>>
    BY <1>5 DEF vars, encoder
  <2> QED
    BY <2>1, WholeUnchanged
<1> QED
  BY <1>1, <1>2, <1>3, <1>4, <1>5 DEF Next

\* What is published of an event is whole and in order, in every reachable state
\* (encode_event and on_event).
THEOREM EventsStayWhole == Spec => []WholeInv
<1>1. Init => WholeInv
  BY WholeInitially
<1>2. WholeInv /\ [Next]_vars => WholeInv'
  BY WholeStep
<1> QED
  BY <1>1, <1>2, PTL DEF Spec

LEMMA UpdatesOfTransaction ==
    ASSUME NEW e, NEW n, NEW k \in Nat
    PROVE  TransactionUpdatesOf(e, n, k) # <<>> <=> EncodedInto(e, n, {k}) # {}
<1> DEFINE S == EncodedInto(e, n, {k})
           s == TransactionUpdatesOf(e, n, k)
<1>1. s \in Seq(S) /\ Range(s) = S
  <2>1. S \subseteq S
    OBVIOUS
  <2> HIDE DEF S
  <2> QED
    BY <2>1, OfTransaction DEF S
<1> HIDE DEF S, s
<1>2. ASSUME s = <<>> PROVE S = {}
  BY <1>1, <1>2, Nothing
<1>3. ASSUME s # <<>> PROVE S # {}
  <2>1. Len(s) # 0 /\ Len(s) \in Nat /\ DOMAIN s = 1..Len(s)
    BY <1>1, <1>3
  <2>2. 1 \in DOMAIN s
    BY <2>1
  <2>3. s[1] \in Range(s)
    BY <2>2 DEF Range
  <2> QED
    BY <1>1, <2>3
<1> QED
  BY <1>2, <1>3 DEF S, s

\* The transactions an event has updates of, and 0 for its summary.
LEMMA IndexesOfAll ==
    ASSUME NEW e, NEW n, ToEncode(e) \subseteq Nat
    PROVE  {u.index : u \in AllOf(e, n)}
                = {0} \cup {k \in ToEncode(e) : TransactionUpdatesOf(e, n, k) # <<>>}
<1> DEFINE T == {k \in ToEncode(e) : TransactionUpdatesOf(e, n, k) # <<>>}
<1>1. Summary(e, n).index = 0
  BY DEF Summary, IsBlock, IsBestChain
<1>2. \A k : TransactionUpdate(e, n, k).index = k /\ UtxoUpdate(e, n, k).index = k
  BY DEF TransactionUpdate, UtxoUpdate
<1>3. \A k \in ToEncode(e) : k \in T <=> EncodedInto(e, n, {k}) # {}
  BY UpdatesOfTransaction
<1> HIDE DEF T
<1>4. T \subseteq ToEncode(e)
  BY DEF T
<1>5. ASSUME NEW u \in AllOf(e, n) PROVE u.index \in {0} \cup T
  <2>1. CASE u = Summary(e, n)
    BY <1>1, <2>1
  <2>2. CASE u \in EncodedInto(e, n, ToEncode(e))
    <3>1. PICK k \in ToEncode(e) : u \in EncodedInto(e, n, {k}) /\ u.index = k
      BY <1>2, <2>2 DEF EncodedInto
    <3> QED
      BY <1>3, <3>1
  <2> QED
    BY <2>1, <2>2 DEF AllOf
<1>6. ASSUME NEW k \in T PROVE \E u \in AllOf(e, n) : u.index = k
  <2>1. PICK u \in EncodedInto(e, n, {k}) : TRUE
    BY <1>3, <1>4
  <2>2. u.index = k
    BY <1>2 DEF EncodedInto
  <2>3. u \in AllOf(e, n)
    BY <1>4 DEF AllOf, EncodedInto
  <2> QED
    BY <2>2, <2>3
<1>7. Summary(e, n) \in AllOf(e, n)
  BY DEF AllOf
<1> QED
  BY <1>1, <1>5, <1>6, <1>7 DEF T

LEMMA OrderOfUpdates ==
    ASSUME WholeInv
    PROVE  /\ Current \in Nat /\ DOMAIN history = 1..Current
           /\ \A n \in 1..Current : history[n] \in Events
           /\ DOMAIN updates = 1..Len(updates) /\ Len(updates) \in Nat
           /\ \A i \in DOMAIN updates : updates[i].event \in 1..Current
<1>1. history \in Seq(Events) /\ IsSequence(updates)
  BY DEF WholeInv, EncoderInv, PublishedInv
<1>2. \A n \in DOMAIN history : history[n] \in Events
  BY <1>1
<1>3. \A i \in DOMAIN updates : updates[i].event \in 1..Current
  BY DEF WholeInv, PublishedInv, Range
<1> QED
  BY <1>1, <1>2, <1>3 DEF Current, IsSequence

LEMMA EncodedAreNumbered ==
    ASSUME NEW e \in Events
    PROVE  ToEncode(e) \subseteq Nat
BY EventsAssumption DEF ToEncode

LEMMA InvariantGivesWhole == WholeInv => UpdatesWhole
<1> SUFFICES ASSUME WholeInv PROVE UpdatesWhole
  OBVIOUS
<1> DEFINE Of(n) == {i \in DOMAIN updates : updates[i].event = n}
<1>1. ASSUME NEW i \in 2..Len(updates)
      PROVE  updates[i - 1].event <= updates[i].event
  <2>1. i - 1 \in DOMAIN updates /\ i \in DOMAIN updates /\ i - 1 < i
    BY OrderOfUpdates
  <2>2. Before(updates[i - 1], updates[i])
    BY <2>1 DEF WholeInv, PublishedInv
  <2>3. updates[i - 1].event \in 1..Current /\ updates[i].event \in 1..Current
    BY <2>1, OrderOfUpdates
  <2> QED
    BY <2>2, <2>3, OrderOfUpdates DEF Before
<1>2. ASSUME NEW n \in DOMAIN history
      PROVE  \/ Of(n) = {} /\ (Fails(history[n]) \/ (n = Current /\ encoding))
             \/ /\ ~Fails(history[n])
                /\ \A i, j \in Of(n) : i < j => Place(updates[i]) < Place(updates[j])
                /\ {updates[i].index : i \in Of(n)} =
                     {0} \cup {k \in ToEncode(history[n]) :
                                 TransactionUpdatesOf(history[n], n, k) # <<>>}
  <2>1. n \in 1..Current /\ history[n] \in Events /\ n \in Nat
    BY <1>2, OrderOfUpdates
  <2>2. PublishedOf(n) = IF Fails(history[n]) \/ (n = Current /\ encoding) THEN {}
                         ELSE AllOf(history[n], n)
    BY <2>1 DEF WholeInv, PublishedInv
  <2>3. PublishedOf(n) = {updates[i] : i \in Of(n)}
    BY DEF PublishedOf, Range
  <2>4. CASE Fails(history[n]) \/ (n = Current /\ encoding)
    BY <2>2, <2>3, <2>4
  <2>5. CASE ~(Fails(history[n]) \/ (n = Current /\ encoding))
    <3>1. \A i, j \in Of(n) : i < j => Place(updates[i]) < Place(updates[j])
      BY <2>1 DEF WholeInv, PublishedInv, Before
    <3>2. {updates[i].index : i \in Of(n)} = {u.index : u \in PublishedOf(n)}
      <4> HIDE DEF Of
      <4> QED
        BY <2>3
    <3>3. {u.index : u \in PublishedOf(n)} =
            {0} \cup {k \in ToEncode(history[n]) : TransactionUpdatesOf(history[n], n, k) # <<>>}
      BY <2>1, <2>2, <2>5, EncodedAreNumbered, IndexesOfAll
    <3> QED
      BY <2>5, <3>1, <3>2, <3>3
  <2> QED
    BY <2>4, <2>5
<1> QED
  BY <1>1, <1>2 DEF UpdatesWhole, Place, Fails

\* An event is published whole and in the order of its transactions, or not at all, for
\* every number of threads and transactions and every failure (encode_event, on_event).
THEOREM EventsArePublishedWhole == Spec => []UpdatesWhole
BY EventsStayWhole, InvariantGivesWhole, PTL

\* Where the UTXO update of a transaction is, the transaction's own update is the one
\* before it, if that is a transaction's.
LEMMA UtxosFollowTransaction ==
    ASSUME WholeInv, NEW i \in DOMAIN updates, NEW j \in DOMAIN updates, i = j - 1,
           updates[j].type = "utxo", updates[i].type = "transaction"
    PROVE  \E e, n, k : /\ IsBlock(e)
                        /\ updates[i] = TransactionUpdate(e, n, k)
                        /\ updates[j] = UtxoUpdate(e, n, k)
<1> DEFINE n == updates[j].event
           m == updates[i].event
           e == history[n]
           d == history[m]
<1>1. n \in 1..Current /\ m \in 1..Current /\ Current \in Nat
      /\ DOMAIN updates = 1..Len(updates) /\ Len(updates) \in Nat
  BY OrderOfUpdates
<1>2. e \in Events /\ d \in Events
  BY <1>1, OrderOfUpdates
<1>3. updates[j] \in PublishedOf(n) /\ updates[i] \in PublishedOf(m)
  BY DEF PublishedOf, Range
<1>4. PublishedOf(n) = AllOf(e, n) /\ PublishedOf(m) = AllOf(d, m)
  BY <1>1, <1>3 DEF WholeInv, PublishedInv
<1>5. \A a, b, c : /\ Summary(a, b).type \notin {"utxo", "transaction"}
                   /\ TransactionUpdate(a, b, c).type # "utxo"
                   /\ TransactionUpdate(a, b, c).type = "transaction" => IsBlock(a)
                   /\ UtxoUpdate(a, b, c).type = "utxo"
  BY DEF Summary, IsBlock, IsBestChain, TransactionUpdate, UtxoUpdate
<1>6. PICK k \in ToEncode(e) : updates[j] = UtxoUpdate(e, n, k) /\ IsBlock(e)
  <2>1. updates[j] \in AllOf(e, n)
    BY <1>3, <1>4
  <2> QED
    BY <1>5, <2>1 DEF AllOf, EncodedInto
<1>7. PICK l \in ToEncode(d) : updates[i] = TransactionUpdate(d, m, l) /\ TransactionUpdates
  <2>1. updates[i] \in AllOf(d, m)
    BY <1>3, <1>4
  <2> QED
    BY <1>5, <2>1 DEF AllOf, EncodedInto
<1>8. k \in Nat /\ l \in Nat
  BY <1>2, EncodedAreNumbered
<1>9. PICK p \in DOMAIN updates : updates[p] = TransactionUpdate(e, n, k)
  <2>1. TransactionUpdate(e, n, k) \in AllOf(e, n)
    BY <1>7 DEF AllOf, EncodedInto
  <2> QED
    BY <1>4, <2>1 DEF PublishedOf, Range
<1>10. updates[p].event = n
  BY <1>9 DEF TransactionUpdate
<1>11. Place(updates[p]) = 2 * k /\ Place(updates[j]) = 2 * k + 1 /\ Place(updates[i]) = 2 * l
  BY <1>6, <1>7, <1>8, <1>9, PlaceOf
<1> HIDE DEF n, m, e, d
<1>12. updates[j].event = n /\ updates[i].event = m
  BY DEF n, m
<1>13. \A a, b \in DOMAIN updates : a < b => Before(updates[a], updates[b])
  BY DEF WholeInv, PublishedInv
<1>14. p \in Nat /\ i \in Nat /\ j \in Nat /\ n \in Nat /\ m \in Nat
  BY <1>1
<1>15. ~(j < p)
  BY <1>8, <1>10, <1>11, <1>12, <1>13, <1>14 DEF Before
<1>16. p # j
  BY <1>8, <1>11
<1>17. ~(p < i)
  <2> SUFFICES ASSUME p < i PROVE FALSE
    OBVIOUS
  <2>1. Before(updates[p], updates[i]) /\ Before(updates[i], updates[j])
    BY <1>13, <1>14
  <2>2. n < m \/ (n = m /\ 2 * k < 2 * l)
    BY <1>10, <1>11, <1>12, <2>1 DEF Before
  <2>3. m < n \/ (m = n /\ 2 * l < 2 * k + 1)
    BY <1>11, <1>12, <2>1 DEF Before
  <2> QED
    BY <1>8, <1>14, <2>2, <2>3
<1>18. p = i
  BY <1>14, <1>15, <1>16, <1>17
<1> QED
  BY <1>6, <1>9, <1>18

LEMMA InvariantGivesUtxos == WholeInv /\ UpdatesIInv => TransactionWithItsUtxos
<1> SUFFICES ASSUME WholeInv, UpdatesIInv, NEW s \in Streams,
                    last[s].update > 1,
                    updates[last[s].update].type = "utxo",
                    updates[last[s].update - 1].type = "transaction"
             PROVE  LET j == last[s].update
                        i == j - 1
                    IN  /\ updates[i].event = updates[j].event
                        /\ updates[i].index = updates[j].index
                        /\ NamesOfAnyType(filter[s], updates[i])
                                = NamesOfAnyType(filter[s], updates[j])
  BY DEF TransactionWithItsUtxos, NamesOfAnyType
<1> DEFINE j == last[s].update
           i == j - 1
<1>1. last[s].update \in Nat \/ last[s].update = 0
  BY OrderOfUpdates DEF UpdatesIInv, StreamsInv, StreamInv
<1>2. last[s].update # 0
  BY <1>1
<1>3. j \in 1..Len(updates) /\ filter[s] = EventFilter(asked[s])
  BY <1>2 DEF UpdatesIInv, StreamsInv, StreamInv
<1>4. DOMAIN updates = 1..Len(updates) /\ Len(updates) \in Nat
  BY OrderOfUpdates
<1>5. i \in DOMAIN updates /\ j \in DOMAIN updates
  BY <1>3, <1>4
<1> HIDE DEF j
<1>6. PICK e, n, k : /\ IsBlock(e)
                     /\ updates[i] = TransactionUpdate(e, n, k)
                     /\ updates[j] = UtxoUpdate(e, n, k)
  <2>1. updates[j].type = "utxo" /\ updates[i].type = "transaction"
    BY DEF j
  <2> QED
    BY <1>5, <2>1, UtxosFollowTransaction
<1>7. updates[i].event = updates[j].event /\ updates[i].index = updates[j].index
  BY <1>6 DEF TransactionUpdate, UtxoUpdate
<1>8. NamesOfAnyType(filter[s], updates[i]) = NamesOfAnyType(filter[s], updates[j])
  BY <1>3, <1>6, UtxosAgreeWithTransaction
<1> QED
  BY <1>7, <1>8 DEF j

\* A named filter that does not choose between event types is given a transaction if and
\* only if it is given its UTXO changes, which follow it at once
\* (encode_transaction_updates, append_block_updates).
THEOREM UtxosGoWithTheirTransaction == Spec => []TransactionWithItsUtxos
BY EventsStayWhole, UpdatesInvariant, InvariantGivesUtxos, PTL

-----------------------------------------------------------------------------
(***************************************************************************)
(* Notations.  A request and the same in the canonical notation are both   *)
(* refused or neither is, if the rewriting makes no list shorter: the code *)
(* counts the entries of a list, whether or not two of them are the same   *)
(* address, and a list is the set of its entries here.                     *)
(***************************************************************************)
ListsOf(f) == [list \in {"transaction_ids"} \cup AddressLists |->
                  IF list = "transaction_ids" THEN f.ids ELSE f.addresses[list]]

\* No list has an address or an ID in two notations.
NoneTwice ==
    \A request \in Requests : \A n \in DOMAIN request.filters :
        LET lists == ListsOf(request.filters[n]) IN
        \A list \in DOMAIN lists :
            Cardinality(Canonical(list, lists[list])) = Cardinality(lists[list])

ParsedFilter(f) ==
    /\ \A id \in f.ids : Parses("transaction_ids", id)
    /\ \A list \in AddressLists : \A a \in f.addresses[list] : Parses(list, a)

\* The fields of a filter of a request, as the protocol has them.
FilterFields(f) ==
    /\ DOMAIN f = DOMAIN NoFilter
    /\ f.addresses = [list \in AddressLists |-> f.addresses[list]]
    /\ \A id \in f.ids : DOMAIN id = {"hash", "written"}
    /\ \A list \in AddressLists : \A a \in f.addresses[list] : DOMAIN a = {"kind", "hash"}

RewrittenFilter(f) ==
    [f EXCEPT !.ids = Canonical("transaction_ids", @),
              !.addresses = [list \in AddressLists |-> Canonical(list, @[list])]]

LEMMA RequestFields ==
    ASSUME NEW request \in Requests
    PROVE  /\ WellFormed(request)
           /\ \A n \in DOMAIN request.filters : FilterFields(request.filters[n])
BY RequestsAssumption DEF WellFormed, FilterFields

LEMMA RewrittenFields ==
    ASSUME NEW f, FilterFields(f)
    PROVE  LET h == RewrittenFilter(f) IN
           /\ DOMAIN h = DOMAIN NoFilter
           /\ h.ids = Canonical("transaction_ids", f.ids)
           /\ h.addresses = [list \in AddressLists |-> Canonical(list, f.addresses[list])]
           /\ h.eventTypes = f.eventTypes /\ h.minHeight = f.minHeight
           /\ h.coinbase = f.coinbase /\ h.version = f.version /\ h.has = f.has
           /\ h.minValue = f.minValue /\ h.block = f.block /\ h.transaction = f.transaction
<1> DEFINE h == RewrittenFilter(f)
<1>1. DOMAIN f = DOMAIN NoFilter
  BY DEF FilterFields
<1>2. {"ids", "addresses", "eventTypes", "minHeight", "coinbase", "version", "has",
       "minValue", "block", "transaction"} \subseteq DOMAIN f
  BY <1>1 DEF NoFilter
<1>3. h = [f EXCEPT !.ids = Canonical("transaction_ids", @),
                    !.addresses = [list \in AddressLists |-> Canonical(list, @[list])]]
  BY DEF RewrittenFilter
<1> HIDE DEF h
<1> QED
  BY <1>1, <1>2, <1>3 DEF h

LEMMA EmptyByFields ==
    ASSUME NEW f, DOMAIN f = DOMAIN NoFilter
    PROVE  IsEmptyFilter(f) <=>
             /\ f.eventTypes = {} /\ f.minHeight = {} /\ f.ids = {}
             /\ f.addresses = [list \in AddressLists |-> {}]
             /\ f.coinbase = {} /\ f.version = {}
             /\ f.has = [feature \in Features |-> {}] /\ f.minValue = {}
<1> DEFINE g == [f EXCEPT !.block = NoFilter.block, !.transaction = NoFilter.transaction]
           names == {"eventTypes", "minHeight", "ids", "addresses", "coinbase", "version", "has",
                     "minValue", "block", "transaction"}
<1>1. DOMAIN NoFilter = names
  BY DEF NoFilter
<1>2. /\ DOMAIN g = names
      /\ g.block = NoFilter.block /\ g.transaction = NoFilter.transaction
      /\ g.eventTypes = f.eventTypes /\ g.minHeight = f.minHeight /\ g.ids = f.ids
      /\ g.addresses = f.addresses /\ g.coinbase = f.coinbase /\ g.version = f.version
      /\ g.has = f.has /\ g.minValue = f.minValue
  BY <1>1
<1>3. g = [x \in names |-> g[x]]
  BY <1>1
<1>4. NoFilter = [x \in names |-> NoFilter[x]]
  BY <1>1 DEF NoFilter
<1> HIDE DEF g
<1>5. g = NoFilter <=> \A x \in names : g[x] = NoFilter[x]
  BY <1>3, <1>4
<1>6. /\ NoFilter.eventTypes = {} /\ NoFilter.minHeight = {} /\ NoFilter.ids = {}
      /\ NoFilter.addresses = [list \in AddressLists |-> {}]
      /\ NoFilter.coinbase = {} /\ NoFilter.version = {}
      /\ NoFilter.has = [feature \in Features |-> {}] /\ NoFilter.minValue = {}
  BY DEF NoFilter
<1>7. IsEmptyFilter(f) <=> g = NoFilter
  BY DEF IsEmptyFilter, g
<1> QED
  BY <1>2, <1>5, <1>6, <1>7

LEMMA RewrittenIsEmpty ==
    ASSUME NEW f, FilterFields(f)
    PROVE  IsEmptyFilter(RewrittenFilter(f)) <=> IsEmptyFilter(f)
<1> DEFINE h == RewrittenFilter(f)
<1>1. /\ DOMAIN h = DOMAIN NoFilter /\ DOMAIN f = DOMAIN NoFilter
      /\ h.ids = Canonical("transaction_ids", f.ids)
      /\ h.addresses = [list \in AddressLists |-> Canonical(list, f.addresses[list])]
      /\ h.eventTypes = f.eventTypes /\ h.minHeight = f.minHeight
      /\ h.coinbase = f.coinbase /\ h.version = f.version /\ h.has = f.has
      /\ h.minValue = f.minValue
  BY RewrittenFields DEF FilterFields
<1>2. \A list, values : Canonical(list, values) = {} <=> values = {}
  BY DEF Canonical
<1>3. f.addresses = [list \in AddressLists |-> f.addresses[list]]
  BY DEF FilterFields
<1> HIDE DEF h
<1>4. h.addresses = [list \in AddressLists |-> {}] <=> f.addresses = [list \in AddressLists |-> {}]
  <2>1. h.addresses = [list \in AddressLists |-> {}]
            <=> \A list \in AddressLists : Canonical(list, f.addresses[list]) = {}
    BY <1>1
  <2>2. f.addresses = [list \in AddressLists |-> {}]
            <=> \A list \in AddressLists : f.addresses[list] = {}
    BY <1>3
  <2> QED
    BY <1>2, <2>1, <2>2
<1>5. h.ids = {} <=> f.ids = {}
  BY <1>1, <1>2
<1> QED
  BY <1>1, <1>4, <1>5, EmptyByFields DEF h

LEMMA RewrittenList ==
    ASSUME NEW list \in {"transaction_ids"} \cup AddressLists, NEW values,
           \A v \in values : Parses(list, v),
           \A v \in values : DOMAIN v = IF list = "transaction_ids" THEN {"hash", "written"}
                                        ELSE {"kind", "hash"},
           Cardinality(Canonical(list, values)) = Cardinality(values)
    PROVE  RefusedList(list, Canonical(list, values)) <=> RefusedList(list, values)
<1>1. \A v \in Canonical(list, values) : Parses(list, v)
  <2>1. CASE list = "transaction_ids"
    <3>1. \A v \in values : CanonicalId(v).written = "lower"
      BY <2>1 DEF CanonicalId
    <3> QED
      BY <2>1, <3>1 DEF Canonical, Parses
  <2>2. CASE list # "transaction_ids"
    <3>1. \A v \in values : CanonicalAddress(v).kind \in {"p2pkh", "p2sh", "tex"}
      BY <2>2 DEF CanonicalAddress, Parses
    <3> QED
      BY <2>2, <3>1 DEF Canonical, Parses
  <2> QED
    BY <2>1, <2>2
<1>2. Canonical(list, Canonical(list, values)) = Canonical(list, values)
  BY CanonicalIsCanonical
<1> QED
  BY <1>1, <1>2 DEF RefusedList

LEMMA RewrittenRefused ==
    ASSUME NEW f, FilterFields(f), ParsedFilter(f),
           \A list \in {"transaction_ids"} \cup AddressLists :
                Cardinality(Canonical(list, ListsOf(f)[list])) = Cardinality(ListsOf(f)[list])
    PROVE  RefusedFilter(RewrittenFilter(f)) <=> RefusedFilter(f)
<1> DEFINE h == RewrittenFilter(f)
<1>1. /\ h.ids = Canonical("transaction_ids", f.ids)
      /\ h.addresses = [list \in AddressLists |-> Canonical(list, f.addresses[list])]
      /\ h.eventTypes = f.eventTypes /\ h.block = f.block /\ h.transaction = f.transaction
  BY RewrittenFields
<1> HIDE DEF h
<1>2. "transaction_ids" \notin AddressLists
  BY DEF AddressLists
<1>3. RefusedList("transaction_ids", h.ids) <=> RefusedList("transaction_ids", f.ids)
  <2>1. ListsOf(f)["transaction_ids"] = f.ids
    BY DEF ListsOf
  <2>2. Cardinality(Canonical("transaction_ids", f.ids)) = Cardinality(f.ids)
    BY <2>1
  <2>3. /\ \A v \in f.ids : Parses("transaction_ids", v)
        /\ \A v \in f.ids : DOMAIN v = {"hash", "written"}
    BY DEF ParsedFilter, FilterFields
  <2> QED
    BY <1>1, <2>2, <2>3, RewrittenList
<1>4. ASSUME NEW list \in AddressLists
      PROVE  RefusedList(list, h.addresses[list]) <=> RefusedList(list, f.addresses[list])
  <2>1. ListsOf(f)[list] = f.addresses[list]
    BY <1>2 DEF ListsOf
  <2>2. Cardinality(Canonical(list, f.addresses[list])) = Cardinality(f.addresses[list])
    BY <2>1
  <2>3. h.addresses[list] = Canonical(list, f.addresses[list])
    BY <1>1
  <2>4. /\ \A v \in f.addresses[list] : Parses(list, v)
        /\ \A v \in f.addresses[list] : DOMAIN v = {"kind", "hash"}
    BY DEF ParsedFilter, FilterFields
  <2>5. list \in {"transaction_ids"} \cup AddressLists /\ list # "transaction_ids"
    BY <1>2
  <2> DEFINE values == f.addresses[list]
  <2>6. /\ \A v \in values : Parses(list, v)
        /\ \A v \in values : DOMAIN v = IF list = "transaction_ids" THEN {"hash", "written"}
                                         ELSE {"kind", "hash"}
        /\ Cardinality(Canonical(list, values)) = Cardinality(values)
    BY <2>2, <2>4, <2>5
  <2> HIDE DEF values
  <2>7. RefusedList(list, Canonical(list, values)) <=> RefusedList(list, values)
    BY <2>5, <2>6, RewrittenList
  <2> QED
    BY <2>3, <2>7 DEF values
<1>5. RefusedFilter(h) <=> RefusedFilter(f)
  BY <1>1, <1>3, <1>4 DEF RefusedFilter
<1> QED
  BY <1>5 DEF h

LEMMA RefusedInCanonicalNotation ==
    ASSUME NoneTwice, NEW request \in Requests,
           \A n \in DOMAIN request.filters : ParsedFilter(request.filters[n])
    PROVE  Refused(InCanonicalNotation(request)) <=> Refused(request)
<1> DEFINE r == InCanonicalNotation(request)
<1>1. /\ r.eventTypes = request.eventTypes
      /\ r.filters = [n \in DOMAIN request.filters |-> RewrittenFilter(request.filters[n])]
  BY RequestFields DEF InCanonicalNotation, RewrittenFilter, WellFormed
<1>2. ASSUME NEW n \in DOMAIN request.filters
      PROVE  /\ RefusedFilter(RewrittenFilter(request.filters[n])) <=> RefusedFilter(request.filters[n])
             /\ IsEmptyFilter(RewrittenFilter(request.filters[n])) <=> IsEmptyFilter(request.filters[n])
  <2> DEFINE f == request.filters[n]
  <2>1. FilterFields(f) /\ ParsedFilter(f)
    BY RequestFields
  <2>2. \A list \in {"transaction_ids"} \cup AddressLists :
            Cardinality(Canonical(list, ListsOf(f)[list])) = Cardinality(ListsOf(f)[list])
    <3>1. DOMAIN ListsOf(f) = {"transaction_ids"} \cup AddressLists
      BY DEF ListsOf
    <3> QED
      BY <3>1 DEF NoneTwice
  <2> HIDE DEF f
  <2>3. RefusedFilter(RewrittenFilter(f)) <=> RefusedFilter(f)
    BY <2>1, <2>2, RewrittenRefused
  <2>4. IsEmptyFilter(RewrittenFilter(f)) <=> IsEmptyFilter(f)
    BY <2>1, RewrittenIsEmpty
  <2> QED
    BY <2>3, <2>4 DEF f
<1> HIDE DEF r
<1>3. DOMAIN r.filters = DOMAIN request.filters
  BY <1>1
<1>4. \A n \in DOMAIN request.filters : r.filters[n] = RewrittenFilter(request.filters[n])
  BY <1>1
<1>5. DefaultAll(r) <=> DefaultAll(request)
  BY <1>1, <1>3 DEF DefaultAll
<1>6. LegacyFilter(r) = LegacyFilter(request)
  BY <1>1 DEF LegacyFilter
<1>7. Refused(r) <=> Refused(request)
  BY <1>2, <1>3, <1>4, <1>5, <1>6 DEF Refused
<1> QED
  BY <1>7 DEF r

-----------------------------------------------------------------------------
(***************************************************************************)
(* What a stream asked for, and types.                                     *)
(***************************************************************************)
\* The request a filter was compiled from: none yet, or one that was not refused.
Compiled(f) ==
    \E request : /\ f = EventFilter(request)
                 /\ request = Nobody \/ (request \in Requests /\ ~Refused(request))

AskedInv(s) ==
    /\ state[s] \in {"none", "open", "refused"}
    /\ state[s] # "none" => asked[s] \in Requests /\ (state[s] = "refused" <=> Refused(asked[s]))
    /\ state[s] = "none" => asked[s] = Nobody
    /\ Compiled(filter[s])
    /\ last[s].update \in {0, position[s]}

\* A cell holds parts of its update.
CellsInv == \A n \in 1..Len(updates) : \A made \in cache[n] : made.parts \subseteq updates[n].parts

RequestsInv ==
    /\ changes \in 0..MaxChanges
    /\ \A s \in Streams : AskedInv(s)

SoundInv == UpdatesIInv /\ WholeInv /\ CellsInv /\ RequestsInv

LEMMA SoundInitially == Init => SoundInv
<1> SUFFICES ASSUME Init PROVE SoundInv
  OBVIOUS
<1>1. CellsInv
  BY DEF Init, CellsInv
<1>2. \A s \in Streams : AskedInv(s)
  BY DEF Init, AskedInv, Compiled, Unseen
<1>3. changes \in 0..MaxChanges
  BY UpdatesAssumption DEF Init
<1> QED
  BY <1>1, <1>2, <1>3, InitEstablishes, WholeInitially DEF SoundInv, RequestsInv

LEMMA EncoderKeepsRequests ==
    ASSUME RequestsInv, UNCHANGED <<stream, changes>>
    PROVE  RequestsInv'
BY DEF RequestsInv, AskedInv, stream

LEMMA CellsUnchanged ==
    ASSUME CellsInv, UNCHANGED <<updates, cache>>
    PROVE  CellsInv'
BY DEF CellsInv

LEMMA PublishKeepsCells ==
    ASSUME SoundInv, Publish
    PROVE  CellsInv'
<1> DEFINE new == Collected
           fresh == [i \in DOMAIN new |-> {}]
<1>1. IsSequence(new) /\ IsSequence(updates) /\ IsSequence(cache) /\ Len(cache) = Len(updates)
  BY CollectedWellMade DEF SoundInv, UpdatesIInv, UpdatesInv
<1>2. updates' = updates \o new /\ cache' = cache \o fresh
  BY DEF Publish
<1> HIDE DEF new
<1>3. IsSequence(fresh) /\ Len(fresh) = Len(new) /\ DOMAIN new = 1..Len(new) /\ Len(new) \in Nat
  <2>1. DOMAIN new = 1..Len(new) /\ Len(new) \in Nat
    BY <1>1 DEF IsSequence
  <2>2. fresh \in Seq({{}}) /\ Len(fresh) = Len(new)
    BY <2>1
  <2> QED
    BY <2>1, <2>2 DEF IsSequence
<1>4. /\ Len(updates) \in Nat /\ Len(updates') = Len(updates) + Len(new)
      /\ \A i \in 1..Len(updates) : updates'[i] = updates[i]
  BY <1>1, <1>2, Concatenation
<1>5. /\ \A i \in 1..Len(cache) : cache'[i] = cache[i]
      /\ \A i \in (Len(cache) + 1)..(Len(cache) + Len(fresh)) : cache'[i] = fresh[i - Len(cache)]
  <2> HIDE DEF fresh
  <2> QED
    BY <1>1, <1>2, <1>3, Concatenation
<1>6. ASSUME NEW n \in 1..Len(updates'), NEW made \in cache'[n]
      PROVE  made.parts \subseteq updates'[n].parts
  <2>1. CASE n \in 1..Len(updates)
    <3>1. updates'[n] = updates[n] /\ cache'[n] = cache[n]
      BY <1>1, <1>4, <1>5, <2>1
    <3> QED
      BY <1>6, <2>1, <3>1 DEF SoundInv, CellsInv
  <2>2. CASE n \notin 1..Len(updates)
    <3>1. n - Len(updates) \in DOMAIN new /\ n \in (Len(cache) + 1)..(Len(cache) + Len(fresh))
      BY <1>1, <1>3, <1>4, <2>2
    <3>2. cache'[n] = {}
      BY <1>1, <1>5, <3>1
    <3> QED
      BY <1>6, <3>2
  <2> QED
    BY <2>1, <2>2
<1> QED
  BY <1>6 DEF CellsInv

LEMMA SendKeepsCells ==
    ASSUME SoundInv, NEW s \in Streams, SendFiltered(s)
    PROVE  CellsInv'
<1> DEFINE n == position[s] + 1
           matches == Matched(filter[s], updates[n])
           more == UNION {Made(n, PartsFor(updates[n], match)) : match \in matches}
<1>1. /\ position[s] < Len(updates) /\ updates' = updates
      /\ cache' = [cache EXCEPT ![n] = @ \cup more]
  BY DEF SendFiltered
<1>2. n \in 1..Len(updates) /\ Len(updates) \in Nat /\ DOMAIN cache = 1..Len(updates)
  <2>1. position[s] \in 0..Len(updates)
    BY DEF SoundInv, UpdatesIInv, StreamsInv, StreamInv
  <2>2. Len(updates) \in Nat /\ DOMAIN cache = 1..Len(updates)
    BY DEF SoundInv, UpdatesIInv, UpdatesInv, IsSequence
  <2> QED
    BY <1>1, <2>1, <2>2
<1>3. \A made \in cache[n] : made.parts \subseteq updates[n].parts
  BY <1>2 DEF SoundInv, CellsInv
<1>4. ASSUME NEW made \in more PROVE made.parts \subseteq updates[n].parts
  <2>1. PICK match \in matches : made \in Made(n, PartsFor(updates[n], match))
    BY <1>4
  <2> DEFINE parts == PartsFor(updates[n], match)
  <2>2. parts \subseteq updates[n].parts
    BY DEF PartsFor
  <2> HIDE DEF parts, n
  <2>3. made \in cache[n] \/ made = [cell |-> Cell(parts), parts |-> parts]
    BY <2>1 DEF Made, parts
  <2> QED
    BY <1>3, <2>2, <2>3
<1> HIDE DEF n, more
<1>5. ASSUME NEW i \in 1..Len(updates'), NEW made \in cache'[i]
      PROVE  made.parts \subseteq updates'[i].parts
  <2>1. cache'[i] = IF i = n THEN cache[i] \cup more ELSE cache[i]
    BY <1>1, <1>2
  <2>2. made \in cache[i] => made.parts \subseteq updates[i].parts
    BY <1>1 DEF SoundInv, CellsInv
  <2> QED
    BY <1>1, <1>4, <1>5, <2>1, <2>2
<1> QED
  BY <1>5 DEF CellsInv

LEMMA SendKeepsRequests ==
    ASSUME SoundInv, NEW s \in Streams, SendFiltered(s)
    PROVE  RequestsInv'
<1> DEFINE n == position[s] + 1
<1>1. PICK messages :
        /\ position' = [position EXCEPT ![s] = n]
        /\ last' = [last EXCEPT ![s] = [update |-> n, sent |-> messages]]
        /\ UNCHANGED <<state, asked, filter, changes>>
  BY DEF SendFiltered
<1>2. DOMAIN position = Streams /\ DOMAIN last = Streams
  BY DEF SoundInv, UpdatesIInv, StreamsInv
<1>3. ASSUME NEW t \in Streams PROVE AskedInv(t)'
  <2>1. AskedInv(t)
    BY DEF SoundInv, RequestsInv
  <2>2. CASE t = s
    <3>1. last'[t].update = n /\ position'[t] = n
      BY <1>1, <1>2, <2>2
    <3> HIDE DEF n
    <3> QED
      BY <1>1, <2>1, <3>1 DEF AskedInv
  <2>3. CASE t # s
    <3>1. last'[t] = last[t] /\ position'[t] = position[t]
      BY <1>1, <2>3
    <3> QED
      BY <1>1, <2>1, <3>1 DEF AskedInv
  <2> QED
    BY <2>2, <2>3
<1>4. changes' \in 0..MaxChanges
  BY <1>1 DEF SoundInv, RequestsInv
<1> QED
  BY <1>3, <1>4 DEF RequestsInv

LEMMA FollowKeepsAsked ==
    ASSUME SoundInv, NEW s \in Streams, NEW request \in Requests, Follow(s, request)
    PROVE  \A t \in Streams : AskedInv(t)'
<1> TAKE t \in Streams
<1>1. AskedInv(t)
  BY DEF SoundInv, RequestsInv
<1>2. /\ DOMAIN state = Streams /\ DOMAIN asked = Streams /\ DOMAIN filter = Streams
      /\ DOMAIN last = Streams
  BY DEF SoundInv, UpdatesIInv, StreamsInv
<1>3. CASE t = s
  <2>1. /\ asked'[t] = request /\ last'[t] = Unseen
        /\ state'[t] = IF Refused(request) THEN "refused" ELSE "open"
    BY <1>2, <1>3 DEF Follow
  <2>2. Compiled(filter'[t])
    <3>1. CASE Refused(request)
      BY <1>1, <3>1 DEF Follow, AskedInv
    <3>2. CASE ~Refused(request)
      <4>1. filter'[t] = EventFilter(request)
        BY <1>2, <1>3, <3>2 DEF Follow
      <4> QED
        BY <3>2, <4>1 DEF Compiled
    <3> QED
      BY <3>1, <3>2
  <2>3. last'[t].update = 0
    BY <2>1 DEF Unseen
  <2> QED
    BY <2>1, <2>2, <2>3 DEF AskedInv
<1>4. CASE t # s
  <2>1. /\ asked'[t] = asked[t] /\ last'[t] = last[t] /\ state'[t] = state[t]
        /\ filter'[t] = filter[t] /\ position' = position
    BY <1>2, <1>4 DEF Follow
  <2> QED
    BY <1>1, <2>1 DEF AskedInv
<1> QED
  BY <1>3, <1>4

\* The inductive invariant of types: a stream follows or was refused a request, its filter
\* is compiled from one that was not refused, and cells hold parts of their update.
THEOREM StreamsStaySound == Spec => []SoundInv
<1>1. Init => SoundInv
  BY SoundInitially
<1>2. SoundInv /\ [Next]_vars => SoundInv'
  <2> SUFFICES ASSUME SoundInv, [Next]_vars, UpdatesIInv', WholeInv' PROVE SoundInv'
    BY StepKeeps, WholeStep DEF SoundInv
  <2> SUFFICES CellsInv' /\ RequestsInv'
    BY DEF SoundInv
  <2>1. CASE OnEvent
    BY <2>1, EncoderKeepsRequests, CellsUnchanged DEF OnEvent, SoundInv
  <2>2. CASE EncodeTransaction
    BY <2>2, EncoderKeepsRequests, CellsUnchanged DEF EncodeTransaction, SoundInv
  <2>3. CASE Publish
    <3>1. UNCHANGED <<stream, changes>>
      BY <2>3 DEF Publish
    <3> QED
      BY <2>3, <3>1, EncoderKeepsRequests, PublishKeepsCells DEF SoundInv
  <2>4. ASSUME NEW s \in Streams, Subscribe(s) PROVE CellsInv' /\ RequestsInv'
    <3>1. PICK request \in Requests : Follow(s, request)
      BY <2>4 DEF Subscribe
    <3>2. UNCHANGED <<updates, cache, changes>>
      BY <2>4, <3>1 DEF Subscribe, Follow
    <3> QED
      BY <3>1, <3>2, FollowKeepsAsked, CellsUnchanged DEF SoundInv, RequestsInv
  <2>5. ASSUME NEW s \in Streams, ReplaceFilter(s) PROVE CellsInv' /\ RequestsInv'
    <3>1. PICK request \in Requests : Follow(s, request)
      BY <2>5 DEF ReplaceFilter
    <3>2. UNCHANGED <<updates, cache>>
      BY <3>1 DEF Follow
    <3>3. changes' \in 0..MaxChanges
      BY <2>5, UpdatesAssumption DEF ReplaceFilter, SoundInv, RequestsInv
    <3> QED
      BY <3>1, <3>2, <3>3, FollowKeepsAsked, CellsUnchanged DEF SoundInv, RequestsInv
  <2>6. ASSUME NEW s \in Streams, SendFiltered(s) PROVE CellsInv' /\ RequestsInv'
    BY <2>6, SendKeepsCells, SendKeepsRequests
  <2>7. CASE UNCHANGED vars
    BY <2>7, EncoderKeepsRequests, CellsUnchanged DEF vars, SoundInv
  <2> QED
    BY <2>1, <2>2, <2>3, <2>4, <2>5, <2>6, <2>7 DEF Next
<1> QED
  BY <1>1, <1>2, PTL DEF Spec

LEMMA InvariantGivesNotation == NoneTwice /\ SoundInv => NotationDoesNotMatter
<1> SUFFICES ASSUME NoneTwice, SoundInv, NEW s \in Streams,
                    \A f \in Range(asked[s].filters) : ParsedFilter(f)
             PROVE  /\ state[s] # "none" =>
                        (state[s] = "refused" <=> Refused(InCanonicalNotation(asked[s])))
                    /\ last[s].update # 0 =>
                        LET u == updates[last[s].update]
                        IN  Matched(EventFilter(InCanonicalNotation(asked[s])), u)
                                = Matched(filter[s], u)
  BY DEF NotationDoesNotMatter, ParsedFilter, InCanonicalNotation
<1>1. AskedInv(s) /\ StreamInv(s)
  BY DEF SoundInv, RequestsInv, UpdatesIInv, StreamsInv
<1>2. \A n \in DOMAIN asked[s].filters : ParsedFilter(asked[s].filters[n])
  BY DEF Range
<1>3. ASSUME state[s] # "none"
      PROVE  state[s] = "refused" <=> Refused(InCanonicalNotation(asked[s]))
  <2>1. asked[s] \in Requests /\ (state[s] = "refused" <=> Refused(asked[s]))
    BY <1>1, <1>3 DEF AskedInv
  <2> QED
    BY <1>2, <2>1, RefusedInCanonicalNotation
<1>4. ASSUME last[s].update # 0
      PROVE  EventFilter(InCanonicalNotation(asked[s])) = filter[s]
  <2>1. state[s] = "open" /\ filter[s] = EventFilter(asked[s])
    BY <1>1, <1>4 DEF StreamInv
  <2>2. asked[s] \in Requests
    BY <1>1, <2>1 DEF AskedInv
  <2> QED
    BY <2>1, <2>2, RequestFields, NotationIsForgotten
<1> QED
  BY <1>3, <1>4

\* How a client writes addresses and IDs does not matter, for every request whose lists
\* keep their length when rewritten (CompiledFilter::from_proto).
THEOREM NotationNeverMatters == NoneTwice => (Spec => []NotationDoesNotMatter)
<1> SUFFICES ASSUME NoneTwice PROVE Spec => []NotationDoesNotMatter
  OBVIOUS
<1>1. SoundInv => NotationDoesNotMatter
  BY InvariantGivesNotation
<1> QED
  BY <1>1, StreamsStaySound, PTL

LEMMA CompiledTyped ==
    ASSUME NEW f, ~RefusedFilter(f),
           \A id \in f.ids : DOMAIN id = {"hash", "written"},
           \A list \in AddressLists : \A a \in f.addresses[list] : DOMAIN a = {"kind", "hash"}
    PROVE  LET c == CompiledFilter(f) IN
           /\ c.kinds \subseteq EventTypes
           /\ \A id \in c.ids : id.written = "lower"
           /\ \A a \in c.include \cup c.exclude \cup c.required : a.kind \in {"p2pkh", "p2sh"}
<1> DEFINE c == CompiledFilter(f)
<1>1. /\ c.kinds = f.eventTypes /\ c.ids = Canonical("transaction_ids", f.ids)
      /\ c.include = Canonical("include", f.addresses["include"]
                                              \cup f.addresses["transparent_addresses"])
      /\ c.exclude = Canonical("exclude", f.addresses["exclude"])
      /\ c.required = Canonical("required", f.addresses["required"])
  BY DEF CompiledFilter
<1> HIDE DEF c
<1>2. c.kinds \subseteq EventTypes
  BY <1>1 DEF RefusedFilter
<1>3. \A id \in f.ids : CanonicalId(id).written = "lower"
  BY DEF CanonicalId
<1>4. \A id \in c.ids : id.written = "lower"
  BY <1>1, <1>3 DEF Canonical
<1>5. \A list \in AddressLists : \A a \in f.addresses[list] :
        CanonicalAddress(a).kind \in {"p2pkh", "p2sh"}
  <2> TAKE list \in AddressLists
  <2> TAKE a \in f.addresses[list]
  <2>1. Parses(list, a) /\ list # "transaction_ids"
    BY DEF RefusedFilter, RefusedList, AddressLists
  <2>2. a.kind \in {"p2pkh", "p2sh", "tex"} /\ DOMAIN a = {"kind", "hash"}
    BY <2>1 DEF Parses
  <2> QED
    BY <2>2 DEF CanonicalAddress
<1>6. \A a \in c.include \cup c.exclude \cup c.required : a.kind \in {"p2pkh", "p2sh"}
  <2>1. {"include", "transparent_addresses", "exclude", "required"} \subseteq AddressLists
    BY DEF AddressLists
  <2> QED
    BY <1>1, <1>5, <2>1 DEF Canonical
<1> QED
  BY <1>2, <1>4, <1>6 DEF c

LEMMA FiltersTyped ==
    ASSUME NEW f, Compiled(f), NEW c \in f.legacy \cup Range(f.named)
    PROVE  /\ c.kinds \subseteq EventTypes
           /\ \A id \in c.ids : id.written = "lower"
           /\ \A a \in c.include \cup c.exclude \cup c.required : a.kind \in {"p2pkh", "p2sh"}
<1>1. PICK request : /\ f = EventFilter(request)
                     /\ request = Nobody \/ (request \in Requests /\ ~Refused(request))
  BY DEF Compiled
<1>2. f.legacy = CompiledLegacy(request) /\ f.named = CompiledNamed(request)
  BY <1>1 DEF EventFilter
<1>3. CASE request = Nobody
  <2>1. request.eventTypes = {} /\ request.filters = <<>>
    BY <1>3 DEF Nobody
  <2>2. CompiledLegacy(request) = {}
    BY <2>1 DEF CompiledLegacy
  <2>3. DOMAIN CompiledNamed(request) = {}
    <3>1. DOMAIN <<>> = {}
      OBVIOUS
    <3> QED
      BY <2>1, <3>1 DEF CompiledNamed
  <2> QED
    BY <1>2, <2>2, <2>3 DEF Range
<1>4. CASE request \in Requests /\ ~Refused(request)
  <2>1. CASE c \in f.legacy
    <3> DEFINE g == LegacyFilter(request)
    <3>1. c = CompiledFilter(g)
      BY <1>2, <2>1 DEF CompiledLegacy
    <3>2. ~RefusedFilter(g)
      BY <1>4 DEF Refused
    <3>3. g.ids = {} /\ \A list \in AddressLists : g.addresses[list] = {}
      BY DEF LegacyFilter, NoFilter
    <3> HIDE DEF g
    <3> QED
      BY <3>1, <3>2, <3>3, CompiledTyped
  <2>2. CASE c \in Range(f.named)
    <3>1. PICK n \in DOMAIN request.filters : c = CompiledFilter(request.filters[n])
      BY <1>2, <2>2 DEF CompiledNamed, Range
    <3> DEFINE g == request.filters[n]
    <3>2. ~RefusedFilter(g)
      BY <1>4 DEF Refused
    <3>3. FilterFields(g)
      BY <1>4, RequestFields
    <3> HIDE DEF g
    <3>4. /\ \A id \in g.ids : DOMAIN id = {"hash", "written"}
          /\ \A list \in AddressLists : \A a \in g.addresses[list] : DOMAIN a = {"kind", "hash"}
      BY <3>3 DEF FilterFields
    <3>5. c = CompiledFilter(g)
      BY <3>1 DEF g
    <3> QED
      BY <3>2, <3>4, <3>5, CompiledTyped
  <2> QED
    BY <2>1, <2>2
<1> QED
  BY <1>1, <1>3, <1>4

LEMMA SentTyped ==
    ASSUME SoundInv, NEW s \in Streams
    PROVE  last[s].sent \subseteq Messages /\ Cardinality(last[s].sent) <= 1
<1>1. StreamInv(s)
  BY DEF SoundInv, UpdatesIInv, StreamsInv
<1>2. CASE last[s].update = 0
  <2>1. last[s].sent = {}
    BY <1>1, <1>2 DEF StreamInv
  <2>2. Cardinality({}) <= 1
    BY FS_EmptySet
  <2> QED
    BY <2>1, <2>2
<1>3. CASE last[s].update # 0
  <2> DEFINE u == updates[last[s].update]
             f == EventFilter(asked[s])
  <2>1. /\ ~Refused(asked[s]) /\ last[s].sent = SentThrough(f, u)
        /\ last[s].update \in 1..Len(updates)
    BY <1>1, <1>3 DEF StreamInv
  <2>2. u.parts \subseteq {"raw", "transparent"}
    BY <2>1 DEF SoundInv, UpdatesIInv, UpdatesInv, WellMade
  <2>3. DOMAIN asked[s].filters \subseteq ValidNames
    BY <2>1 DEF Refused
  <2>4. \A match \in Matched(f, u) : match.names \subseteq DOMAIN asked[s].filters
    <3>1. DOMAIN f.named = DOMAIN asked[s].filters
      BY DEF EventFilter, CompiledNamed
    <3> HIDE DEF f
    <3>2. \A match \in Matched(f, u) : match.names \subseteq DOMAIN f.named
      BY DEF Matched
    <3> QED
      BY <3>1, <3>2
  <2>5. Matched(f, u) = {} \/ \E match : Matched(f, u) = {match}
    BY DEF Matched
  <2> HIDE DEF u, f
  <2>6. \A match : PartsFor(u, match) \subseteq u.parts
    BY DEF PartsFor
  <2>7. last[s].sent \subseteq Messages
    <3>1. \A match \in Matched(f, u) :
            [names |-> match.names, parts |-> PartsFor(u, match)] \in Messages
      <4> TAKE match \in Matched(f, u)
      <4>1. match.names \in SUBSET ValidNames
        BY <2>3, <2>4
      <4>2. PartsFor(u, match) \in SUBSET {"raw", "transparent"}
        BY <2>2, <2>6
      <4> QED
        BY <4>1, <4>2 DEF Messages
    <3> QED
      BY <2>1, <3>1 DEF SentThrough
  <2>8. last[s].sent = {} \/ \E message : last[s].sent = {message}
    <3>1. CASE Matched(f, u) = {}
      BY <2>1, <3>1 DEF SentThrough
    <3>2. ASSUME NEW match, Matched(f, u) = {match}
          PROVE  last[s].sent = {[names |-> match.names, parts |-> PartsFor(u, match)]}
      BY <2>1, <3>2 DEF SentThrough
    <3> QED
      BY <2>5, <3>1, <3>2
  <2>9. Cardinality(last[s].sent) = 0 \/ Cardinality(last[s].sent) = 1
    BY <2>8, FS_EmptySet, FS_Singleton
  <2> QED
    BY <2>7, <2>9
<1> QED
  BY <1>2, <1>3

LEMMA InvariantGivesTypes == SoundInv => TypeOK
<1> SUFFICES ASSUME SoundInv PROVE TypeOK
  OBVIOUS
<1>1. /\ history \in Seq(Events) /\ Current <= MaxEvents /\ encoding \in BOOLEAN
      /\ Len(finished) = Cardinality(Range(finished))
      /\ finished # <<>> => Range(finished) \subseteq ToEncode(Event)
  BY DEF SoundInv, WholeInv, EncoderInv
<1>2. /\ DOMAIN cache = DOMAIN updates
      /\ \A n \in DOMAIN updates : \A made \in cache[n] : made.parts \subseteq updates[n].parts
  BY DEF SoundInv, UpdatesIInv, UpdatesInv, CellsInv, IsSequence
<1>3. changes \in 0..MaxChanges
  BY DEF SoundInv, RequestsInv
<1>4. ASSUME NEW s \in Streams
      PROVE  /\ state[s] \in {"none", "open", "refused"}
             /\ position[s] \in 0..Len(updates)
             /\ last[s].update \in {0, position[s]}
             /\ last[s].sent \subseteq Messages /\ Cardinality(last[s].sent) <= 1
             /\ \A c \in Filters(s) :
                  /\ c.kinds \subseteq EventTypes
                  /\ \A id \in c.ids : id.written = "lower"
                  /\ \A a \in c.include \cup c.exclude \cup c.required :
                        a.kind \in {"p2pkh", "p2sh"}
  <2>1. AskedInv(s) /\ StreamInv(s)
    BY DEF SoundInv, RequestsInv, UpdatesIInv, StreamsInv
  <2>2. Compiled(filter[s])
    BY <2>1 DEF AskedInv
  <2>3. \A c \in Filters(s) :
                  /\ c.kinds \subseteq EventTypes
                  /\ \A id \in c.ids : id.written = "lower"
                  /\ \A a \in c.include \cup c.exclude \cup c.required :
                        a.kind \in {"p2pkh", "p2sh"}
    BY <2>2, FiltersTyped DEF Filters
  <2>4. /\ state[s] \in {"none", "open", "refused"}
        /\ position[s] \in 0..Len(updates) /\ last[s].update \in {0, position[s]}
    BY <2>1 DEF AskedInv, StreamInv
  <2> QED
    BY <2>3, <2>4, SentTyped
<1> QED
  BY <1>1, <1>2, <1>3, <1>4 DEF TypeOK

\* Types, among them that whatever was requested, a filter in use has only text that was
\* parsed and no TEX address (CompiledFilter::from_proto).
THEOREM FiltersAreParsed == Spec => []TypeOK
BY StreamsStaySound, InvariantGivesTypes, PTL
=============================================================================
