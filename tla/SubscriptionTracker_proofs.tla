---------------------- MODULE SubscriptionTracker_proofs ----------------------
(***************************************************************************)
(* Proofs about the subscription limit, for any calls, ids and limit.      *)
(* That a slot is returned is a liveness property: TLC checks it.          *)
(***************************************************************************)
EXTENDS SubscriptionTracker, FiniteSetTheorems, TLAPS

(***************************************************************************)
(* TypeOK and SlotsCounted are inductive together; the limit follows from  *)
(* the count that acquire compares with it, because that count is exact.   *)
(***************************************************************************)
IInv == TypeOK /\ SlotsCounted /\ LimitRespected

\* The guards of one id are finitely many, and an id has an entry exactly if it has one.
LEMMA HeldByFinite ==
    ASSUME NEW id
    PROVE  /\ IsFiniteSet(HeldBy(id))
           /\ Cardinality(HeldBy(id)) \in Nat
           /\ Cardinality(HeldBy(id)) = 0 <=> HeldBy(id) = {}
<1>1. IsFiniteSet(HeldBy(id))
  BY TrackerAssumption, FS_Subset DEF HeldBy
<1> QED BY <1>1, FS_CardinalityType, FS_EmptySet

\* What acquire reads is the number of guards of the id, whether or not the map has an
\* entry for it.
LEMMA CountIsHeld ==
    ASSUME TypeOK, SlotsCounted, NEW id \in Ids
    PROVE  Count(id) = Cardinality(HeldBy(id))
<1>1. CASE id \in DOMAIN counts
  BY <1>1 DEF SlotsCounted, Count
<1>2. CASE id \notin DOMAIN counts
  <2>1. HeldBy(id) = {}
    BY <1>2 DEF SlotsCounted, HeldBy
  <2> QED BY <1>2, <2>1, HeldByFinite DEF Count
<1> QED BY <1>1, <1>2

\* Counting a call in, below the limit or without one.
LEMMA AcquireKeeps ==
    ASSUME IInv, NEW c \in Calls, NEW id \in Ids, Acquire(c, id) PROVE IInv'
<1>1. CASE UNCHANGED vars
  BY <1>1 DEF IInv, TypeOK, SlotsCounted, LimitRespected, HeldBy, Held, vars
<1>2. ASSUME ~(Enforce /\ Count(id) >= Limit),
             counts' = [i \in DOMAIN counts \union {id} |->
                         IF i = id THEN Count(id) + 1 ELSE counts[i]],
             call[c] = "none",
             call' = [call EXCEPT ![c] = "waiting"],
             owner' = [owner EXCEPT ![c] = id],
             client' = [client EXCEPT ![c] = "open"]
      PROVE  IInv'
  <2>1. Count(id) = Cardinality(HeldBy(id)) /\ Count(id) \in Nat
    BY CountIsHeld, HeldByFinite DEF IInv
  <2>2. c \notin HeldBy(id) /\ HeldBy(id)' = HeldBy(id) \union {c}
    BY <1>2 DEF HeldBy, Held, IInv, TypeOK
  <2>3. \A i \in Ids : i # id => HeldBy(i)' = HeldBy(i)
    BY <1>2 DEF HeldBy, Held, IInv, TypeOK
  <2>4. Cardinality(HeldBy(id)') = Count(id) + 1
    BY <2>1, <2>2, HeldByFinite, FS_AddElement
  <2>5. TypeOK'
    <3>1. DOMAIN counts' \subseteq Ids /\ \A i \in DOMAIN counts' : counts'[i] \in Nat \ {0}
      BY <1>2, <2>1 DEF IInv, TypeOK
    <3>2. \A x \in Calls : Held(x)' => owner'[x] \in Ids
      BY <1>2 DEF IInv, TypeOK, Held
    <3> QED BY <1>2, <3>1, <3>2 DEF IInv, TypeOK
  <2>6. DOMAIN counts' = {owner[x] : x \in {y \in Calls : Held(y)}}'
    <3>1. {y \in Calls : Held(y)}' = {y \in Calls : Held(y)} \union {c}
      BY <1>2 DEF Held, IInv, TypeOK
    <3>2. ~Held(c)
      BY <1>2 DEF Held
    <3> QED BY <1>2, <3>1, <3>2 DEF IInv, TypeOK, SlotsCounted
  <2>7. \A i \in DOMAIN counts' : counts'[i] = Cardinality(HeldBy(i)')
    BY <1>2, <2>3, <2>4 DEF IInv, TypeOK, SlotsCounted
  <2>8. LimitRespected'
    BY <1>2, <2>1, <2>3, <2>4, TrackerAssumption DEF IInv, LimitRespected
  <2> QED BY <2>5, <2>6, <2>7, <2>8 DEF IInv, SlotsCounted
<1> QED BY <1>1, <1>2 DEF Acquire

\* Dropping a guard, whatever ended the call.
LEMMA ReleaseKeeps == ASSUME IInv, NEW c \in Calls, Held(c), Release(c) PROVE IInv'
<1> USE DEF Ended
<1>0. PICK id \in Ids : id = owner[c]
  BY DEF IInv, TypeOK
<1>1. c \in HeldBy(id) /\ id \in DOMAIN counts
  BY <1>0 DEF IInv, SlotsCounted, HeldBy
<1>2. counts[id] = Cardinality(HeldBy(id)) /\ counts[id] \in Nat \ {0}
  BY <1>1 DEF IInv, TypeOK, SlotsCounted
<1>3. HeldBy(id)' = HeldBy(id) \ {c}
  BY <1>0 DEF HeldBy, Held, Release, IInv, TypeOK
<1>4. \A i \in Ids : i # id => HeldBy(i)' = HeldBy(i)
  BY <1>0 DEF HeldBy, Held, Release, IInv, TypeOK
<1>5. Cardinality(HeldBy(id)') = counts[id] - 1
  BY <1>1, <1>2, <1>3, HeldByFinite, FS_RemoveElement
<1>6. TypeOK'
  <2>1. DOMAIN counts' \subseteq Ids /\ \A i \in DOMAIN counts' : counts'[i] \in Nat \ {0}
    BY <1>0, <1>1, <1>2 DEF IInv, TypeOK, Release
  <2>2. \A x \in Calls : Held(x)' => owner'[x] \in Ids
    BY DEF IInv, TypeOK, Held, Release
  <2> QED BY <2>1, <2>2 DEF IInv, TypeOK, Release
<1>7. {y \in Calls : Held(y)}' = {y \in Calls : Held(y)} \ {c}
  BY DEF Held, Release, IInv, TypeOK
<1>8. SlotsCounted'
  <2> DEFINE Rest == {y \in Calls : Held(y)} \ {c}
  <2>0. {owner'[x] : x \in {y \in Calls : Held(y)}'} = {owner[x] : x \in Rest}
    <3>1. \A x \in Rest : owner'[x] = owner[x]
      BY DEF IInv, TypeOK, Release
    <3> HIDE DEF Rest
    <3> QED BY <1>7, <3>1 DEF Rest
  <2>1. CASE counts[id] = 1
    <3>1. HeldBy(id)' = {}
      BY <1>1, <1>2, <1>3, <1>5, <2>1, HeldByFinite, FS_RemoveElement, FS_EmptySet
    <3>2. DOMAIN counts' = DOMAIN counts \ {id}
      BY <1>0, <2>1 DEF Release
    <3>3. \A x \in Calls : Held(x) /\ owner[x] = id => x = c
      BY <1>3, <3>1 DEF HeldBy
    <3>4. DOMAIN counts' = {owner[x] : x \in {y \in Calls : Held(y)} \ {c}}
      BY <1>1, <3>2, <3>3 DEF IInv, SlotsCounted, HeldBy
    <3>5. \A i \in DOMAIN counts' : counts'[i] = Cardinality(HeldBy(i)')
      <4> SUFFICES ASSUME NEW i \in DOMAIN counts' PROVE counts'[i] = Cardinality(HeldBy(i)')
        OBVIOUS
      <4>1. i \in Ids /\ i # id /\ i \in DOMAIN counts
        BY <3>2 DEF IInv, TypeOK
      <4>2. counts'[i] = counts[i]
        BY <1>0, <2>1, <4>1 DEF Release
      <4>3. HeldBy(i)' = HeldBy(i)
        BY <1>4, <4>1
      <4> QED BY <4>1, <4>2, <4>3 DEF IInv, SlotsCounted
    <3> QED BY <2>0, <3>4, <3>5 DEF SlotsCounted
  <2>2. CASE counts[id] # 1
    <3>1. HeldBy(id)' # {}
      BY <1>2, <1>5, <2>2, FS_EmptySet
    <3>2. DOMAIN counts' = DOMAIN counts
      BY <1>0, <2>2 DEF Release
    <3>3. PICK d \in Calls : d # c /\ Held(d) /\ owner[d] = id
      BY <1>3, <3>1 DEF HeldBy
    <3>4. DOMAIN counts' = {owner[x] : x \in {y \in Calls : Held(y)} \ {c}}
      BY <1>0, <3>2, <3>3 DEF IInv, SlotsCounted
    <3>5. \A i \in DOMAIN counts' : counts'[i] = Cardinality(HeldBy(i)')
      <4> SUFFICES ASSUME NEW i \in DOMAIN counts' PROVE counts'[i] = Cardinality(HeldBy(i)')
        OBVIOUS
      <4>1. counts' = [counts EXCEPT ![id] = @ - 1]
        BY <1>0, <2>2 DEF Release
      <4>2. CASE i = id
        BY <1>1, <1>5, <4>1, <4>2
      <4>3. CASE i # id
        <5>1. i \in Ids /\ i \in DOMAIN counts
          BY <3>2 DEF IInv, TypeOK
        <5>2. counts'[i] = counts[i] /\ HeldBy(i)' = HeldBy(i)
          BY <1>4, <4>1, <4>3, <5>1
        <5> QED BY <5>1, <5>2 DEF IInv, SlotsCounted
      <4> QED BY <4>2, <4>3
    <3> QED BY <2>0, <3>4, <3>5 DEF SlotsCounted
  <2> QED BY <2>1, <2>2
<1>9. LimitRespected'
  <2> SUFFICES ASSUME Enforce, NEW i \in Ids PROVE Cardinality(HeldBy(i)') <= Limit
    BY DEF LimitRespected
  <2>1. Cardinality(HeldBy(i)) <= Limit
    BY DEF IInv, LimitRespected
  <2>2. CASE i = id
    BY <1>2, <1>5, <2>1, <2>2, TrackerAssumption
  <2>3. CASE i # id
    BY <1>4, <2>1, <2>3
  <2> QED BY <2>2, <2>3
<1> QED BY <1>6, <1>8, <1>9 DEF IInv

\* No step of a call leaves the invariant.
LEMMA NextKeeps == IInv /\ [Next]_vars => IInv'
<1> SUFFICES ASSUME IInv, [Next]_vars PROVE IInv'
  OBVIOUS
<1>1. CASE UNCHANGED vars
  BY <1>1 DEF IInv, TypeOK, SlotsCounted, LimitRespected, HeldBy, Held, vars
<1>2. ASSUME NEW c \in Calls, NEW id \in Ids, Acquire(c, id) PROVE IInv'
  BY <1>2, AcquireKeeps
<1>3. ASSUME NEW c \in Calls,
             \/ RefuseFirstRequest(c) \/ EndWaiting(c) \/ RequestError(c)
             \/ PingFails(c) \/ EndStream(c)
      PROVE  IInv'
  <2>1. Held(c) /\ Release(c)
    BY <1>3 DEF RefuseFirstRequest, EndWaiting, RequestError, PingFails, EndStream, Held
  <2> QED BY <2>1, ReleaseKeeps
<1>4. ASSUME NEW c \in Calls, FirstRequest(c) \/ HalfClose(c) \/ Leave(c)
      PROVE  IInv'
  <2>1. /\ counts' = counts /\ owner' = owner
        /\ \A x \in Calls : Held(x)' <=> Held(x)
    BY <1>4 DEF FirstRequest, HalfClose, Leave, Held, IInv, TypeOK
  <2>2. TypeOK'
    BY <1>4, <2>1 DEF FirstRequest, HalfClose, Leave, IInv, TypeOK
  <2>3. \A id : HeldBy(id)' = HeldBy(id)
    BY <2>1 DEF HeldBy
  <2> QED BY <2>1, <2>2, <2>3 DEF IInv, SlotsCounted, LimitRespected
<1> QED BY <1>1, <1>2, <1>3, <1>4 DEF Next, Continue

\* The inductive invariant holds in every reachable state.
THEOREM TrackerInvariant == Spec => []IInv
<1>1. Init => IInv
  <2> SUFFICES ASSUME Init PROVE IInv
    OBVIOUS
  <2>1. TypeOK
    BY DEF Init, TypeOK, Held
  <2>2. \A c \in Calls : ~Held(c)
    BY DEF Init, Held
  <2>3. \A id : HeldBy(id) = {}
    BY <2>2 DEF HeldBy
  <2>4. SlotsCounted
    BY <2>2 DEF Init, SlotsCounted
  <2>5. LimitRespected
    BY <2>3, FS_EmptySet, TrackerAssumption DEF LimitRespected
  <2> QED BY <2>1, <2>4, <2>5 DEF IInv
<1> QED BY <1>1, NextKeeps, PTL DEF Spec

\* The map's entries are counters above 0 of known ids.
THEOREM TrackerTypeCorrect == Spec => []TypeOK
<1>1. IInv => TypeOK
  BY DEF IInv
<1> QED BY <1>1, TrackerInvariant, PTL

\* The count of an id is the number of its guards alive, however its calls end.
THEOREM SlotsAreCounted == Spec => []SlotsCounted
<1>1. IInv => SlotsCounted
  BY DEF IInv
<1> QED BY <1>1, TrackerInvariant, PTL

\* An enforced limit is respected by any number of racing calls.
THEOREM LimitIsRespected == Spec => []LimitRespected
<1>1. IInv => LimitRespected
  BY DEF IInv
<1> QED BY <1>1, TrackerInvariant, PTL
=============================================================================
