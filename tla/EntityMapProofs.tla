--------------------------- MODULE EntityMapProofs ---------------------------
(***************************************************************************)
(* Proofs about EntityMap, for any set of threads and any finite number of *)
(* handles and entities.                                                   *)
(***************************************************************************)
EXTENDS EntityMap, FiniteSetTheorems, FunctionTheorems, TLAPS

\* The inductive invariant.  Counting is right only if every handle points
\* to a slot, and the slot of a released entity is not needed only if the
\* queue holds nothing but unreferenced ids, each once; the values follow
\* the slots.
HandlesPointToSlots == \A h \in Handles : target[h] # NoEntity => target[h] \in slots

QueueSound ==
    /\ \A e \in slots : ref_count[e] = 0 <=> e \in Queued \cup {d[2] : d \in dropping}
    /\ Queued \cup {d[2] : d \in dropping} \subseteq slots
    /\ \A m, n \in 1 .. Len(dropped_entity_ids) :
         dropped_entity_ids[m] = dropped_entity_ids[n] => m = n
    /\ \A d \in dropping : d[2] \notin Queued
    /\ \A c, d \in dropping : c = d

ValuesSound ==
    /\ slots \cup inserted \subseteq 0 .. next_id - 1
    /\ entities \subseteq slots
    /\ \A h \in leases \cup reservations : target[h] # NoEntity
    /\ \A h \in Handles : target[h] \in inserted => target[h] \in entities \cup Leased

IInv ==
    /\ TypeOK
    /\ HandlesPointToSlots
    /\ RefCountExact
    /\ QueueSound
    /\ ValuesSound

-----------------------------------------------------------------------------
(* Handles are finitely many, so that counting them means something.       *)

\* The handles to an entity can be counted.
LEMMA HandlesToFinite ==
    ASSUME NEW e
    PROVE  IsFiniteSet(HandlesTo(e)) /\ Cardinality(HandlesTo(e)) \in Nat
<1>1. HandlesTo(e) \subseteq Handles
  BY DEF HandlesTo
<1>2. IsFiniteSet(Handles)
  BY EntityMapAssumption
<1> QED
  BY <1>1, <1>2, FS_Subset, FS_CardinalityType

\* The ids are the naturals below MaxEntities, which itself is none of them.
LEMMA IdsAreNaturals == Ids \subseteq Nat /\ NoEntity \notin Ids
BY EntityMapAssumption DEF Ids, NoEntity

\* A new handle, made by reserve, clone or upgrade, is one more for its
\* entity and none for the others.
LEMMA CreateCounts ==
    ASSUME TypeOK, NEW h \in Handles, NEW e \in Ids, target[h] = NoEntity,
           target' = [target EXCEPT ![h] = e]
    PROVE  /\ Cardinality(HandlesTo(e)') = Cardinality(HandlesTo(e)) + 1
           /\ \A f \in Ids \ {e} : HandlesTo(f)' = HandlesTo(f)
<1>1. target \in [Handles -> Ids \cup {NoEntity}]
  BY DEF TypeOK
<1>2. h \notin HandlesTo(e)
  BY IdsAreNaturals DEF HandlesTo
<1>3. HandlesTo(e)' = HandlesTo(e) \cup {h}
  BY <1>1 DEF HandlesTo
<1>4. Cardinality(HandlesTo(e) \cup {h}) = Cardinality(HandlesTo(e)) + 1
  BY <1>2, HandlesToFinite, FS_AddElement
<1>5. \A f \in Ids \ {e} : HandlesTo(f)' = HandlesTo(f)
  BY <1>1, IdsAreNaturals DEF HandlesTo
<1> QED
  BY <1>3, <1>4, <1>5

\* A handle dropped is one less for its entity and none for the others.
LEMMA DropCounts ==
    ASSUME TypeOK, NEW h \in Handles, NEW e \in Ids, target[h] = e,
           target' = [target EXCEPT ![h] = NoEntity]
    PROVE  /\ Cardinality(HandlesTo(e)) > 0
           /\ Cardinality(HandlesTo(e)') = Cardinality(HandlesTo(e)) - 1
           /\ \A f \in Ids \ {e} : HandlesTo(f)' = HandlesTo(f)
<1>1. target \in [Handles -> Ids \cup {NoEntity}]
  BY DEF TypeOK
<1>2. h \in HandlesTo(e)
  BY DEF HandlesTo
<1>3. HandlesTo(e)' = HandlesTo(e) \ {h}
  BY <1>1, IdsAreNaturals DEF HandlesTo
<1>4. Cardinality(HandlesTo(e) \ {h}) = Cardinality(HandlesTo(e)) - 1
  BY <1>2, HandlesToFinite, FS_RemoveElement
<1>5. Cardinality(HandlesTo(e)) > 0
  BY <1>2, HandlesToFinite, FS_EmptySet
<1>6. \A f \in Ids \ {e} : HandlesTo(f)' = HandlesTo(f)
  BY <1>1, IdsAreNaturals DEF HandlesTo
<1> QED
  BY <1>3, <1>4, <1>5, <1>6

-----------------------------------------------------------------------------
(* The queue keeps its ids apart as it grows and is taken.                 *)

\* A handle means a count that is not zero.
LEMMA HandleIsCounted ==
    ASSUME IInv, NEW h \in Handles, target[h] # NoEntity
    PROVE  /\ target[h] \in slots /\ target[h] \in Ids
           /\ ref_count[target[h]] \in Nat \ {0}
<1> DEFINE e == target[h]
<1>1. e \in slots /\ e \in Ids
  BY DEF IInv, TypeOK, HandlesPointToSlots
<1>2. h \in HandlesTo(e)
  BY DEF HandlesTo
<1>3. Cardinality(HandlesTo(e)) \in Nat \ {0}
  BY <1>2, HandlesToFinite, FS_EmptySet
<1>4. ref_count[e] = Cardinality(HandlesTo(e))
  BY <1>1 DEF IInv, RefCountExact
<1> QED
  BY <1>1, <1>3, <1>4

\* The interval from 1 to n has n members.
LEMMA IntervalCount ==
    ASSUME NEW n \in Nat
    PROVE  IsFiniteSet(1 .. n) /\ Cardinality(1 .. n) = n
<1>1. IsFiniteSet(1 .. n) /\ Cardinality(1 .. n) = IF 1 > n THEN 0 ELSE n - 1 + 1
  BY FS_Interval
<1>2. (IF 1 > n THEN 0 ELSE n - 1 + 1) = n
  OBVIOUS
<1> QED
  BY <1>1, <1>2

\* What Append does to the members of a sequence.
LEMMA AppendMembers ==
    ASSUME NEW S, NEW q \in Seq(S), NEW x \in S
    PROVE  /\ Append(q, x) \in Seq(S)
           /\ Len(Append(q, x)) = Len(q) + 1
           /\ Append(q, x)[Len(q) + 1] = x
           /\ \A n \in 1 .. Len(q) : Append(q, x)[n] = q[n]
           /\ {Append(q, x)[n] : n \in 1 .. Len(Append(q, x))}
                = {q[n] : n \in 1 .. Len(q)} \cup {x}
<1>1. /\ Append(q, x) \in Seq(S)
      /\ Len(Append(q, x)) = Len(q) + 1
      /\ Append(q, x)[Len(q) + 1] = x
      /\ \A n \in 1 .. Len(q) : Append(q, x)[n] = q[n]
      /\ Len(q) \in Nat
  OBVIOUS
<1>2. 1 .. Len(q) + 1 = (1 .. Len(q)) \cup {Len(q) + 1}
  BY <1>1
<1> QED
  BY <1>1, <1>2

-----------------------------------------------------------------------------
(* Each part of the invariant is preserved.                                *)

\* The invariant holds at first: there is nothing yet.
LEMMA InitEstablishes == Init => IInv
<1> SUFFICES ASSUME Init PROVE IInv
  OBVIOUS
<1> USE EntityMapAssumption
<1>1. TypeOK
  BY DEF Init, TypeOK, Ids, Places, NoEntity
<1>2. HandlesPointToSlots /\ RefCountExact
  BY DEF Init, HandlesPointToSlots, RefCountExact
<1>3. QueueSound /\ ValuesSound
  BY DEF Init, QueueSound, ValuesSound, Queued, Leased, Ids, NoEntity
<1> QED
  BY <1>1, <1>2, <1>3 DEF IInv

\* Every variable keeps its type; the counts stay naturals because only a
\* handle that is counted can be dropped.
LEMMA TypeStep == IInv /\ [Next]_vars => TypeOK'
<1> SUFFICES ASSUME IInv, [Next]_vars PROVE TypeOK'
  OBVIOUS
<1> USE EntityMapAssumption, IdsAreNaturals
<1>0. TypeOK
  BY DEF IInv
<1>1. ASSUME NEW h \in Handles, Reserve(h) PROVE TypeOK'
  BY <1>0, <1>1 DEF Reserve, Create, TypeOK, Ids, Places
<1>2. ASSUME NEW h \in Handles, InsertEntity(h) PROVE TypeOK'
  <2>1. target[h] \in Ids
    BY <1>0, <1>2 DEF IInv, ValuesSound, InsertEntity, TypeOK
  <2> QED
    BY <1>0, <1>2, <2>1 DEF InsertEntity, TypeOK
<1>3. ASSUME NEW h \in Handles, Lease(h) PROVE TypeOK'
  BY <1>0, <1>3 DEF Lease, TypeOK
<1>4. ASSUME NEW h \in Handles, EndLease(h) PROVE TypeOK'
  <2>1. target[h] \in Ids
    BY <1>0, <1>4 DEF IInv, ValuesSound, EndLease, TypeOK
  <2> QED
    BY <1>0, <1>4, <2>1 DEF EndLease, TypeOK
<1>5. ASSUME NEW t \in Threads, NEW h \in Handles, NEW new \in Handles, Clone(t, h, new)
      PROVE  TypeOK'
  <2>1. PICK e \in Ids : e = target[h]
    BY <1>0, <1>5 DEF Clone, InHandsOf, TypeOK
  <2>2. ref_count' = [ref_count EXCEPT ![e] = @ + 1]
    BY <1>5, <2>1 DEF Clone
  <2>3. target' \in [Handles -> Ids \cup {NoEntity}] /\ place' \in [Handles -> Places]
    BY <1>0, <1>5, <2>1 DEF Clone, Create, TypeOK, Places
  <2> QED
    BY <1>0, <1>5, <2>2, <2>3 DEF Clone, TypeOK
<1>6. ASSUME NEW t \in Threads, NEW e \in Ids, NEW new \in Handles, Upgrade(t, e, new)
      PROVE  TypeOK'
  BY <1>0, <1>6 DEF Upgrade, Create, TypeOK, Places
<1>7. ASSUME NEW t \in Threads, NEW h \in Handles, DropHandle(t, h) PROVE TypeOK'
  <2>1. target[h] # NoEntity
    BY <1>7 DEF DropHandle, InHandsOf
  <2>2. target[h] \in Ids /\ ref_count[target[h]] \in Nat \ {0}
    BY <2>1, HandleIsCounted
  <2> QED
    BY <1>0, <1>7, <2>2 DEF DropHandle, Create, TypeOK, Places
<1>8. CASE PushDropped
  BY <1>0, <1>8, AppendMembers DEF PushDropped, TypeOK
<1>9. CASE TakeDropped
  <2>1. dropped_entity_ids' \in Seq(Ids)
    BY <1>9 DEF TakeDropped
  <2>2. /\ slots' \in SUBSET Ids /\ entities' \in SUBSET Ids
        /\ releasing' \in SUBSET Ids
    BY <1>0, <1>9 DEF TakeDropped, TypeOK
  <2> QED
    BY <1>0, <1>9, <2>1, <2>2 DEF TakeDropped, TypeOK
<1>10. ASSUME NEW e \in Ids, ReleaseValue(e) PROVE TypeOK'
  BY <1>0, <1>10 DEF ReleaseValue, TypeOK
<1>11. ASSUME NEW h \in Handles, NEW p \in Places, Move(h, p) PROVE TypeOK'
  BY <1>0, <1>11 DEF Move, TypeOK
<1>12. CASE UNCHANGED vars
  BY <1>0, <1>12 DEF vars, TypeOK
<1> QED
  BY <1>1, <1>2, <1>3, <1>4, <1>5, <1>6, <1>7, <1>8, <1>9, <1>10, <1>11, <1>12
     DEF Next, MainStep, ThreadStep

\* Handles point to slots: a slot goes only when its id is queued, and a
\* queued id has the count zero, so no handle.
LEMMA HandlesStep == IInv /\ [Next]_vars => HandlesPointToSlots'
<1> SUFFICES ASSUME IInv, [Next]_vars PROVE HandlesPointToSlots'
  OBVIOUS
<1>0. TypeOK /\ HandlesPointToSlots
  BY DEF IInv
<1>1. ASSUME NEW h \in Handles, Reserve(h) PROVE HandlesPointToSlots'
  BY <1>0, <1>1 DEF Reserve, Create, TypeOK, HandlesPointToSlots
<1>2. ASSUME NEW t \in Threads, NEW h \in Handles, NEW new \in Handles, Clone(t, h, new)
      PROVE  HandlesPointToSlots'
  <2>1. target[h] \in slots
    BY <1>0, <1>2 DEF Clone, InHandsOf, HandlesPointToSlots
  <2> QED
    BY <1>0, <1>2, <2>1 DEF Clone, Create, TypeOK, HandlesPointToSlots
<1>3. ASSUME NEW t \in Threads, NEW e \in Ids, NEW new \in Handles, Upgrade(t, e, new)
      PROVE  HandlesPointToSlots'
  BY <1>0, <1>3 DEF Upgrade, Create, TypeOK, HandlesPointToSlots
<1>4. ASSUME NEW t \in Threads, NEW h \in Handles, DropHandle(t, h) PROVE HandlesPointToSlots'
  BY <1>0, <1>4 DEF DropHandle, Create, TypeOK, HandlesPointToSlots
<1>5. CASE TakeDropped
  <2>1. \A h \in Handles : target[h] # NoEntity => target[h] \notin Queued
    BY HandleIsCounted DEF IInv, QueueSound
  <2> QED
    BY <1>0, <1>5, <2>1 DEF TakeDropped, HandlesPointToSlots
<1>6. ASSUME UNCHANGED <<slots, target>> PROVE HandlesPointToSlots'
  BY <1>0, <1>6 DEF HandlesPointToSlots
<1>7. ASSUME NEW h \in Handles, InsertEntity(h) \/ Lease(h) \/ EndLease(h)
      PROVE  UNCHANGED <<slots, target>>
  BY <1>7 DEF InsertEntity, Lease, EndLease
<1>8. ASSUME \/ PushDropped
             \/ \E e \in Ids : ReleaseValue(e)
             \/ \E h \in Handles, p \in Places : Move(h, p)
             \/ UNCHANGED vars
      PROVE  UNCHANGED <<slots, target>>
  BY <1>8 DEF PushDropped, ReleaseValue, Move, vars
<1> QED
  BY <1>1, <1>2, <1>3, <1>4, <1>5, <1>6, <1>7, <1>8 DEF Next, MainStep, ThreadStep

\* The counts stay exact: every step that makes or drops a handle changes
\* the count of its entity by one, and no other.
LEMMA CountStep == IInv /\ [Next]_vars => RefCountExact'
<1> SUFFICES ASSUME IInv, [Next]_vars PROVE RefCountExact'
  OBVIOUS
<1>0. TypeOK /\ HandlesPointToSlots /\ RefCountExact
  BY DEF IInv
<1>1. ASSUME NEW h \in Handles, Reserve(h) PROVE RefCountExact'
  <2>1. PICK n \in Ids : n = next_id
    BY <1>0, <1>1, EntityMapAssumption DEF Reserve, TypeOK, Ids
  <2>2. /\ n \notin slots /\ slots' = slots \cup {n}
        /\ target[h] = NoEntity /\ target' = [target EXCEPT ![h] = n]
        /\ ref_count' = [ref_count EXCEPT ![n] = 1]
    BY <1>0, <1>1, <2>1 DEF IInv, ValuesSound, Reserve, Create, Free, HandlesTo, Ids
  <2>3. Cardinality(HandlesTo(n)) = 0
    <3>1. HandlesTo(n) = {}
      BY <1>0, <2>2, IdsAreNaturals DEF HandlesPointToSlots, HandlesTo
    <3> QED
      BY <3>1, FS_EmptySet
  <2>4. Cardinality(HandlesTo(n)') = 1
    <3>1. Cardinality(HandlesTo(n)') = Cardinality(HandlesTo(n)) + 1
      BY <1>0, <2>2, CreateCounts
    <3> QED
      BY <2>3, <3>1
  <2>5. \A f \in slots : HandlesTo(f)' = HandlesTo(f)
    BY <1>0, <2>2, CreateCounts DEF TypeOK
  <2>6. ref_count'[n] = 1 /\ \A f \in slots : ref_count'[f] = ref_count[f]
    BY <1>0, <2>2 DEF TypeOK
  <2>7. \A f \in slots : ref_count'[f] = Cardinality(HandlesTo(f)')
    BY <1>0, <2>5, <2>6 DEF RefCountExact
  <2> QED
    BY <2>2, <2>4, <2>6, <2>7 DEF RefCountExact
<1>2. ASSUME NEW e \in slots, NEW new \in Handles, target[new] = NoEntity,
             target' = [target EXCEPT ![new] = e],
             ref_count' = [ref_count EXCEPT ![e] = @ + 1],
             UNCHANGED slots
      PROVE  RefCountExact'
  <2>1. e \in Ids
    BY <1>0 DEF TypeOK
  <2>2. ASSUME NEW f \in slots PROVE ref_count'[f] = Cardinality(HandlesTo(f)')
    <3>1. f \in Ids
      BY <1>0 DEF TypeOK
    <3>2. CASE f = e
      BY <1>0, <1>2, <2>1, <3>2, CreateCounts DEF TypeOK, RefCountExact
    <3>3. CASE f # e
      BY <1>0, <1>2, <2>1, <3>1, <3>3, CreateCounts DEF TypeOK, RefCountExact
    <3> QED
      BY <3>2, <3>3
  <2> QED
    BY <1>2, <2>2 DEF RefCountExact
<1>3. ASSUME NEW t \in Threads, NEW h \in Handles, NEW new \in Handles, Clone(t, h, new)
      PROVE  RefCountExact'
  <2>1. PICK e \in slots : e = target[h]
    BY <1>0, <1>3 DEF Clone, InHandsOf, HandlesPointToSlots
  <2> QED
    BY <1>2, <1>3, <2>1 DEF Clone, Create, Free, HandlesTo
<1>4. ASSUME NEW t \in Threads, NEW e \in Ids, NEW new \in Handles, Upgrade(t, e, new)
      PROVE  RefCountExact'
  BY <1>2, <1>4 DEF Upgrade, Create, Free, HandlesTo
<1>5. ASSUME NEW t \in Threads, NEW h \in Handles, DropHandle(t, h) PROVE RefCountExact'
  <2>1. PICK e \in Ids : e = target[h]
    BY <1>0, <1>5 DEF DropHandle, InHandsOf, TypeOK
  <2>2. /\ target' = [target EXCEPT ![h] = NoEntity]
        /\ ref_count' = [ref_count EXCEPT ![e] = @ - 1]
        /\ slots' = slots
    BY <1>5, <2>1 DEF DropHandle, Create
  <2>3. ASSUME NEW f \in slots PROVE ref_count'[f] = Cardinality(HandlesTo(f)')
    <3>1. f \in Ids
      BY <1>0 DEF TypeOK
    <3>2. CASE f = e
      BY <1>0, <2>1, <2>2, <3>2, DropCounts DEF TypeOK, RefCountExact
    <3>3. CASE f # e
      BY <1>0, <2>1, <2>2, <3>1, <3>3, DropCounts DEF TypeOK, RefCountExact
    <3> QED
      BY <3>2, <3>3
  <2> QED
    BY <2>2, <2>3 DEF RefCountExact
<1>6. ASSUME slots' \subseteq slots, UNCHANGED <<ref_count, target>> PROVE RefCountExact'
  BY <1>0, <1>6 DEF RefCountExact, HandlesTo
<1>7. ASSUME NEW h \in Handles, InsertEntity(h) \/ Lease(h) \/ EndLease(h)
      PROVE  slots' \subseteq slots /\ UNCHANGED <<ref_count, target>>
  BY <1>7 DEF InsertEntity, Lease, EndLease
<1>8. ASSUME \/ PushDropped \/ TakeDropped
             \/ \E e \in Ids : ReleaseValue(e)
             \/ \E h \in Handles, p \in Places : Move(h, p)
             \/ UNCHANGED vars
      PROVE  slots' \subseteq slots /\ UNCHANGED <<ref_count, target>>
  BY <1>8 DEF PushDropped, TakeDropped, ReleaseValue, Move, vars
<1> QED
  BY <1>1, <1>3, <1>4, <1>5, <1>6, <1>7, <1>8 DEF Next, MainStep, ThreadStep

\* The queue stays sound: the drop that takes a count to zero is the only
\* one that will push the id, and nothing counts up from zero.
LEMMA QueueStep == IInv /\ [Next]_vars => QueueSound'
<1> SUFFICES ASSUME IInv, [Next]_vars PROVE QueueSound'
  OBVIOUS
<1>0. TypeOK /\ QueueSound
  BY DEF IInv
<1>1. ASSUME NEW h \in Handles, Reserve(h) PROVE QueueSound'
  <2>1. PICK n \in Ids : n = next_id
    BY <1>0, <1>1, EntityMapAssumption DEF Reserve, TypeOK, Ids
  <2>2. /\ n \notin slots /\ slots' = slots \cup {n}
        /\ ref_count' = [ref_count EXCEPT ![n] = 1]
        /\ UNCHANGED <<dropped_entity_ids, dropping>>
    BY <1>0, <1>1, <2>1 DEF IInv, ValuesSound, Reserve, Ids
  <2>3. ref_count'[n] = 1 /\ \A f \in slots : ref_count'[f] = ref_count[f]
    BY <1>0, <2>2 DEF TypeOK
  <2> QED
    BY <1>0, <2>2, <2>3 DEF QueueSound, Queued
<1>2. ASSUME NEW e \in slots, ref_count[e] \in Nat \ {0},
             ref_count' = [ref_count EXCEPT ![e] = @ + 1],
             UNCHANGED <<slots, dropped_entity_ids, dropping>>
      PROVE  QueueSound'
  <2>1. \A f \in slots : ref_count'[f] = 0 <=> ref_count[f] = 0
    BY <1>0, <1>2 DEF TypeOK
  <2> QED
    BY <1>0, <1>2, <2>1 DEF QueueSound, Queued
<1>3. ASSUME NEW t \in Threads, NEW h \in Handles, NEW new \in Handles, Clone(t, h, new)
      PROVE  QueueSound'
  <2>1. target[h] # NoEntity
    BY <1>3 DEF Clone, InHandsOf
  <2>2. PICK e \in slots : e = target[h] /\ ref_count[e] \in Nat \ {0}
    BY <2>1, HandleIsCounted
  <2> QED
    BY <1>2, <1>3, <2>2 DEF Clone
<1>4. ASSUME NEW t \in Threads, NEW e \in Ids, NEW new \in Handles, Upgrade(t, e, new)
      PROVE  QueueSound'
  BY <1>0, <1>2, <1>4 DEF Upgrade, TypeOK
<1>5. ASSUME NEW t \in Threads, NEW h \in Handles, DropHandle(t, h) PROVE QueueSound'
  <2>1. target[h] # NoEntity
    BY <1>5 DEF DropHandle, InHandsOf
  <2>2. PICK e \in slots : e = target[h] /\ e \in Ids /\ ref_count[e] \in Nat \ {0}
    BY <2>1, HandleIsCounted
  <2>3. /\ dropping = {}
        /\ ref_count' = [ref_count EXCEPT ![e] = @ - 1]
        /\ dropping' = IF ref_count[e] = 1 THEN {<<t, e>>} ELSE {}
        /\ UNCHANGED <<slots, dropped_entity_ids>>
    BY <1>5, <2>2 DEF DropHandle, CanWrite
  <2>4. /\ ref_count'[e] = ref_count[e] - 1
        /\ \A f \in slots \ {e} : ref_count'[f] = ref_count[f]
    BY <1>0, <2>3 DEF TypeOK
  <2>5. e \notin Queued
    BY <1>0, <2>2 DEF QueueSound
  <2>6. /\ ref_count[e] = 1 => {d[2] : d \in dropping'} = {e}
        /\ ref_count[e] # 1 => {d[2] : d \in dropping'} = {}
    <3>1. CASE ref_count[e] = 1
      <4>1. dropping' = {<<t, e>>} /\ <<t, e>>[2] = e
        BY <2>3, <3>1
      <4> QED
        BY <3>1, <4>1
    <3>2. CASE ref_count[e] # 1
      <4>1. dropping' = {}
        BY <2>3, <3>2
      <4> QED
        BY <3>2, <4>1
    <3> QED
      BY <3>1, <3>2
  <2>7. \A f \in slots : ref_count'[f] = 0 <=> f \in Queued \cup {d[2] : d \in dropping'}
    <3>1. CASE ref_count[e] = 1
      BY <1>0, <2>2, <2>3, <2>4, <2>6, <3>1 DEF QueueSound
    <3>2. CASE ref_count[e] # 1
      BY <1>0, <2>2, <2>3, <2>4, <2>5, <2>6, <3>2 DEF QueueSound
    <3> QED
      BY <3>1, <3>2
  <2> QED
    BY <1>0, <2>2, <2>3, <2>5, <2>6, <2>7 DEF QueueSound, Queued
<1>6. CASE PushDropped
  <2>1. PICK d \in dropping : dropped_entity_ids' = Append(dropped_entity_ids, d[2])
    BY <1>6 DEF PushDropped
  <2>2. dropping = {d} /\ d[2] \in Ids /\ d[2] \in slots /\ d[2] \notin Queued
    BY <1>0, <2>1 DEF QueueSound, TypeOK
  <2>3. dropping' = {} /\ UNCHANGED <<slots, ref_count>>
    BY <1>6 DEF PushDropped
  <2>4. Queued' = Queued \cup {d[2]}
    BY <1>0, <2>1, <2>2, AppendMembers DEF Queued, TypeOK
  <2>5. \A m, n \in 1 .. Len(dropped_entity_ids') :
           dropped_entity_ids'[m] = dropped_entity_ids'[n] => m = n
    BY <1>0, <2>1, <2>2, AppendMembers DEF QueueSound, Queued, TypeOK
  <2> QED
    BY <1>0, <2>2, <2>3, <2>4, <2>5 DEF QueueSound
<1>7. CASE TakeDropped
  <2>1. Queued' = {} /\ dropped_entity_ids' = <<>>
    BY <1>7 DEF TakeDropped, Queued
  <2> QED
    BY <1>0, <1>7, <2>1 DEF TakeDropped, CanWrite, QueueSound
<1>8. ASSUME UNCHANGED <<slots, ref_count, dropped_entity_ids, dropping>> PROVE QueueSound'
  BY <1>0, <1>8 DEF QueueSound, Queued
<1>9. ASSUME NEW h \in Handles, InsertEntity(h) \/ Lease(h) \/ EndLease(h)
      PROVE  UNCHANGED <<slots, ref_count, dropped_entity_ids, dropping>>
  BY <1>9 DEF InsertEntity, Lease, EndLease
<1>10. ASSUME \/ \E e \in Ids : ReleaseValue(e)
              \/ \E h \in Handles, p \in Places : Move(h, p)
              \/ UNCHANGED vars
       PROVE  UNCHANGED <<slots, ref_count, dropped_entity_ids, dropping>>
  BY <1>10 DEF ReleaseValue, Move, vars
<1> QED
  BY <1>1, <1>3, <1>4, <1>5, <1>6, <1>7, <1>8, <1>9, <1>10 DEF Next, MainStep, ThreadStep

\* The values stay sound: they leave the map only for a lease, which puts
\* them back, or with their slot.
LEMMA ValuesStep == IInv /\ [Next]_vars => ValuesSound'
<1> SUFFICES ASSUME IInv, [Next]_vars PROVE ValuesSound'
  OBVIOUS
<1>0. TypeOK /\ HandlesPointToSlots /\ ValuesSound
  BY DEF IInv
<1>1. ASSUME NEW h \in Handles, Reserve(h) PROVE ValuesSound'
  <2>1. PICK n \in Ids : n = next_id
    BY <1>0, <1>1, EntityMapAssumption DEF Reserve, TypeOK, Ids
  <2>2. /\ n \in Nat /\ n \notin inserted /\ n # NoEntity /\ n \notin entities
        /\ slots' = slots \cup {n} /\ next_id' = n + 1
        /\ target[h] = NoEntity /\ target' = [target EXCEPT ![h] = n]
        /\ reservations' = reservations \cup {h}
        /\ UNCHANGED <<entities, leases, inserted>>
    BY <1>0, <1>1, <2>1, IdsAreNaturals DEF ValuesSound, Reserve, Create, Free, HandlesTo
  <2>3. h \notin leases
    BY <1>0, <2>2 DEF ValuesSound
  <2>4. Leased' = Leased
    BY <1>0, <2>2, <2>3 DEF Leased, TypeOK
  <2>5. slots' \cup inserted' \subseteq 0 .. next_id' - 1
    BY <1>0, <2>1, <2>2 DEF ValuesSound
  <2>6. \A g \in Handles : target'[g] = IF g = h THEN n ELSE target[g]
    BY <1>0, <2>2 DEF TypeOK
  <2> QED
    BY <1>0, <2>2, <2>4, <2>5, <2>6 DEF ValuesSound, TypeOK
<1>2. ASSUME NEW h \in Handles, InsertEntity(h) PROVE ValuesSound'
  <2>1. target[h] \in slots
    BY <1>0, <1>2 DEF InsertEntity, ValuesSound, HandlesPointToSlots
  <2> QED
    BY <1>0, <1>2, <2>1 DEF InsertEntity, ValuesSound, Leased
<1>3. ASSUME NEW h \in Handles, Lease(h) PROVE ValuesSound'
  <2>1. Leased' = Leased \cup {target[h]} /\ entities' = entities \ {target[h]}
    BY <1>3 DEF Lease, Leased
  <2> QED
    BY <1>0, <1>3, <2>1 DEF Lease, ValuesSound, InHandsOf
<1>4. ASSUME NEW h \in Handles, EndLease(h) PROVE ValuesSound'
  <2>1. target[h] \in slots
    BY <1>0, <1>4 DEF EndLease, ValuesSound, HandlesPointToSlots
  <2>2. Leased \subseteq Leased' \cup {target[h]} /\ entities' = entities \cup {target[h]}
    BY <1>4 DEF EndLease, Leased
  <2> QED
    BY <1>0, <1>4, <2>1, <2>2 DEF EndLease, ValuesSound
<1>5. ASSUME NEW e \in slots, NEW new \in Handles, target[new] = NoEntity,
             target' = [target EXCEPT ![new] = e],
             e \in inserted => e \in entities \cup Leased,
             UNCHANGED <<slots, entities, leases, reservations, next_id, inserted>>
      PROVE  ValuesSound'
  <2>1. new \notin leases \cup reservations
    BY <1>0, <1>5 DEF ValuesSound
  <2>2. Leased' = Leased
    BY <1>0, <1>5, <2>1 DEF Leased, TypeOK
  <2>3. \A g \in Handles : target'[g] = IF g = new THEN e ELSE target[g]
    BY <1>0, <1>5 DEF TypeOK
  <2> QED
    BY <1>0, <1>5, <2>1, <2>2, <2>3 DEF ValuesSound, TypeOK
<1>6. ASSUME NEW t \in Threads, NEW h \in Handles, NEW new \in Handles, Clone(t, h, new)
      PROVE  ValuesSound'
  <2>1. PICK e \in slots : e = target[h]
    BY <1>0, <1>6 DEF Clone, InHandsOf, HandlesPointToSlots
  <2> QED
    BY <1>0, <1>5, <1>6, <2>1 DEF Clone, Create, Free, HandlesTo, ValuesSound
<1>7. ASSUME NEW t \in Threads, NEW e \in Ids, NEW new \in Handles, Upgrade(t, e, new)
      PROVE  ValuesSound'
  <2>1. PICK h \in Handles : target[h] = e
    <3>1. Cardinality(HandlesTo(e)) # 0
      BY <1>7 DEF Upgrade, IInv, RefCountExact
    <3>2. HandlesTo(e) # {}
      BY <3>1, FS_EmptySet
    <3> QED
      BY <3>2 DEF HandlesTo
  <2> QED
    BY <1>0, <1>5, <1>7, <2>1 DEF Upgrade, Create, Free, HandlesTo, ValuesSound
<1>8. ASSUME NEW t \in Threads, NEW h \in Handles, DropHandle(t, h) PROVE ValuesSound'
  <2>1. \A g \in Handles : target'[g] = IF g = h THEN NoEntity ELSE target[g]
    BY <1>0, <1>8 DEF DropHandle, Create, TypeOK
  <2>2. h \notin leases /\ Leased' = Leased
    BY <1>0, <1>8, <2>1 DEF DropHandle, Leased, TypeOK
  <2>3. NoEntity \notin inserted
    BY <1>0, IdsAreNaturals DEF TypeOK
  <2> QED
    BY <1>0, <1>8, <2>1, <2>2, <2>3 DEF DropHandle, ValuesSound, TypeOK
<1>9. CASE TakeDropped
  <2>1. \A h \in Handles : target[h] # NoEntity => target[h] \notin Queued
    BY HandleIsCounted DEF IInv, QueueSound
  <2>2. NoEntity \notin inserted
    BY <1>0, IdsAreNaturals DEF TypeOK
  <2>3. Leased' = Leased
    BY <1>9 DEF TakeDropped, Leased
  <2> QED
    BY <1>0, <1>9, <2>1, <2>2, <2>3 DEF TakeDropped, ValuesSound
<1>10. ASSUME UNCHANGED <<slots, entities, leases, target, reservations, next_id, inserted>>
       PROVE  ValuesSound'
  BY <1>0, <1>10 DEF ValuesSound, Leased
<1>11. ASSUME \/ PushDropped
              \/ \E e \in Ids : ReleaseValue(e)
              \/ \E h \in Handles, p \in Places : Move(h, p)
              \/ UNCHANGED vars
       PROVE  UNCHANGED <<slots, entities, leases, target, reservations, next_id, inserted>>
  BY <1>11 DEF PushDropped, ReleaseValue, Move, vars
<1> QED
  BY <1>1, <1>2, <1>3, <1>4, <1>6, <1>7, <1>8, <1>9, <1>10, <1>11
     DEF Next, MainStep, ThreadStep

-----------------------------------------------------------------------------
(* What the invariant gives.                                               *)

\* The parts of the invariant hold together in every reachable state.
LEMMA Invariant == Spec => []IInv
<1>1. IInv /\ [Next]_vars => IInv'
  BY TypeStep, HandlesStep, CountStep, QueueStep, ValuesStep DEF IInv
<1> QED
  BY InitEstablishes, <1>1, PTL DEF Spec

\* Every variable keeps its type: no count goes below zero.
THEOREM TypeCorrect == Spec => []TypeOK
<1>1. IInv => TypeOK
  BY DEF IInv
<1> QED
  BY <1>1, Invariant, PTL

\* The reference counts are exact, however the threads clone, upgrade and
\* drop.
THEOREM CountsAreExact == Spec => []RefCountExact
<1>1. IInv => RefCountExact
  BY DEF IInv
<1> QED
  BY <1>1, Invariant, PTL

\* The queue of dropped ids holds each unreferenced id once and nothing else:
\* take_dropped neither misses its slot nor removes one that is referenced.
THEOREM QueueIsExact == Spec => []QueueIsTheUnreferenced
<1>1. ASSUME IInv PROVE QueueIsTheUnreferenced
  <2> DEFINE f == [n \in 1 .. Len(dropped_entity_ids) |-> dropped_entity_ids[n]]
  <2>1. Len(dropped_entity_ids) \in Nat
    BY <1>1 DEF IInv, TypeOK
  <2>2. f \in Bijection(1 .. Len(dropped_entity_ids), Queued)
    <3>1. f \in [1 .. Len(dropped_entity_ids) -> Queued]
      BY DEF Queued
    <3>2. \A m, n \in 1 .. Len(dropped_entity_ids) : f[m] = f[n] => m = n
      BY <1>1 DEF IInv, QueueSound
    <3>3. \A e \in Queued : \E n \in 1 .. Len(dropped_entity_ids) : f[n] = e
      BY DEF Queued
    <3> QED
      BY <3>1, <3>2, <3>3, Fun_IsBij
  <2>3. ExistsBijection(1 .. Len(dropped_entity_ids), Queued)
    BY <2>2 DEF ExistsBijection
  <2>4. /\ IsFiniteSet(1 .. Len(dropped_entity_ids))
        /\ Cardinality(1 .. Len(dropped_entity_ids)) = Len(dropped_entity_ids)
    BY <2>1, IntervalCount
  <2>5. Cardinality(Queued) = Len(dropped_entity_ids)
    BY <2>3, <2>4, FS_Bijection
  <2> QED
    BY <1>1, <2>5 DEF IInv, QueueSound, QueueIsTheUnreferenced
<1> QED
  BY <1>1, Invariant, PTL

\* Whoever has a strong handle has the entity and its value.
THEOREM HandlesKeepEntities == Spec => []HandleKeepsEntity
<1>1. IInv => HandleKeepsEntity
  BY DEF IInv, HandlesPointToSlots, ValuesSound, HandleKeepsEntity
<1> QED
  BY <1>1, Invariant, PTL

\* A value in the map, or on the stack of an update, has its slot.
THEOREM ValuesKeepSlots == Spec => []ValuesHaveSlots
<1>1. IInv => ValuesHaveSlots
  BY DEF IInv, TypeOK, HandlesPointToSlots, ValuesSound, ValuesHaveSlots, Leased
<1> QED
  BY <1>1, Invariant, PTL

\* No weak handle brings an entity back after its last strong handle went.
THEOREM NothingResurrected == Spec => NoResurrection
<1> DEFINE Stays == \A e \in slots : ref_count[e] = 0 => ref_count'[e] = 0
<1>1. ASSUME IInv, [Next]_vars PROVE [Stays]_vars
  <2>0. TypeOK /\ ValuesSound
    BY <1>1 DEF IInv
  <2>1. ASSUME NEW h \in Handles, Reserve(h) PROVE Stays
    BY <2>0, <2>1 DEF Reserve, TypeOK, ValuesSound
  <2>2. ASSUME NEW t \in Threads, NEW h \in Handles, NEW new \in Handles, Clone(t, h, new)
        PROVE  Stays
    <3>1. ref_count[target[h]] # 0
      BY <1>1, <2>2, HandleIsCounted DEF Clone, InHandsOf
    <3> QED
      BY <2>0, <2>2, <3>1 DEF Clone, TypeOK
  <2>3. ASSUME NEW t \in Threads, NEW e \in Ids, NEW new \in Handles, Upgrade(t, e, new)
        PROVE  Stays
    BY <2>0, <2>3 DEF Upgrade, TypeOK
  <2>4. ASSUME NEW t \in Threads, NEW h \in Handles, DropHandle(t, h) PROVE Stays
    <3>1. ref_count[target[h]] # 0
      BY <1>1, <2>4, HandleIsCounted DEF DropHandle, InHandsOf
    <3> QED
      BY <2>0, <2>4, <3>1 DEF DropHandle, TypeOK
  <2>5. ASSUME NEW h \in Handles, InsertEntity(h) \/ Lease(h) \/ EndLease(h) PROVE Stays
    BY <2>5 DEF InsertEntity, Lease, EndLease
  <2>6. ASSUME \/ PushDropped \/ TakeDropped
               \/ \E e \in Ids : ReleaseValue(e)
               \/ \E h \in Handles, p \in Places : Move(h, p)
        PROVE  Stays
    BY <2>6 DEF PushDropped, TakeDropped, ReleaseValue, Move
  <2> QED
    BY <1>1, <2>1, <2>2, <2>3, <2>4, <2>5, <2>6 DEF Next, MainStep, ThreadStep
<1> QED
  BY <1>1, Invariant, PTL DEF Spec, NoResurrection

-----------------------------------------------------------------------------
(* EntityMap implements Ownership.                                         *)

\* What is released has lost its slot, and exactly the values that were built
\* are in the map or on the stack of an update, as long as their slots are there.
LifeSound ==
    /\ releasing \subseteq 0 .. next_id - 1 /\ releasing \cap slots = {}
    /\ \A e \in slots \cap inserted : e \in entities \cup Leased
    /\ entities \cup Leased \subseteq inserted

\* Every step keeps this.
LEMMA LifeSoundStep ==
    ASSUME IInv, LifeSound, [Next]_vars
    PROVE  LifeSound'
<1>0. TypeOK /\ HandlesPointToSlots /\ ValuesSound
  BY DEF IInv
<1>1. ASSUME NEW h \in Handles, Reserve(h) PROVE LifeSound'
  <2>1. PICK n \in Ids : n = next_id
    BY <1>0, <1>1, EntityMapAssumption DEF Reserve, TypeOK, Ids
  <2>2. /\ n \in Nat /\ n \notin inserted /\ n \notin releasing
        /\ slots' = slots \cup {n} /\ next_id' = n + 1
        /\ target[h] = NoEntity /\ target' = [target EXCEPT ![h] = n]
        /\ UNCHANGED <<entities, leases, inserted, releasing>>
    BY <1>0, <1>1, <2>1, IdsAreNaturals
       DEF LifeSound, ValuesSound, Reserve, Create, Free, HandlesTo
  <2>3. h \notin leases
    BY <1>0, <2>2 DEF ValuesSound
  <2>4. Leased' = Leased
    BY <1>0, <2>2, <2>3 DEF Leased, TypeOK
  <2>5. releasing' \subseteq 0 .. next_id' - 1
    BY <1>0, <2>1, <2>2 DEF LifeSound
  <2> QED
    BY <2>2, <2>4, <2>5 DEF LifeSound
<1>2. ASSUME NEW h \in Handles, InsertEntity(h) PROVE LifeSound'
  BY <1>0, <1>2 DEF InsertEntity, ValuesSound, LifeSound, Leased
<1>3. ASSUME NEW h \in Handles, Lease(h) PROVE LifeSound'
  <2>1. Leased' = Leased \cup {target[h]} /\ entities' = entities \ {target[h]}
    BY <1>3 DEF Lease, Leased
  <2> QED
    BY <1>3, <2>1 DEF Lease, LifeSound
<1>4. ASSUME NEW h \in Handles, EndLease(h) PROVE LifeSound'
  <2>1. /\ Leased \subseteq Leased' \cup {target[h]} /\ Leased' \subseteq Leased
        /\ target[h] \in Leased /\ entities' = entities \cup {target[h]}
    BY <1>4 DEF EndLease, Leased
  <2> QED
    BY <1>4, <2>1 DEF EndLease, LifeSound
<1>5. ASSUME UNCHANGED <<slots, entities, leases, next_id, inserted, releasing>>,
             \A g \in leases : target'[g] = target[g]
      PROVE  LifeSound'
  BY <1>5 DEF LifeSound, Leased
<1>6. ASSUME NEW t \in Threads, NEW e, NEW new \in Handles,
             Clone(t, e, new) \/ Upgrade(t, e, new)
      PROVE  LifeSound'
  <2>1. target[new] = NoEntity /\ \E f : target' = [target EXCEPT ![new] = f]
    BY <1>6 DEF Clone, Upgrade, Create, Free, HandlesTo
  <2>2. \A g \in leases : target'[g] = target[g]
    BY <1>0, <2>1 DEF ValuesSound, TypeOK
  <2> QED
    BY <1>5, <1>6, <2>2 DEF Clone, Upgrade
<1>7. ASSUME NEW t \in Threads, NEW h \in Handles, DropHandle(t, h) PROVE LifeSound'
  <2>1. h \notin leases /\ target' = [target EXCEPT ![h] = NoEntity]
    BY <1>7 DEF DropHandle, Create
  <2>2. \A g \in leases : target'[g] = target[g]
    BY <1>0, <2>1 DEF TypeOK
  <2> QED
    BY <1>5, <1>7, <2>2 DEF DropHandle
<1>8. CASE TakeDropped
  <2>1. Leased' = Leased
    BY <1>8 DEF TakeDropped, Leased
  <2>2. Queued \subseteq 0 .. next_id - 1
    BY <1>0 DEF IInv, QueueSound, ValuesSound
  <2> QED
    BY <1>8, <2>1, <2>2 DEF TakeDropped, LifeSound
<1>9. ASSUME NEW e \in Ids, ReleaseValue(e) PROVE LifeSound'
  BY <1>9 DEF ReleaseValue, LifeSound, Leased
<1>10. CASE \/ PushDropped \/ UNCHANGED vars
            \/ \E h \in Handles, p \in Places : Move(h, p)
  BY <1>5, <1>10 DEF PushDropped, Move, vars
<1> QED
  BY <1>1, <1>2, <1>3, <1>4, <1>6, <1>7, <1>8, <1>9, <1>10
     DEF Next, MainStep, ThreadStep

\* The handles to every entity after a step that makes or drops one.
LEMMA HoldersAfter ==
    ASSUME TypeOK, NEW h \in Handles
    PROVE  /\ \A e \in Ids : target[h] = NoEntity /\ target' = [target EXCEPT ![h] = e] =>
                  holders' = [holders EXCEPT ![e] = @ \cup {h}]
           /\ \A e \in Ids : target[h] = e /\ target' = [target EXCEPT ![h] = NoEntity] =>
                  holders' = [holders EXCEPT ![e] = @ \ {h}]
<1> USE DEF TypeOK
<1>1. ASSUME NEW e \in Ids, target[h] = NoEntity, target' = [target EXCEPT ![h] = e]
      PROVE  holders' = [holders EXCEPT ![e] = @ \cup {h}]
  <2>1. HandlesTo(e)' = HandlesTo(e) \cup {h}
    BY <1>1 DEF HandlesTo
  <2>2. \A f \in Ids \ {e} : HandlesTo(f)' = HandlesTo(f)
    BY <1>1, CreateCounts
  <2> QED
    BY <2>1, <2>2 DEF holders
<1>2. ASSUME NEW e \in Ids, target[h] = e, target' = [target EXCEPT ![h] = NoEntity]
      PROVE  holders' = [holders EXCEPT ![e] = @ \ {h}]
  <2>1. HandlesTo(e)' = HandlesTo(e) \ {h}
    BY <1>2, IdsAreNaturals DEF HandlesTo
  <2>2. \A f \in Ids \ {e} : HandlesTo(f)' = HandlesTo(f)
    BY <1>2, DropCounts
  <2> QED
    BY <2>1, <2>2 DEF holders
<1> QED
  BY <1>1, <1>2

\* A handle that does not exist points to no entity.
LEMMA FreeIsUnused ==
    ASSUME TypeOK, NEW h \in Handles, target[h] = NoEntity
    PROVE  Owned!Unused(h)
BY IdsAreNaturals DEF Owned!Unused, holders, HandlesTo

\* With no drop about to push, the queue holds exactly what is lost.
LEMMA QueuedIsLost ==
    ASSUME IInv, CanWrite
    PROVE  Owned!Lost = Queued
<1>1. /\ slots \subseteq Ids /\ Queued \subseteq slots /\ slots \subseteq 0 .. next_id - 1
      /\ next_id \in Nat
  BY EntityMapAssumption DEF IInv, TypeOK, QueueSound, ValuesSound
<1>2. \A e \in slots : ref_count[e] = 0 <=> e \in Queued
  BY DEF IInv, QueueSound, CanWrite
<1>3. \A e \in slots : ref_count[e] = 0 <=> HandlesTo(e) = {}
  BY HandlesToFinite, FS_EmptySet DEF IInv, RefCountExact
<1>4. \A e \in Ids : life[e] \in {"reserved", "alive"} <=> e \in slots
  <2>1. \A e \in slots : ~(e >= next_id)
    BY <1>1
  <2> QED
    BY <2>1 DEF life, Life
<1>5. \A e \in Ids : holders[e] = HandlesTo(e)
  BY DEF holders
<1> QED
  BY <1>1, <1>2, <1>3, <1>4, <1>5 DEF Owned!Lost

\* Every step is one of Ownership, or changes nothing there.
LEMMA OwnershipStep ==
    ASSUME IInv, LifeSound, [Next]_vars
    PROVE  [Owned!Next]_Owned!vars
<1>0. /\ TypeOK /\ HandlesPointToSlots /\ ValuesSound
      /\ next_id \in Nat /\ \A e \in Ids : e \in Nat
  BY EntityMapAssumption, IdsAreNaturals DEF IInv, TypeOK
<1> DEFINE Goal == Owned!Next \/ UNCHANGED <<life, holders>>
<1> SUFFICES Goal
  BY DEF Owned!vars
<1>1. ASSUME UNCHANGED <<slots, inserted, releasing, next_id>> PROVE life' = life
  BY <1>1 DEF life, Life
<1>2. ASSUME UNCHANGED target PROVE holders' = holders
  BY <1>2 DEF holders, HandlesTo
<1>3. ASSUME NEW h \in Handles, Reserve(h) PROVE Goal
  <2>1. PICK n \in Ids : n = next_id
    BY <1>0, <1>3, EntityMapAssumption DEF Reserve, TypeOK, Ids
  <2>2. /\ n \notin inserted /\ n \notin slots /\ target[h] = NoEntity
        /\ slots' = slots \cup {n} /\ next_id' = n + 1 /\ UNCHANGED <<inserted, releasing>>
        /\ target' = [target EXCEPT ![h] = n]
    BY <1>0, <1>3, <2>1 DEF ValuesSound, Reserve, Create, Free, HandlesTo
  <2>3. HandlesTo(n) = {}
    BY <1>0, <2>2, IdsAreNaturals DEF HandlesTo, HandlesPointToSlots
  <2>4. life[n] = "unborn" /\ holders[n] = {}
    BY <1>0, <2>1, <2>3 DEF life, Life, holders
  <2>5. life' = [life EXCEPT ![n] = "reserved"]
    <3>1. Life(n)' = "reserved"
      BY <1>0, <2>1, <2>2 DEF Life
    <3>2. ASSUME NEW e \in Ids, e # n PROVE Life(e)' = Life(e)
      <4>1. e >= next_id' <=> e >= next_id
        BY <1>0, <2>1, <2>2, <3>2
      <4>2. e \in slots' <=> e \in slots
        BY <2>2, <3>2
      <4> QED
        BY <2>2, <4>1, <4>2 DEF Life
    <3> QED
      BY <3>1, <3>2 DEF life
  <2>6. holders' = [holders EXCEPT ![n] = {h}]
    <3>1. holders' = [holders EXCEPT ![n] = @ \cup {h}]
      BY <1>0, <2>2, HoldersAfter
    <3> QED
      BY <2>4, <3>1
  <2>7. Owned!Reserve(n, h)
    BY <1>0, <2>2, <2>4, <2>5, <2>6, FreeIsUnused DEF Owned!Reserve
  <2> QED
    BY <2>7 DEF Owned!Next
<1>4. ASSUME NEW h \in Handles, InsertEntity(h) PROVE Goal
  <2>0. PICK e \in slots : e = target[h]
    BY <1>0, <1>4 DEF InsertEntity, ValuesSound, HandlesPointToSlots
  <2>1. /\ e \in Ids /\ ~(e >= next_id) /\ inserted' = inserted \cup {e}
        /\ UNCHANGED <<slots, releasing, next_id, target>>
    BY <1>0, <1>4, <2>0 DEF InsertEntity, ValuesSound, TypeOK
  <2>2. holders' = holders /\ h \in holders[e]
    BY <1>2, <2>0, <2>1 DEF holders, HandlesTo
  <2>3. CASE e \in inserted
    BY <1>1, <2>1, <2>2, <2>3
  <2>4. CASE e \notin inserted
    <3>1. life[e] = "reserved"
      BY <1>0, <2>1, <2>4 DEF life, Life
    <3>2. life' = [life EXCEPT ![e] = "alive"]
      <4>1. Life(e)' = "alive"
        BY <1>0, <2>1 DEF Life
      <4>2. \A f \in Ids \ {e} : Life(f)' = Life(f)
        BY <2>1 DEF Life
      <4> QED
        BY <4>1, <4>2 DEF life
    <3>3. Owned!Build(e)
      BY <2>2, <3>1, <3>2 DEF Owned!Build
    <3> QED
      BY <2>1, <3>3 DEF Owned!Next
  <2> QED
    BY <2>3, <2>4
<1>5. ASSUME NEW e \in slots, HandlesTo(e) # {}, NEW new \in Handles, target[new] = NoEntity,
             target' = [target EXCEPT ![new] = e],
             UNCHANGED <<slots, inserted, releasing, next_id>>
      PROVE  Goal
  <2>1. e \in Ids /\ holders[e] # {}
    BY <1>0, <1>5 DEF holders, TypeOK
  <2>2. Owned!Acquire(e, new)
    BY <1>0, <1>1, <1>5, <2>1, HoldersAfter, FreeIsUnused DEF Owned!Acquire
  <2> QED
    BY <2>1, <2>2 DEF Owned!Next
<1>6. ASSUME NEW t \in Threads, NEW h \in Handles, NEW new \in Handles, Clone(t, h, new)
      PROVE  Goal
  <2>1. target[h] \in slots /\ h \in HandlesTo(target[h])
    BY <1>0, <1>6 DEF Clone, InHandsOf, HandlesPointToSlots, HandlesTo
  <2> QED
    BY <1>5, <1>6, <2>1 DEF Clone, Create, Free, HandlesTo
<1>7. ASSUME NEW t \in Threads, NEW e \in Ids, NEW new \in Handles, Upgrade(t, e, new)
      PROVE  Goal
  <2>1. HandlesTo(e) # {}
    BY <1>7, FS_EmptySet DEF Upgrade, IInv, RefCountExact
  <2> QED
    BY <1>5, <1>7, <2>1 DEF Upgrade, Create, Free, HandlesTo
<1>8. ASSUME NEW t \in Threads, NEW h \in Handles, DropHandle(t, h) PROVE Goal
  <2> DEFINE e == target[h]
  <2>1. /\ e # NoEntity /\ target' = [target EXCEPT ![h] = NoEntity]
        /\ UNCHANGED <<slots, inserted, releasing, next_id>>
    BY <1>8 DEF DropHandle, Create, InHandsOf
  <2>2. e \in Ids /\ h \in holders[e]
    BY <1>0, <2>1 DEF holders, HandlesTo, TypeOK
  <2>3. Owned!Discard(e, h)
    BY <1>0, <1>1, <2>1, <2>2, HoldersAfter DEF Owned!Discard
  <2> QED
    BY <2>2, <2>3 DEF Owned!Next
<1>9. CASE TakeDropped
  <2>1. /\ CanWrite /\ dropped_entity_ids # <<>>
        /\ slots' = slots \ Queued /\ releasing' = releasing \cup (Queued \cap entities)
        /\ UNCHANGED <<next_id, inserted, target>>
    BY <1>9 DEF TakeDropped
  <2>2. Leased \cap Queued = {}
    <3>1. \A h \in leases : h \in Handles /\ target[h] # NoEntity
      BY <1>0 DEF ValuesSound, TypeOK
    <3>2. \A h \in leases : target[h] \notin Queued
      BY <3>1, HandleIsCounted DEF IInv, QueueSound
    <3> QED
      BY <3>2 DEF Leased
  <2>3. Owned!Lost = Queued /\ Queued \subseteq slots /\ slots \subseteq 0 .. next_id - 1
    BY <2>1, QueuedIsLost DEF IInv, QueueSound, ValuesSound
  <2>4. Queued # {}
    <3>1. 1 \in 1 .. Len(dropped_entity_ids)
      BY <1>0, <2>1 DEF TypeOK
    <3> QED
      BY <3>1 DEF Queued
  <2>5. ASSUME NEW e \in Ids
        PROVE  Life(e)' = IF e \notin Queued THEN Life(e)
                          ELSE IF Life(e) = "alive" THEN "releasing" ELSE "gone"
    <3>1. CASE e \notin Queued
      BY <2>1, <3>1 DEF Life
    <3>2. CASE e \in Queued
      <4>1. ~(e >= next_id) /\ e \in slots /\ e \notin slots' /\ e \notin releasing
        BY <1>0, <2>1, <2>3, <3>2 DEF LifeSound
      <4>2. e \in entities <=> e \in inserted
        BY <2>2, <3>2, <4>1 DEF LifeSound
      <4> QED
        BY <2>1, <3>2, <4>1, <4>2 DEF Life
    <3> QED
      BY <3>1, <3>2
  <2>6. life' = [e \in Ids |-> IF e \notin Owned!Lost THEN life[e]
                               ELSE IF life[e] = "alive" THEN "releasing" ELSE "gone"]
    BY <2>3, <2>5 DEF life
  <2>7. Owned!Collect
    BY <1>2, <2>1, <2>3, <2>4, <2>6 DEF Owned!Collect
  <2> QED
    BY <2>7 DEF Owned!Next
<1>10. ASSUME NEW e \in Ids, ReleaseValue(e) PROVE Goal
  <2>1. /\ e \in releasing /\ releasing' = releasing \ {e}
        /\ UNCHANGED <<slots, inserted, next_id, target>>
    BY <1>10 DEF ReleaseValue
  <2>2. ~(e >= next_id) /\ e \notin slots
    BY <1>0, <2>1 DEF LifeSound
  <2>3. life[e] = "releasing" /\ life' = [life EXCEPT ![e] = "gone"]
    BY <2>1, <2>2 DEF life, Life
  <2>4. Owned!Release(e)
    BY <1>2, <2>1, <2>3 DEF Owned!Release
  <2> QED
    BY <2>4 DEF Owned!Next
<1>11. CASE \/ \E h \in Handles : Lease(h) \/ EndLease(h)
            \/ PushDropped \/ UNCHANGED vars
            \/ \E h \in Handles, p \in Places : Move(h, p)
  BY <1>1, <1>2, <1>11 DEF Lease, EndLease, PushDropped, Move, vars
<1> QED
  BY <1>3, <1>4, <1>6, <1>7, <1>8, <1>9, <1>10, <1>11 DEF Next, MainStep, ThreadStep

\* Reference counts changed under a read lock, a queue filled in two steps and
\* a flush that drains it are plain ownership: an entity is kept by its handles,
\* on whichever threads, is lost with the last one, and is then released once.
THEOREM CountingImplementsOwnership == Spec => OwnershipSpec
<1>1. Init => LifeSound /\ Owned!Init
  <2> SUFFICES ASSUME Init
               PROVE  LifeSound /\ Owned!Init
    OBVIOUS
  <2>1. LifeSound
    BY DEF Init, LifeSound, Leased
  <2>2. \A e \in Ids : e >= next_id
    BY IdsAreNaturals DEF Init
  <2>3. life = [e \in Ids |-> "unborn"]
    BY <2>2 DEF life, Life
  <2>4. \A e \in Ids : HandlesTo(e) = {}
    BY IdsAreNaturals DEF Init, HandlesTo
  <2> QED
    BY <2>1, <2>3, <2>4 DEF Owned!Init, holders
<1>2. IInv /\ LifeSound /\ [Next]_vars => LifeSound' /\ [Owned!Next]_Owned!vars
  BY LifeSoundStep, OwnershipStep
<1> QED
  BY <1>1, <1>2, Invariant, PTL DEF Spec, OwnershipSpec, Owned!Spec

=============================================================================
