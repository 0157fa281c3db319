----------------------------- MODULE EntityMap -----------------------------
(***************************************************************************)
(* Ownership of entities: crates/kael/src/app/entity_map.rs.               *)
(*                                                                         *)
(* The main thread owns the values (`entities'), but the strong handles,   *)
(* AnyEntity, are Send: tasks on background threads clone, upgrade and     *)
(* drop them under the RwLock of the reference counts.  A drop that takes  *)
(* the count to zero does so under an upgradable read lock and then waits  *)
(* for the write lock to queue the id in dropped_entity_ids; readers may   *)
(* run between the two.  The main thread drains the queue in take_dropped  *)
(* and releases the values, whose own handles are dropped in turn.         *)
(*                                                                         *)
(* A handle is one of the constants Handles, with the entity it points to  *)
(* and the place it is kept in: a thread, or the value of an entity.  The  *)
(* ids are never reused: SlotMap keys carry a version.                     *)
(***************************************************************************)
EXTENDS Naturals, Sequences, FiniteSets

CONSTANTS
    Handles,          \* bound: handles that exist at a time
    Threads,          \* threads that hold handles
    Main,             \* the thread of the App
    MaxEntities       \* bound: entities ever reserved

ASSUME EntityMapAssumption ==
    /\ IsFiniteSet(Handles)
    /\ Main \in Threads
    /\ MaxEntities \in Nat
    /\ Threads \cap (0 .. MaxEntities - 1) = {}

VARIABLES
    slots,               \* ids with an EntitySlot
    ref_count,           \* id -> its atomic count (0 where there is no slot)
    dropped_entity_ids,  \* ids whose count reached zero, in that order
    dropping,            \* <<thread, id>> between fetch_sub and the push
    entities,            \* ids whose value is in the map
    leases,              \* the handles lease() was called with, values on the stack
    releasing,           \* ids whose value take_dropped returned
    target,              \* handle -> the id it points to
    place,               \* handle -> the thread or value that keeps it
    reservations,        \* handles that are the Slot of reserve()
    next_id,
    inserted             \* history: ids whose value was built

vars == <<slots, ref_count, dropped_entity_ids, dropping, entities, leases,
          releasing, target, place, reservations, next_id, inserted>>

Ids == 0 .. MaxEntities - 1
NoEntity == MaxEntities            \* the target of a handle that does not exist
Places == Threads \cup Ids

TypeOK ==
    /\ slots \in SUBSET Ids
    /\ ref_count \in [Ids -> Nat]
    /\ dropped_entity_ids \in Seq(Ids)
    /\ dropping \in SUBSET (Threads \X Ids)
    /\ entities \in SUBSET Ids
    /\ leases \in SUBSET Handles
    /\ releasing \in SUBSET Ids
    /\ target \in [Handles -> Ids \cup {NoEntity}]
    /\ place \in [Handles -> Places]
    /\ reservations \in SUBSET Handles
    /\ next_id \in 0 .. MaxEntities
    /\ inserted \in SUBSET Ids

Init ==
    /\ slots = {}
    /\ ref_count = [e \in Ids |-> 0]
    /\ dropped_entity_ids = <<>>
    /\ dropping = {}
    /\ entities = {}
    /\ leases = {}
    /\ releasing = {}
    /\ target = [h \in Handles |-> NoEntity]
    /\ place = [h \in Handles |-> Main]
    /\ reservations = {}
    /\ next_id = 0
    /\ inserted = {}

-----------------------------------------------------------------------------
HandlesTo(e) == {h \in Handles : target[h] = e}
Free == HandlesTo(NoEntity)
Leased == {target[h] : h \in leases}
Queued == {dropped_entity_ids[n] : n \in 1 .. Len(dropped_entity_ids)}

\* The upgradable lock a drop holds until its push keeps other drops and
\* every writer out.  Thread t can go on if it is not the one in that drop.
CanWrite == dropping = {}
Idle(t) == \A d \in dropping : d[1] # t

\* Handle h is in the hands of code that runs on thread t: t keeps it, or,
\* on the main thread, the value of an entity that is leased does.
InHandsOf(t, h) ==
    /\ target[h] # NoEntity
    /\ place[h] = t \/ (t = Main /\ place[h] \in Leased)

\* A new handle h to e in the hands of t.
Create(h, e, t) ==
    /\ target' = [target EXCEPT ![h] = e]
    /\ place' = [place EXCEPT ![h] = t]

\* EntityMap::reserve, from the main thread, which has the App.
Reserve(h) ==
    /\ CanWrite
    /\ h \in Free
    /\ next_id < MaxEntities
    /\ slots' = slots \cup {next_id}
    /\ ref_count' = [ref_count EXCEPT ![next_id] = 1]
    /\ Create(h, next_id, Main)
    /\ reservations' = reservations \cup {h}
    /\ next_id' = next_id + 1
    /\ UNCHANGED <<dropped_entity_ids, dropping, entities, leases, releasing, inserted>>

\* EntityMap::insert turns the Slot into an ordinary handle.
InsertEntity(h) ==
    /\ Idle(Main)
    /\ h \in reservations
    /\ entities' = entities \cup {target[h]}
    /\ inserted' = inserted \cup {target[h]}
    /\ reservations' = reservations \ {h}
    /\ UNCHANGED <<slots, ref_count, dropped_entity_ids, dropping, leases,
                   releasing, target, place, next_id>>

\* EntityMap::lease; a value that is not in the map panics.
Lease(h) ==
    /\ Idle(Main)
    /\ InHandsOf(Main, h)
    /\ h \notin reservations
    /\ target[h] \in entities
    /\ entities' = entities \ {target[h]}
    /\ leases' = leases \cup {h}
    /\ UNCHANGED <<slots, ref_count, dropped_entity_ids, dropping, releasing,
                   target, place, reservations, next_id, inserted>>

\* EntityMap::end_lease; the leases taken through handles in this value are
\* over by then.
EndLease(h) ==
    /\ Idle(Main)
    /\ h \in leases
    /\ \A g \in leases : place[g] # target[h]
    /\ entities' = entities \cup {target[h]}
    /\ leases' = leases \ {h}
    /\ UNCHANGED <<slots, ref_count, dropped_entity_ids, dropping, releasing,
                   target, place, reservations, next_id, inserted>>

\* Mutant of Clone: the clone is not counted.
CloneUncounted(t, h, new) ==
    /\ Idle(t)
    /\ InHandsOf(t, h)
    /\ h \notin reservations
    /\ new \in Free
    /\ Create(new, target[h], t)
    /\ UNCHANGED <<slots, ref_count, dropped_entity_ids, dropping, entities, leases,
                   releasing, reservations, next_id, inserted>>

\* AnyEntity::clone on thread t, of a handle it has: under a read lock.
Clone(t, h, new) ==
    /\ Idle(t)
    /\ InHandsOf(t, h)
    /\ h \notin reservations
    /\ new \in Free
    /\ ref_count' = [ref_count EXCEPT ![target[h]] = @ + 1]
    /\ Create(new, target[h], t)
    /\ UNCHANGED <<slots, dropped_entity_ids, dropping, entities, leases,
                   releasing, reservations, next_id, inserted>>

\* Mutant of Upgrade: a count of zero is incremented too.
UpgradeUnchecked(t, e, new) ==
    /\ Idle(t)
    /\ e \in slots
    /\ new \in Free
    /\ ref_count' = [ref_count EXCEPT ![e] = @ + 1]
    /\ Create(new, e, t)
    /\ UNCHANGED <<slots, dropped_entity_ids, dropping, entities, leases,
                   releasing, reservations, next_id, inserted>>

\* AnyWeakEntity::upgrade on thread t, under a read lock: weak handles exist
\* everywhere and for ever.
Upgrade(t, e, new) ==
    /\ Idle(t)
    /\ e \in slots
    /\ ref_count[e] # 0
    /\ new \in Free
    /\ ref_count' = [ref_count EXCEPT ![e] = @ + 1]
    /\ Create(new, e, t)
    /\ UNCHANGED <<slots, dropped_entity_ids, dropping, entities, leases,
                   releasing, reservations, next_id, inserted>>

\* A handle is moved: to another thread, into the value of an entity the
\* main thread has leased, or out of one.
Move(h, p) ==
    /\ h \notin leases /\ h \notin reservations
    /\ \E t \in Threads :
        /\ Idle(t)
        /\ InHandsOf(t, h)
        /\ p \in Threads \/ (t = Main /\ p \in Leased)
    /\ p # place[h]
    /\ place' = [place EXCEPT ![h] = p]
    /\ UNCHANGED <<slots, ref_count, dropped_entity_ids, dropping, entities,
                   leases, releasing, target, reservations, next_id, inserted>>

\* Mutant of DropHandle: what fetch_sub returns is taken for the new count.
DropHandleMissesLast(t, h) ==
    /\ CanWrite
    /\ h \notin leases
    /\ InHandsOf(t, h) \/ (t = Main /\ target[h] # NoEntity /\ place[h] \in releasing)
    /\ ref_count' = [ref_count EXCEPT ![target[h]] = @ - 1]
    /\ dropping' = IF ref_count[target[h]] = 0 THEN {<<t, target[h]>>} ELSE {}
    /\ Create(h, NoEntity, Main)
    /\ reservations' = reservations \ {h}
    /\ UNCHANGED <<slots, dropped_entity_ids, entities, leases, releasing, next_id, inserted>>

\* AnyEntity::drop on thread t up to fetch_sub; the handle that takes the
\* count to zero still has its id to push.  A Slot dropped unused is a
\* handle dropped, and so is each handle of a value that is released.
DropHandle(t, h) ==
    /\ CanWrite
    /\ h \notin leases
    /\ InHandsOf(t, h) \/ (t = Main /\ target[h] # NoEntity /\ place[h] \in releasing)
    /\ ref_count' = [ref_count EXCEPT ![target[h]] = @ - 1]
    /\ dropping' = IF ref_count[target[h]] = 1 THEN {<<t, target[h]>>} ELSE {}
    /\ Create(h, NoEntity, Main)
    /\ reservations' = reservations \ {h}
    /\ UNCHANGED <<slots, dropped_entity_ids, entities, leases, releasing, next_id, inserted>>

\* AnyEntity::drop from the upgrade to the write lock on.
PushDropped ==
    /\ \E d \in dropping :
        dropped_entity_ids' = Append(dropped_entity_ids, d[2])
    /\ dropping' = {}
    /\ UNCHANGED <<slots, ref_count, entities, leases, releasing, target, place,
                   reservations, next_id, inserted>>

\* Mutant of TakeDropped: a slot that was never filled is released too.
TakeDroppedReleasesUnbuilt ==
    /\ CanWrite
    /\ dropped_entity_ids # <<>>
    /\ slots' = slots \ Queued
    /\ entities' = entities \ Queued
    /\ releasing' = releasing \cup Queued
    /\ dropped_entity_ids' = <<>>
    /\ UNCHANGED <<ref_count, dropping, leases, target, place, reservations, next_id, inserted>>

\* EntityMap::take_dropped, from release_dropped_entities: mostly when no
\* update is in progress, but the flush of a theme file may run inside one.
\* A slot that was reserved and never filled has no value to release.
TakeDropped ==
    /\ CanWrite
    /\ dropped_entity_ids # <<>>
    /\ slots' = slots \ Queued
    /\ entities' = entities \ Queued
    /\ releasing' = releasing \cup (Queued \cap entities)
    /\ dropped_entity_ids' = <<>>
    /\ UNCHANGED <<ref_count, dropping, leases, target, place, reservations, next_id, inserted>>

\* The release listeners have run and the value is gone, with its handles.
ReleaseValue(e) ==
    /\ Idle(Main)
    /\ e \in releasing
    /\ \A h \in Handles : place[h] # e
    /\ releasing' = releasing \ {e}
    /\ UNCHANGED <<slots, ref_count, dropped_entity_ids, dropping, entities,
                   leases, target, place, reservations, next_id, inserted>>

MainStep ==
    \/ \E h \in Handles : Reserve(h) \/ InsertEntity(h) \/ Lease(h) \/ EndLease(h)
    \/ TakeDropped
    \/ \E e \in Ids : ReleaseValue(e)

ThreadStep(t) ==
    \/ \E h, new \in Handles : Clone(t, h, new)
    \/ \E e \in Ids, new \in Handles : Upgrade(t, e, new)
    \/ \E h \in Handles : DropHandle(t, h)

Next ==
    \/ MainStep
    \/ \E t \in Threads : ThreadStep(t)
    \/ \E h \in Handles, p \in Places : Move(h, p)
    \/ PushDropped

Spec == Init /\ [][Next]_vars

\* Every drop reaches its push, every update ends and is followed by a flush
\* (App::finish_update), and a flush drops the values it took out.
Fairness ==
    /\ WF_vars(PushDropped)
    /\ SF_vars(TakeDropped)
    /\ \A e \in Ids : SF_vars(ReleaseValue(e))
    /\ \A h \in Handles : SF_vars(place[h] \in releasing /\ DropHandle(Main, h))

FairSpec == Spec /\ Fairness

-----------------------------------------------------------------------------
\* The count of a slot is the number of handles to its entity, wherever they
\* are: neither clone, upgrade and drop on different threads nor the release
\* of the values that keep handles ever miscount.
RefCountExact ==
    \A e \in slots : ref_count[e] = Cardinality(HandlesTo(e))

\* The queue holds exactly the ids whose count is zero, but for the drop
\* that is about to push, each once: take_dropped finds a slot for each
\* (entity_map.rs:191 unwraps it) and the count it asserts to be zero (192).
QueueIsTheUnreferenced ==
    /\ \A e \in slots : ref_count[e] = 0 <=> e \in Queued \cup {d[2] : d \in dropping}
    /\ Queued \subseteq slots
    /\ Cardinality(Queued) = Len(dropped_entity_ids)
    /\ \A d \in dropping : d[2] \notin Queued

\* Whoever has a strong handle has the entity: its slot is there, and its
\* value, once built, is in the map or on the stack of the update in
\* progress.  Neither clone nor drop can find the handle "over-released"
\* (entity_map.rs:309, 341), and no released value is read or leased.
HandleKeepsEntity ==
    \A h \in Handles : target[h] # NoEntity =>
        /\ target[h] \in slots
        /\ target[h] \in inserted => target[h] \in entities \cup Leased

\* A value in the map has a slot: take_dropped takes both, and no update
\* that was in progress puts the value of a released entity back.
ValuesHaveSlots == entities \cup Leased \subseteq slots

\* An entity whose last handle went is lost: no weak handle brings it back
\* between the drop and take_dropped ("weak handles are not upgraded before
\* take_dropped", the comment of a test at the end of entity_map.rs).
NoResurrection ==
    [][\A e \in slots : ref_count[e] = 0 => ref_count'[e] = 0]_vars

\* An entity nobody has a handle to is released, with all that its value
\* kept: its slot goes and its value is dropped.
UnreferencedReleased ==
    \A e \in Ids : (e \in slots /\ HandlesTo(e) = {}) ~> (e \notin slots \cup releasing)

-----------------------------------------------------------------------------
\* What became of an entity, and the handles to it.
Life(e) ==
    IF e >= next_id THEN "unborn"
    ELSE IF e \in slots THEN IF e \in inserted THEN "alive" ELSE "reserved"
    ELSE IF e \in releasing THEN "releasing" ELSE "gone"

life == [e \in Ids |-> Life(e)]
holders == [e \in Ids |-> HandlesTo(e)]

Owned == INSTANCE Ownership

\* Counts, locks and queue implement plain ownership: each entity is built,
\* lost and released once, handles are made only of what is held, on
\* whichever thread, and a flush collects everything that is lost and
\* releases exactly what was built of it.
OwnershipSpec == Owned!Spec

=============================================================================
