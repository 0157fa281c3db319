----------------------------- MODULE Ownership -----------------------------
(***************************************************************************)
(* What the ownership of entities promises, without saying how handles are *)
(* counted: an entity is reserved, is built, and stays as long as somebody *)
(* holds it.  Handles are made only from handles, so an entity nobody      *)
(* holds is lost; the next collection takes everything lost, and releases  *)
(* what was built, once.                                                   *)
(*                                                                         *)
(* EntityMap implements it (crates/kael/src/app/entity_map.rs) with counts *)
(* that threads change under a read lock, and a queue; see EntityMap!Owned.*)
(***************************************************************************)
CONSTANTS
    Ids,              \* the entities
    Handles           \* the strong handles

VARIABLES
    life,             \* entity -> what has become of it
    holders           \* entity -> the handles to it

vars == <<life, holders>>

Lives == {"unborn", "reserved", "alive", "releasing", "gone"}

Init ==
    /\ life = [e \in Ids |-> "unborn"]
    /\ holders = [e \in Ids |-> {}]

Unused(h) == \A e \in Ids : h \notin holders[e]
Lost == {e \in Ids : life[e] \in {"reserved", "alive"} /\ holders[e] = {}}

Reserve(e, h) ==
    /\ life[e] = "unborn" /\ Unused(h)
    /\ life' = [life EXCEPT ![e] = "reserved"]
    /\ holders' = [holders EXCEPT ![e] = {h}]

\* Whoever holds the reservation builds the value.
Build(e) ==
    /\ life[e] = "reserved" /\ holders[e] # {}
    /\ life' = [life EXCEPT ![e] = "alive"]
    /\ UNCHANGED holders

\* A handle is made from another, or by a weak one while there is another.
Acquire(e, h) ==
    /\ holders[e] # {} /\ Unused(h)
    /\ holders' = [holders EXCEPT ![e] = @ \cup {h}]
    /\ UNCHANGED life

Discard(e, h) ==
    /\ h \in holders[e]
    /\ holders' = [holders EXCEPT ![e] = @ \ {h}]
    /\ UNCHANGED life

\* Everything lost is collected; what was never built has nothing to release.
Collect ==
    /\ Lost # {}
    /\ life' = [e \in Ids |-> IF e \notin Lost THEN life[e]
                              ELSE IF life[e] = "alive" THEN "releasing" ELSE "gone"]
    /\ UNCHANGED holders

Release(e) ==
    /\ life[e] = "releasing"
    /\ life' = [life EXCEPT ![e] = "gone"]
    /\ UNCHANGED holders

Next ==
    \/ \E e \in Ids, h \in Handles : Reserve(e, h) \/ Acquire(e, h) \/ Discard(e, h)
    \/ \E e \in Ids : Build(e) \/ Release(e)
    \/ Collect

Spec == Init /\ [][Next]_vars
=============================================================================
