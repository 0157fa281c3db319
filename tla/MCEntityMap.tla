---------------------------- MODULE MCEntityMap ----------------------------
(* EntityMap on small instances.                                           *)
EXTENDS EntityMap
=============================================================================
