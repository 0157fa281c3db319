--------------------------- MODULE MCJobScheduler ---------------------------
(* JobScheduler on small instances.                                        *)
EXTENDS JobScheduler

OnePriority == [j \in Jobs |-> 1]
AnyDependencies == SUBSET Jobs
NoDependencies == {{}}
=============================================================================
