------------------------ MODULE MCProcessSupervisor ------------------------
(* ProcessSupervisor on small instances.                                   *)
EXTENDS ProcessSupervisor, TLC

CONSTANTS p1, p2

OneOfEach == p1 :> "on_failure" @@ p2 :> "always"
ThreeAndTwo == p1 :> 3 @@ p2 :> 2
Two == p1 :> 2
AlwaysOne == p1 :> "always"
=============================================================================
