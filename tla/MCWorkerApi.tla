---------------------------- MODULE MCWorkerApi ----------------------------
(* WorkerApi on small instances.                                           *)
EXTENDS WorkerApi

CONSTANTS t1, t2
=============================================================================
