-------------------------- MODULE MCSubscriberSet --------------------------
(* SubscriberSet on small instances.                                       *)
EXTENDS SubscriberSet
=============================================================================
