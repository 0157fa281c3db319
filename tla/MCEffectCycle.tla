--------------------------- MODULE MCEffectCycle ---------------------------
(* EffectCycle on small instances.                                         *)
EXTENDS EffectCycle, TLC
=============================================================================
