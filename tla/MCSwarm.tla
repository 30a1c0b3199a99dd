------------------------------- MODULE MCSwarm -------------------------------
(* Swarm for TLC: a caller of deliver injects into actor 1, and uses actor  *)
(* 1's name and its second number for an envelope to actor 2.               *)
EXTENDS Swarm

MCOutside == {<<1, External, 0>>, <<2, 1, 1>>}
=============================================================================
