---------------------------- MODULE MCActorSystem ----------------------------
(* ActorSystem for TLC: a caller of deliver, which retries, and its two      *)
(* envelopes to the only actor.                                              *)
EXTENDS ActorSystem

MCOutside == {<<1, External, 0>>, <<1, External, 1>>}
=============================================================================
