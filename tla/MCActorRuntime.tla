-------------------------- MODULE MCActorRuntime --------------------------
(* Instances of ActorRuntime for TLC.                                      *)
EXTENDS ActorRuntime, TLC

Symmetric == Permutations(Cmd)
=============================================================================
