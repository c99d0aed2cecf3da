----------------------------- MODULE MCEffectLane -----------------------------
(* Instances of EffectLane for TLC.                                        *)
EXTENDS EffectLane, TLC

Symmetric == Permutations(Token) \cup Permutations(Worker)
===============================================================================
