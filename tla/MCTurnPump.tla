----------------------------- MODULE MCTurnPump -----------------------------
(* Instances of TurnPump for TLC: deliveries are interchangeable. *)
EXTENDS TurnPump, TLC

Symmetric == Permutations(Delivery)
=============================================================================
