------------------------------ MODULE MCRollout ------------------------------
(* The rollout with the two timers it pauses. *)
EXTENDS Rollout, TLC

Symmetry == Permutations(Timer)
=============================================================================
