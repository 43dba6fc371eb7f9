--------------------------- MODULE MCAgentUpdate ---------------------------
(***************************************************************************)
(* AgentUpdate with three packages, so that a retained package is replaced *)
(* by another one.                                                         *)
(***************************************************************************)
EXTENDS AgentUpdate, TLC

Symmetry == Permutations(Version)
=============================================================================
