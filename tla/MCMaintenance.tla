---------------------------- MODULE MCMaintenance ----------------------------
(***************************************************************************)
(* Maintenance with more releases than are kept.                           *)
(***************************************************************************)
EXTENDS Maintenance, TLC

Symmetry == Permutations(Release) \union Permutations(Version)
=============================================================================
