------------------------------ MODULE MCBackup ------------------------------
(***************************************************************************)
(* Backup on small instances.  Processes are only compared for equality.   *)
(***************************************************************************)
EXTENDS Backup, TLC

Symmetry == Permutations(Writer)
=============================================================================
