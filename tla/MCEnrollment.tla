---------------------------- MODULE MCEnrollment ----------------------------
(***************************************************************************)
(* Enrollment with two clients, one of which may be left over.  Codes and  *)
(* clients are only compared for equality.                                 *)
(***************************************************************************)
EXTENDS Enrollment, TLC

Symmetry == Permutations(Code) \union Permutations(Client)
=============================================================================
