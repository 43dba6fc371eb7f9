---------------------------- MODULE MCDiskEvents ----------------------------
(***************************************************************************)
(* DiskEvents for one root with two directories: an empty and a full scan, *)
(* and a partial one.                                                      *)
(***************************************************************************)
EXTENDS DiskEvents

MCContent ==
  {[complete |-> TRUE, depth |-> 1, bytes |-> <<0, 0>>],
   [complete |-> TRUE, depth |-> 1, bytes |-> <<2, 2>>],
   [complete |-> FALSE, depth |-> 1, bytes |-> <<1>>]}
=============================================================================
