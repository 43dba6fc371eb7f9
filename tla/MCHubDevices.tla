---------------------------- MODULE MCHubDevices ----------------------------
(***************************************************************************)
(* HubDevices on small instances.  Devices, tokens and slots are only ever *)
(* compared for equality, so the safety run may take them as symmetric.    *)
(***************************************************************************)
EXTENDS HubDevices, TLC

Symmetry == Permutations(Device) \union Permutations(Token) \union Permutations(Slot)
=============================================================================
