------------------------------ MODULE MCInstall ------------------------------
(* The two programs of two releases. *)
EXTENDS Install
=============================================================================
