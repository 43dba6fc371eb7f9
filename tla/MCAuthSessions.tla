--------------------------- MODULE MCAuthSessions ---------------------------
(***************************************************************************)
(* AuthSessions on a small instance.  Tokens and logins are only compared  *)
(* for equality.                                                           *)
(***************************************************************************)
EXTENDS AuthSessions, TLC

Symmetry == Permutations(Session) \union Permutations(Login)
=============================================================================
