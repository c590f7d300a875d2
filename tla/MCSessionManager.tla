--------------------------- MODULE MCSessionManager ---------------------------
(***************************************************************************)
(* SessionManager with three symbols, any of which a unit may use before   *)
(* anything has defined it.                                                *)
(***************************************************************************)
EXTENDS SessionManager, TLC

CONSTANTS a, b, c
Sym == Permutations({a, b, c})
==============================================================================
