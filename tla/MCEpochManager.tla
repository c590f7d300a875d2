---------------------------- MODULE MCEpochManager ----------------------------
(***************************************************************************)
(* EpochManager with three cells, two symbols and five executions: a chain *)
(* of three dependent epochs, and two re-executions of cells of the chain. *)
(***************************************************************************)
EXTENDS EpochManager, TLC

CONSTANTS c1, c2, c3, x, y
Sym == Permutations({c1, c2, c3}) \cup Permutations({x, y})
==============================================================================
