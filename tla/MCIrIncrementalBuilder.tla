------------------------ MODULE MCIrIncrementalBuilder ------------------------
(***************************************************************************)
(* IrIncrementalBuilder with three fragments that define and use any of    *)
(* two symbols.  There is no bound on the number of rebuilds: the state    *)
(* space is finite because fragment ids are reused.                        *)
(***************************************************************************)
EXTENDS IrIncrementalBuilder, TLC

CONSTANTS f1, f2, f3, none, x, y
Sym == Permutations({f1, f2, f3}) \cup Permutations({x, y})
==============================================================================
