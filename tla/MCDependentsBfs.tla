--------------------------- MODULE MCDependentsBfs ---------------------------
(***************************************************************************)
(* DependentsBfs on every directed graph of three nodes (512 graphs), all  *)
(* iteration orders.                                                       *)
(***************************************************************************)
EXTENDS DependentsBfs

CONSTANTS n1, n2, n3
==============================================================================
