------------------------- MODULE SymbolInvalidation -------------------------
(***************************************************************************)
(* What SessionManager promises about the staleness of symbols.  A symbol  *)
(* may depend on a name that nothing has defined yet, so Invalidation is   *)
(* refined by the set of known names: defining a known name again stales   *)
(* what is downstream of it, the first definition of a name stales         *)
(* nothing.  Only a reset makes a name unknown again.                      *)
(***************************************************************************)
EXTENDS Invalidation

VARIABLE known

symbolVars == <<vars, known>>

SymbolInit == Init /\ known = {}

Introduce(n, D) ==
  /\ n \notin known
  /\ known' = known \cup {n}
  /\ edges' = [edges EXCEPT ![n] = D]
  /\ live' = live \cup {n}

Redefine(n, D) == n \in known /\ Define(n, D) /\ UNCHANGED known

WithdrawSymbols(S) == Withdraw(S) /\ UNCHANGED known

Forget == Clear /\ known' = {}

SymbolNext ==
  \/ \E n \in Node, D \in SUBSET Node : Introduce(n, D) \/ Redefine(n, D)
  \/ \E S \in SUBSET Node : WithdrawSymbols(S)
  \/ Forget

SymbolSpec == SymbolInit /\ [][SymbolNext]_symbolVars
==============================================================================
