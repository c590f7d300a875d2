------------------------------ MODULE MCNotebook ------------------------------
(***************************************************************************)
(* A notebook of at most three cells and five executions, each cell with   *)
(* one of five texts.                                                      *)
(***************************************************************************)
EXTENDS Notebook

CONSTANTS a, b

Def(d) == [NoText EXCEPT !.defined = {d}, !.exports = {d}, !.declared = {d}]

Assign(d, u) ==
  [NoText EXCEPT !.defined = {d}, !.used = {u}, !.declared = {d},
                 !.assigns = {[target |-> d, names |-> {u}]}]

AssignVector(d, u) == [NoText EXCEPT !.defined = {d}, !.used = {u}, !.declared = {d}]

Call(u) == [NoText EXCEPT !.used = {u}, !.looked = {u}]

\* `def a`, `b = a(...)`, `a = b`, `b = [a]` and `b(...)`.
MCUnits == {Def(a), Assign(b, a), Assign(a, b), AssignVector(b, a), Call(b)}
==============================================================================
