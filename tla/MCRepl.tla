-------------------------------- MODULE MCRepl --------------------------------
(***************************************************************************)
(* Four lines drawn from six texts: a function, a variable computed from   *)
(* it, the function redefined with a call of that variable, two symbols    *)
(* defined at once, an imported name put into a vector, and a line that    *)
(* only uses a symbol.                                                     *)
(***************************************************************************)
EXTENDS Repl

CONSTANTS a, b, c

Def(d, U) ==
  [NoText EXCEPT !.defined = {d}, !.exports = {d}, !.declared = {d}, !.used = U, !.looked = U]

Assign(D, u) ==
  [NoText EXCEPT !.defined = D, !.used = {u}, !.declared = D,
                 !.assigns = {[target |-> d, names |-> {u}] : d \in D}]

ImportIntoVector(d, i) == [NoText EXCEPT !.defined = {d}, !.used = {i}, !.declared = {d, i}]

Call(u) == [NoText EXCEPT !.used = {u}, !.looked = {u}]

MCUnits == {Def(a, {}), Def(a, {b}), Assign({b}, a), Assign({b, c}, a),
            ImportIntoVector(b, c), Call(b)}
==============================================================================
