----------------------------- MODULE TypeContext -----------------------------
(***************************************************************************)
(* The types of the checker, their unification, and the namespaces.        *)
(*                                                                         *)
(* A type is a record with its Kind and the types it is made of.  A type   *)
(* variable is an object that many types point to: a cell, with an id and, *)
(* once bound, an instance.  Two cells may have one id, since              *)
(* get_next_var_id() does not count on.  The state C of a checker holds    *)
(* the cells, the next id, the namespaces, and                             *)
(*   err     whether an error was reported,                                *)
(*   ret     the return type of the function being checked,                *)
(*   vector  the type that the name "vector" stands for, once used,        *)
(*   flow    "on", or "threw" on the way to the next handler, or "crashed" *)
(*           when a null pointer was followed or a recursion has no end.   *)
(* Nothing but a handler goes on unless flow is "on".                      *)
(***************************************************************************)
EXTENDS Integers, SequencesExt

PrimType(kind) == [kind |-> kind, parts |-> << >>]
NoType == PrimType("NULL")
IntType == PrimType("INT")
FloatType == PrimType("FLOAT")
BoolType == PrimType("BOOL")
StringType == PrimType("STRING")
VoidType == PrimType("VOID")
VarType(cell) == [kind |-> "TYPE_VAR", parts |-> << >>, cell |-> cell]
ArrayType(t, size) == [kind |-> "ARRAY", parts |-> <<t>>, size |-> size]
TupleType(ts) == [kind |-> "TUPLE", parts |-> ts]
MapType(key, value) == [kind |-> "MAP", parts |-> <<key, value>>]
DefType(params, ret) == [kind |-> "DEF", parts |-> Append(params, ret)]
PolyType(bound, t) == [kind |-> "POLY_TYPE", parts |-> <<t>>, bound |-> bound]

OfType(t, C) == [t |-> t, C |-> C]

\* What follows a step, given what the step returned.
Then(r, Rest(_)) == Rest(r)

Going(C) == C.flow = "on"
Reported(C) == IF Going(C) THEN [C EXCEPT !.err = TRUE] ELSE C
Thrown(C) == IF Going(C) THEN [C EXCEPT !.flow = "threw"] ELSE C
Crashed(C) == [C EXCEPT !.flow = "crashed"]
Caught(C) == [C EXCEPT !.flow = IF @ = "threw" THEN "on" ELSE @]

(***************************************************************************)
(* Type variables.                                                         *)
(***************************************************************************)
NewCell(id, C) ==
    [C EXCEPT !.cells = Append(@, [id |-> id, instance |-> NoType])]

\* A variable with the next id, which stays the next.
TempVar(C) == OfType(VarType(Len(C.cells) + 1), NewCell(C.next, C))

NewTypeVar(C) ==
    LET v == TempVar(C) IN OfType(v.t, [v.C EXCEPT !.next = @ + 1])

\* The methods push and pop of a vector have variables of their own.
NewVector(C) ==
    OfType([kind |-> "VECTOR", parts |-> << >>, push |-> Len(C.cells) + 1,
           pop |-> Len(C.cells) + 2], NewCell(-2, NewCell(-1, C)))

InstanceOf(t, C) ==
    IF t.kind = "TYPE_VAR" THEN C.cells[t.cell].instance ELSE NoType
IdOf(t, C) == C.cells[t.cell].id

RECURSIVE Resolved(_, _)
Resolved(t, C) ==
    IF InstanceOf(t, C) = NoType THEN t ELSE Resolved(InstanceOf(t, C), C)

RECURSIVE CellsOf(_)
CellsOf(t) ==
    (IF t.kind = "TYPE_VAR" THEN {t.cell} ELSE {})
        \union UNION {CellsOf(t.parts[k]) : k \in DOMAIN t.parts}

RECURSIVE CellsFrom(_, _)
CellsFrom(cells, C) ==
    LET more == cells \union UNION {CellsOf(C.cells[c].instance) : c \in cells}
    IN  IF more = cells THEN cells ELSE CellsFrom(more, C)

\* A type that contains itself: what walks through it does not come back.
Cyclic(t, C) ==
    \E c \in CellsFrom(CellsOf(t), C) :
        c \in CellsFrom(CellsOf(C.cells[c].instance), C)

\* collect_free_vars()
RECURSIVE FreeIds(_, _)
FreeIds(t, C) ==
    LET r == Resolved(t, C)
    IN  IF r.kind = "TYPE_VAR" THEN {IdOf(r, C)}
        ELSE UNION {FreeIds(r.parts[k], C) : k \in DOMAIN r.parts}
                 \ (IF r.kind = "POLY_TYPE" THEN r.bound ELSE {})

(***************************************************************************)
(* equals().  Of two types in shared pointers only the kinds are compared, *)
(* which only type variables and maps do otherwise; a map, and what is in  *)
(* it, is compared through and through.                                    *)
(***************************************************************************)
RECURSIVE Equals(_, _, _, _)
Equals(a, b, deep, C) ==
    LET instance(t) == InstanceOf(t, C)
        bound(t) == instance(t) # NoType
        isVar(t) == t.kind = "TYPE_VAR"
    IN  IF isVar(a) /\ isVar(b)
        THEN IF bound(a) /\ bound(b)
             THEN Equals(instance(a), instance(b), deep, C)
             ELSE IdOf(a, C) = IdOf(b, C)
        ELSE IF isVar(a) THEN bound(a) /\ Equals(instance(a), b, deep, C)
        ELSE /\ a.kind = b.kind
             /\ (deep \/ a.kind = "MAP") =>
                   /\ a.kind = "ARRAY" => a.size = b.size
                   /\ Len(a.parts) = Len(b.parts)
                   /\ \A k \in DOMAIN a.parts :
                         Equals(a.parts[k], b.parts[k], TRUE, C)

\* equals() of two types in shared pointers, which does not come back from two
\* maps that contain themselves.
Compared(a, b, C) ==
    IF {a.kind, b.kind} = {"MAP"} /\ \A t \in {a, b} : Cyclic(t, C)
    THEN [ok |-> FALSE, C |-> Crashed(C)]
    ELSE [ok |-> Equals(a, b, FALSE, C), C |-> C]

(***************************************************************************)
(* Unification.  Only the ids of variables are compared, and a map is not  *)
(* looked into for a variable.  Two types of one kind other than maps are  *)
(* equal, so the code that would unify their parts is never reached.  The  *)
(* message of a failure spells out both types.                             *)
(***************************************************************************)
RECURSIVE OccursIn(_, _, _)

\* Mutant: maps are looked into.
OccursInMaps(v, t, C) ==
    LET r == Resolved(t, C)
    IN  IF r.kind = "TYPE_VAR" THEN IdOf(r, C) = IdOf(v, C)
        ELSE \E k \in DOMAIN r.parts : OccursIn(v, r.parts[k], C)

OccursIn(v, t, C) ==
    LET r == Resolved(t, C)
    IN  IF r.kind = "TYPE_VAR" THEN IdOf(r, C) = IdOf(v, C)
        ELSE /\ r.kind \in {"ARRAY", "TUPLE", "DEF"}
             /\ \E k \in DOMAIN r.parts : OccursIn(v, r.parts[k], C)

\* Two types that are not equal: a variable, v, becomes the other one.
UnifiedDistinct(v, t, C) ==
    LET no == [ok |-> FALSE, C |-> C]
    IN  CASE v.kind = "TYPE_VAR" ->
                IF t.kind # "TYPE_VAR" /\ OccursIn(v, t, C) THEN no
                ELSE [ok |-> TRUE, C |-> [C EXCEPT !.cells[v.cell].instance = t]]
          [] {v.kind, t.kind} = {"INT", "FLOAT"} -> [ok |-> TRUE, C |-> C]
          [] OTHER ->
                IF \E u \in {v, t} : Cyclic(u, C)
                THEN [ok |-> FALSE, C |-> Crashed(C)] ELSE no

UnifiedResolved(a, b, C) ==
    Then(Compared(a, b, C), LAMBDA same :
        IF same.ok \/ ~Going(same.C) THEN same
        ELSE LET swapped == a.kind # "TYPE_VAR" /\ b.kind = "TYPE_VAR"
             IN  UnifiedDistinct(IF swapped THEN b ELSE a,
                                 IF swapped THEN a ELSE b, C))

Unified(t1, t2, C) ==
    IF ~Going(C) THEN [ok |-> FALSE, C |-> C]
    ELSE UnifiedResolved(Resolved(t1, C), Resolved(t2, C), C)

(***************************************************************************)
(* Namespaces, the innermost last.  Only a name that is a constant of that *)
(* namespace cannot be put into it again.                                  *)
(***************************************************************************)
EmptyNamespace == [names |-> [n \in {} |-> NoType], consts |-> {}]

PushScope(C) ==
    IF Going(C) THEN [C EXCEPT !.scopes = Append(@, EmptyNamespace)] ELSE C
PopScope(C) == IF Going(C) THEN [C EXCEPT !.scopes = Front(@)] ELSE C

\* Mutant: every name that is put is a constant.
PutKeyLocked(name, t, islocked, C) ==
    LET n == Len(C.scopes)
    IN  IF ~Going(C) THEN OfType(t, C)
        ELSE IF name \in C.scopes[n].consts THEN OfType(t, Thrown(C))
        ELSE OfType(t, [C EXCEPT !.scopes[n].names = (name :> t) @@ @,
                                !.scopes[n].consts = @ \union {name}])

PutKey(name, t, islocked, C) ==
    LET n == Len(C.scopes)
    IN  IF ~Going(C) THEN OfType(t, C)
        ELSE IF name \in C.scopes[n].consts THEN OfType(t, Thrown(C))
        ELSE OfType(t, [C EXCEPT !.scopes[n].names = (name :> t) @@ @,
                                !.scopes[n].consts =
                                    IF islocked THEN @ \union {name} ELSE @])

Visible(C) == UNION {DOMAIN C.scopes[k].names : k \in DOMAIN C.scopes}

\* get_key(), for a visible name
TypeOfName(name, C) ==
    LET holders == {k \in DOMAIN C.scopes : name \in DOMAIN C.scopes[k].names}
    IN  C.scopes[Max(holders)].names[name]

(***************************************************************************)
(* generalize() against the namespaces, and instantiate().  A variable     *)
(* that is not quantified becomes another one with its id.  (In which      *)
(* order the quantified ones are renamed is left to a hash table; here it  *)
(* is the order of their ids.)                                             *)
(***************************************************************************)
NamedTypes(C) ==
    UNION {Range(C.scopes[k].names) : k \in DOMAIN C.scopes}

Generalized(t, C) ==
    IF ~Going(C) THEN OfType(t, C)
    ELSE IF \E u \in NamedTypes(C) \union {t} : Cyclic(u, C)
    THEN OfType(t, Crashed(C))
    ELSE Then(FreeIds(t, C) \ UNION {FreeIds(u, C) : u \in NamedTypes(C)},
              LAMBDA free :
                  OfType(Then(Resolved(t, C), LAMBDA r :
                             IF free = {} THEN r ELSE PolyType(free, r)), C))

RECURSIVE Substituted(_, _, _)
Substituted(t, subst, C) ==
    LET next(made, part) == LET s == Substituted(part, subst, made.C)
                            IN  [ts |-> Append(made.ts, s.t), C |-> s.C]
        parts(r) == FoldLeft(next, [ts |-> << >>, C |-> C], r.parts)
        renamed(id) ==
            IF id \in DOMAIN subst THEN OfType(subst[id], C)
            ELSE OfType(VarType(Len(C.cells) + 1), NewCell(id, C))
    IN  Then(Resolved(t, C), LAMBDA r :
            CASE r.kind = "TYPE_VAR" -> renamed(IdOf(r, C))
              [] r.kind = "VECTOR" -> NewVector(C)
              [] OTHER -> Then(parts(r), LAMBDA made :
                             OfType([r EXCEPT !.parts = made.ts], made.C)))

Instantiated(poly, C) ==
    LET ids == SetToSortSeq(poly.bound, <)
        renamed == [id \in poly.bound |->
                      CHOOSE k \in DOMAIN ids : ids[k] = id]
        fresh == FoldLeft(LAMBDA D, k : NewCell(C.next + k - 1, D), C,
                          [k \in DOMAIN ids |-> k])
        vars == [id \in poly.bound |-> VarType(Len(C.cells) + renamed[id])]
    IN  IF Cyclic(poly, C) THEN OfType(poly, Crashed(C))
        ELSE Substituted(poly.parts[1], vars, fresh)
==============================================================================
