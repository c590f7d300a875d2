------------------------------- MODULE Codegen -------------------------------
(***************************************************************************)
(* The code generator: the codegen() method of each node, as an operator   *)
(* from the state of the IRGenerationContext to the state it leaves.       *)
(*                                                                         *)
(* The module being built is a sequence of basic blocks, each with its     *)
(* function and its instructions; block 1 is the entry of main.start.  The *)
(* rest of the context is the insert block, the scopes of the symbol       *)
(* table, the stack of loops, the stack of values, the types of the        *)
(* allocas and the number of registers.  Numbers are the integers of a     *)
(* machine word; floats, strings and collections are left out, and so is   *)
(* debug information.  A runtime_error, and an instruction that LLVM       *)
(* refuses or that writes outside its alloca, set broken, and nothing is   *)
(* said of what follows.                                                   *)
(***************************************************************************)
EXTENDS Checker

CONSTANTS MinInt, MaxInt
ASSUME WordAssumption == MinInt \in Int /\ MaxInt \in Nat /\ MinInt < 0

Word == MinInt..MaxInt

Wrapped(n) ==
    MinInt + ((n - MinInt) % (MaxInt - MinInt + 1))

MainFunction == 1

\* llvm_type_from_string(), for the types that are modelled.
LlvmType(typ) ==
    CASE typ = "bool" -> "i1" [] typ = "void" -> "void" [] OTHER -> "i32"

\* resolve_type() and nv_type_to_llvm(): a variable that is not bound is an int,
\* and what the second does not list is void.  Other types are left out.
LlvmTypeOf(t, C) ==
    LET kind == Resolved(t, C).kind
    IN  CASE kind \in {"INT", "TYPE_VAR"} -> "i32"
          [] kind = "BOOL" -> "i1"
          [] kind \in {"VOID", "MAP"} -> "void"
          [] OTHER -> "other"

(***************************************************************************)
(* Values: none (a null pointer), a constant, a register, a function, and  *)
(* a struct of undefined contents.  The types are i1, i32 and Value, the   *)
(* boxed struct.                                                           *)
(***************************************************************************)
NoValue == [ty |-> "null"]
Const(n, ty) == [ty |-> ty, const |-> n]
Reg(r, ty) == [ty |-> ty, reg |-> r]
FunctionValue(name, parameters, ret) ==
    [ty |-> "function", name |-> name, parameters |-> parameters, ret |-> ret]
UndefValue == [ty |-> "Value", undef |-> TRUE]

False == Const(0, "i1")

Terminators == {"br", "cond", "ret", "exit"}

(***************************************************************************)
(* The context and the builder.                                            *)
(***************************************************************************)
EmptyScope == [name \in {} |-> NoValue]

EmptyContext(ch) ==
    [blocks |-> <<[fn |-> MainFunction, code |-> << >>]>>, at |-> 1,
     fn |-> MainFunction, functions |-> MainFunction, ret |-> "void",
     scopes |-> <<EmptyScope>>, loops |-> << >>, stack |-> << >>,
     slots |-> << >>, regs |-> 0, ch |-> ch, untyped |-> FALSE,
     broken |-> FALSE]

Broken(G) == [G EXCEPT !.broken = TRUE]

NewBlock(G, n) == Len(G.blocks) + n
WithBlocks(G, n) ==
    [G EXCEPT !.blocks = @ \o [k \in 1..n |-> [fn |-> G.fn, code |-> << >>]]]
BuildAt(G, b) == [G EXCEPT !.at = b]
Add(G, instr) == [G EXCEPT !.blocks[G.at].code = Append(@, instr)]

Terminated(G, b) ==
    LET code == G.blocks[b].code
    IN  code # << >> /\ Last(code).op \in Terminators

Br(G, b) == Add(G, [op |-> "br", to |-> b])
\* Mutant: a branch is added to a block that has ended.
BrAlways(G, b) == Br(G, b)

BrIfOpen(G, b) == IF Terminated(G, G.at) THEN G ELSE Br(G, b)
CondBr(G, v, thenBlock, elseBlock) ==
    Add(G, [op |-> "cond", value |-> v, then |-> thenBlock, else |-> elseBlock])

\* An instruction with a result, pushed on the stack of values.
Push(G, v) == [G EXCEPT !.stack = Append(@, v)]
Computed(G, instr, ty) ==
    LET r == G.regs + 1
    IN  Push([Add(G, [reg |-> r, ty |-> ty] @@ instr) EXCEPT !.regs = r],
             Reg(r, ty))

\* pop_value(): null when the stack is empty.
Top(G) == IF G.stack = << >> THEN NoValue ELSE Last(G.stack)
Popped(G) == IF G.stack = << >> THEN G ELSE [G EXCEPT !.stack = Front(@)]

(***************************************************************************)
(* The symbol table: nested scopes, the innermost last.                    *)
(***************************************************************************)
EnterScope(G) == [G EXCEPT !.scopes = Append(@, EmptyScope)]
ExitScope(G) == IF Len(G.scopes) > 1 THEN [G EXCEPT !.scopes = Front(@)] ELSE G

Define(G, name, info) ==
    [G EXCEPT !.scopes[Len(G.scopes)] = (name :> info) @@ @]

Lookup(G, name) ==
    LET visible == {k \in DOMAIN G.scopes : name \in DOMAIN G.scopes[k]}
    IN  IF visible = {} THEN NoValue ELSE G.scopes[Max(visible)][name]

\* create_and_register_variable(): always a new alloca, in the current scope.
NewVariable(G, name, ty) ==
    LET slot == Len(G.slots) + 1
    IN  Define([G EXCEPT !.slots = Append(@, ty)], name,
               [ty |-> ty, slot |-> slot])

\* promote_type(), for a boolean that is used as an integer.
Promoted(v, ty) == [v EXCEPT !.ty = IF @ = "i1" /\ ty = "i32" THEN ty ELSE @]

\* A store through promote_type(), which changes integers only: a Value does
\* not fit an integer's alloca, nor an integer a Value's.
Store(G, slot, v) ==
    IF (G.slots[slot] = "Value") # (v.ty = "Value") THEN Broken(G)
    ELSE Add(G, [op |-> "store", slot |-> slot, value |-> v])

LoadOf(G, info) == Computed(G, [op |-> "load", slot |-> info.slot], info.ty)

(***************************************************************************)
(* The stack of loops.                                                     *)
(***************************************************************************)
EnterLoop(G, continue, exit) ==
    [G EXCEPT !.loops = Append(@, [continue |-> continue, exit |-> exit])]
ExitLoop(G) == IF G.loops = << >> THEN G ELSE [G EXCEPT !.loops = Front(@)]

(***************************************************************************)
(* Expressions.                                                            *)
(***************************************************************************)
RECURSIVE Gen(_, _), GenAll(_, _)

\* Generate e and look at the value it leaves.
Value(e, G) ==
    Then(Gen(e, G), LAMBDA H : [v |-> Top(H), ctx |-> Popped(H)])

\* A condition is compared with zero unless it is an i1 already.
AsBit(G, v) ==
    CASE v.ty = "i1" -> [v |-> v, ctx |-> G]
      [] v.ty = "i32" ->
            LET instr == [op |-> "!=", a |-> v, b |-> Const(0, "i32")]
                H == Computed(G, instr, "i1")
            IN  [v |-> Top(H), ctx |-> Popped(H)]
      [] OTHER -> [v |-> False, ctx |-> Broken(G)]

GenNumber(e, G) ==
    IF \E n \in Word : ToString(n) = e.value
    THEN Push(G, Const(CHOOSE n \in Word : ToString(n) = e.value, "i32"))
    ELSE Broken(G)

GenIdentifier(e, G) ==
    LET info == Lookup(G, e.symbol)
    IN  IF info.ty \in {"null", "function"} THEN Push(G, info)
        ELSE LoadOf(G, info)

\* create_comparison() and create_binary_op(): a Value is unboxed first.  (The
\* order of booleans, and the operators on floats, are left out.)
Operation(G, op, a, b) ==
    LET bits(v) == IF v.ty = "Value" THEN "i32" ELSE v.ty
        instr == [op |-> op, a |-> a, b |-> b]
    IN  IF {a.ty, b.ty} \cap {"null"} # {} THEN Push(G, NoValue)
        ELSE IF bits(a) # bits(b) \/ (op \in Orderings /\ bits(a) = "i1")
        THEN Broken(G)
        ELSE IF op \in Comparisons THEN Computed(G, instr, "i1")
        ELSE IF op \in {"+", "-", "*"} THEN Computed(G, instr, bits(a))
        ELSE Push(G, NoValue)

\* Both operands of && and || are always evaluated.
GenBinary(e, G) ==
    LET l == Value(e.left, G)
        r == Value(e.right, l.ctx)
        lBit == AsBit(r.ctx, l.v)
        rBit == AsBit(lBit.ctx, r.v)
    IN  IF "null" \in {l.v.ty, r.v.ty} THEN Push(r.ctx, NoValue)
        ELSE IF e.op \in {"&&", "||"}
        THEN Computed(rBit.ctx, [op |-> e.op, a |-> lBit.v, b |-> rBit.v], "i1")
        ELSE Operation(r.ctx, e.op, l.v, r.v)

OperatorKinds == {"LogicalNotExpression", "UnaryMinusExpression"}

GenUnary(e, G) ==
    LET o == Value(e.operand, G)
        zero == Const(0, o.v.ty)
    IN  IF o.v.ty = "null" THEN Push(o.ctx, NoValue)
        ELSE IF e.kind = "LogicalNotExpression"
        THEN IF o.v.ty = "i1"
             THEN Computed(o.ctx, [op |-> "==", a |-> o.v, b |-> zero], "i1")
             ELSE Push(o.ctx, NoValue)
        ELSE IF o.v.ty = "Value" THEN Broken(o.ctx)
        ELSE Computed(o.ctx, [op |-> "-", a |-> zero, b |-> o.v], o.v.ty)

\* ++ and --, before or after a name.  The result is boxed.
GenStep(e, G) ==
    LET info == Lookup(G, e.operand.symbol)
        op == IF e.kind \in {"IncrementExpression", "PostIncrementExpression"}
              THEN "+" ELSE "-"
        loaded == LoadOf(G, info)
        old == Top(loaded)
        instr == [op |-> op, a |-> old, b |-> Const(1, info.ty)]
        moved == Computed(Popped(loaded), instr, info.ty)
        new == Top(moved)
        stored == Store(Popped(moved), info.slot, new)
        prefix == e.kind \in {"IncrementExpression", "DecrementExpression"}
    IN  IF e.operand.kind # "Identifier" \/ info.ty = "null"
        THEN Push(G, NoValue)
        ELSE IF info.ty \in {"Value", "function"} THEN Broken(G)
        ELSE Push(stored, [(IF prefix THEN new ELSE old) EXCEPT !.ty = "Value"])

\* Mutant: the two blocks are taken for each other.
IncomingSwapped(t, f) ==
    (f.ctx.at :> t.v) @@ (t.ctx.at :> f.v)

\* The values of a phi, by the block they come from.
Incoming(t, f) ==
    LET orZero(v) == IF v.ty = "null" THEN Const(0, "i32") ELSE v
    IN  (t.ctx.at :> orZero(t.v)) @@ (f.ctx.at :> orZero(f.v))

(* value if condition else other: a phi of two i32. *)
GenConditional(e, G) ==
    LET c == Value(e.condition, G)
        bit == IF c.v.ty = "null" THEN [v |-> False, ctx |-> c.ctx]
                                  ELSE AsBit(c.ctx, c.v)
        B(n) == NewBlock(bit.ctx, n)
        forked == CondBr(WithBlocks(bit.ctx, 3), bit.v, B(1), B(2))
        t == Value(e.true_expr, BuildAt(forked, B(1)))
        f == Value(e.false_expr, BuildAt(Br(t.ctx, B(3)), B(2)))
        joined == BuildAt(Br(f.ctx, B(3)), B(3))
    IN  IF {t.v.ty, f.v.ty} \cap {"Value", "function"} # {} THEN Broken(joined)
        ELSE Computed(joined,
                 [op |-> "phi", from |-> Incoming(t, f)], "i32")

(* A boxed argument for an i32 parameter is unboxed by its tag.  Any other *)
(* argument that is not of the parameter's type is refused by LLVM.        *)
Unboxed(a, parameter) ==
    LET B(n) == NewBlock(a.ctx, n)
        forked == CondBr(WithBlocks(a.ctx, 3), False, B(1), B(2))
        joined == Br(BuildAt(Br(BuildAt(forked, B(1)), B(3)), B(2)), B(3))
    IN  CASE a.v.ty = parameter -> a
          [] a.v.ty = "Value" /\ parameter = "i32" ->
                [v |-> [a.v EXCEPT !.ty = "i32"], ctx |-> BuildAt(joined, B(3))]
          [] OTHER -> [a EXCEPT !.ctx = Broken(@)]

RECURSIVE Arguments(_, _, _, _)
Arguments(args, parameters, G, values) ==
    IF << >> \in {args, parameters} THEN [values |-> values, ctx |-> G]
    ELSE LET a == Unboxed(Value(Head(args), G), Head(parameters))
         IN  Arguments(Tail(args), Tail(parameters), a.ctx, Append(values, a.v))

CallOf(name, values) == [op |-> "call", name |-> name, args |-> values]

\* The result of write() is its argument, boxed.
GenWrite(e, G) ==
    LET arg == IF e.args = << >> THEN [v |-> NoValue, ctx |-> G]
                                 ELSE Value(e.args[1], G)
    IN  IF arg.v.ty = "null"
        THEN Push(Add(arg.ctx, CallOf("write", << >>)), UndefValue)
        ELSE Computed(arg.ctx, CallOf("write", <<arg.v>>), "Value")

\* write() is built in; any other callee is a function that is in scope.  Only
\* an int result is boxed.
GenCall(e, G) ==
    LET callee == Value(e.caller, G)
        args == Arguments(e.args, callee.v.parameters, callee.ctx, << >>)
        call == CallOf(callee.v.name, args.values)
    IN  IF e.caller = Identifier("write") THEN GenWrite(e, G)
        ELSE IF callee.v.ty # "function" THEN Push(callee.ctx, NoValue)
        ELSE IF Len(args.values) < Len(callee.v.parameters)
        THEN Broken(args.ctx)
        ELSE CASE callee.v.ret = "void" -> Push(Add(args.ctx, call), NoValue)
               [] callee.v.ret = "i1" -> Push(Add(args.ctx, call), UndefValue)
               [] callee.v.ret = "i32" -> Computed(args.ctx, call, "Value")

CollectionKinds == {"VectorExpression", "ArrayExpression", "TupleExpression"}

RECURSIVE Elements(_, _, _, _)
Elements(exprs, missing, G, values) ==
    IF exprs = << >> THEN [values |-> values, ctx |-> G]
    ELSE LET a == Value(Head(exprs), G)
         IN  Elements(Tail(exprs), missing, a.ctx,
                 Append(values, IF a.v.ty = "null" THEN missing ELSE a.v))

\* A vector, an array or a tuple: a boxed collection of boxed elements.  The
\* type of an array is inferred again, to choose one of two runtime functions.
GenCollection(e, G) ==
    LET again == IF e.kind = "ArrayExpression" THEN Infer(e, G.ch).C ELSE G.ch
        missing == IF e.kind = "TupleExpression" THEN UndefValue
                                                 ELSE Const(0, "i32")
        collect(elements) ==
            Computed(elements.ctx, [op |-> "collect", of |-> e.kind,
                                    args |-> elements.values], "Value")
    IN  Then([G EXCEPT !.ch = again], LAMBDA H :
            IF ~Going(H.ch) THEN Broken(H)
            ELSE collect(Elements(e.elements, missing, H, << >>)))

CompoundOp == [o \in {"+=", "-=", "*="} |->
                 CASE o = "+=" -> "+" [] o = "-=" -> "-" [] o = "*=" -> "*"]

\* A name that no scope has becomes a variable of the current scope.
GenAssignment(e, G) ==
    LET rhs == Value(e.value, G)
        info == Lookup(rhs.ctx, e.target.symbol)
        stored == [rhs.v EXCEPT !.ty = IF info.ty = "Value" THEN "Value"
                                       ELSE Promoted(rhs.v, info.ty).ty]
        ty == IF rhs.v.ty = "Value" THEN "Value" ELSE "i32"
        fresh == NewVariable(rhs.ctx, e.target.symbol, ty)
        current == LoadOf(rhs.ctx, info)
        result == Operation(Popped(current), CompoundOp[e.op],
                            Top(current), Promoted(rhs.v, info.ty))
    IN  IF e.target.kind # "Identifier" \/ rhs.v.ty = "null"
        THEN Push(rhs.ctx, NoValue)
        ELSE IF info.ty = "null"
        THEN Push(Store(fresh, Len(fresh.slots), rhs.v),
                  [rhs.v EXCEPT !.ty = ty])
        ELSE IF {info.ty, rhs.v.ty} \cap {"function"} # {} THEN Broken(rhs.ctx)
        ELSE IF e.op = "=" THEN Push(Store(rhs.ctx, info.slot, stored), stored)
        ELSE LET v == Top(result)
             IN  Push(Store(Popped(result), info.slot, v), v)

(***************************************************************************)
(* Statements.                                                             *)
(***************************************************************************)
Scoped(stmts, G) == ExitScope(GenAll(stmts, EnterScope(G)))

\* A declaration asks the checker for its type, which for an explicit type
\* checks the declaration once more; by then only the global namespace is left.
\* A boxed value is kept boxed.  LLVM has no variable of the type void.
GenDeclaration(e, G) ==
    LET asked == IF e.typ = "automatic" THEN Infer(e.value, G.ch)
                 ELSE CheckNode(e, G.ch)
        declared(a) == IF a.C.flow = "threw" THEN "void"
                       ELSE LlvmTypeOf(a.t, a.C)
        stored(v, fresh) == Store(fresh, Len(fresh.slots), v)
        variable(init, ty) ==
            IF init.v.ty = "null" THEN init.ctx
            ELSE IF ty = "void" THEN [Broken(init.ctx) EXCEPT !.untyped = TRUE]
            ELSE IF ty = "other" THEN Broken(init.ctx)
            ELSE stored(init.v, NewVariable(init.ctx, e.target.symbol, ty))
    IN  Then(asked, LAMBDA a :
        Then([G EXCEPT !.ch = Caught(a.C)], LAMBDA H :
            IF ~Going(H.ch) THEN Broken(H)
            ELSE Then(Value(Converted(e).value, H), LAMBDA init :
                     variable(init, IF init.v.ty = "Value" THEN "Value"
                                    ELSE declared(a)))))

\* The condition of if, and of each elif; none at all is a runtime_error.
IfCondition(e, G) ==
    LET c == Value(e, G)
    IN  IF c.v.ty = "null" THEN [v |-> False, ctx |-> Broken(c.ctx)]
        ELSE AsBit(c.ctx, c.v)

\* if_then, if_else and if_merge, and the statements of the first.
Fork(e, G, merge) ==
    LET c == IfCondition(e.condition, G)
        B(n) == NewBlock(c.ctx, n)
        forked == CondBr(WithBlocks(c.ctx, 3), c.v, B(1), B(2))
        to == IF merge = 0 THEN B(3) ELSE merge
    IN  [ctx |-> BrIfOpen(Scoped(e.consequent, BuildAt(forked, B(1))), to),
         else |-> B(2), merge |-> to]

\* emit_else_chain(): an if statement that the alternate begins with counts as
\* an elif, and what its own alternate holds is not generated.
RECURSIVE ElseChain(_, _, _)
ElseChain(alternate, G, merge) ==
    IF alternate = << >> THEN BrIfOpen(G, merge)
    ELSE IF Head(alternate).kind = "IfStatement"
    THEN LET fork == Fork(Head(alternate), G, merge)
         IN  ElseChain(Tail(alternate), BuildAt(fork.ctx, fork.else), merge)
    ELSE BrIfOpen(Scoped(alternate, G), merge)

GenIf(e, G) ==
    LET fork == Fork(e, G, 0)
        other == BuildAt(fork.ctx, fork.else)
    IN  BuildAt(ElseChain(e.alternate, other, fork.merge), fork.merge)

\* while.cond, while.body and while.exit
GenWhile(e, G) ==
    LET B(n) == NewBlock(G, n)
        entered == EnterLoop(WithBlocks(G, 3), B(1), B(3))
        c == Value(e.condition, BuildAt(Br(entered, B(1)), B(1)))
        bit == IF c.v.ty = "null" THEN [v |-> False, ctx |-> c.ctx]
                                  ELSE AsBit(c.ctx, c.v)
        forked == CondBr(bit.ctx, bit.v, B(2), B(3))
        body == BrIfOpen(Scoped(e.body, BuildAt(forked, B(2))), B(1))
    IN  ExitLoop(BuildAt(body, B(3)))

\* loop.header, loop.body, loop.continue and loop.exit
GenLoop(e, G) ==
    LET B(n) == NewBlock(G, n)
        entered == Br(EnterLoop(WithBlocks(G, 4), B(3), B(4)), B(1))
        inBody == BuildAt(Br(BuildAt(entered, B(1)), B(2)), B(2))
        body == Br(Scoped(e.body, inBody), B(3))
    IN  ExitLoop(BuildAt(Br(BuildAt(body, B(3)), B(1)), B(4)))

\* A branch out, then a fresh block that nothing branches to.
GenJump(e, G) ==
    LET loop == Last(G.loops)
        target == IF e = Break THEN loop.exit ELSE loop.continue
    IN  IF G.loops = << >> THEN Broken(G)
        ELSE BuildAt(WithBlocks(Br(G, target), 1), NewBlock(G, 1))

(* The parts that for over a range and for over an iterable share. *)

\* Mutant: the counter is not written back.
ForStepLost(G, index, header) == Br(G, header)

ForStep(G, index, header) ==
    LET loaded == LoadOf(G, index)
        next == Computed(Popped(loaded), [op |-> "+", a |-> Top(loaded),
                                          b |-> Const(1, "i32")], "i32")
    IN  Br(Store(Popped(next), index.slot, Top(next)), header)

\* Mutant: the else block runs when there was an iteration.
ForElseSwapped(e, G, executed, after, other) ==
    LET ran == LoadOf(G, executed)
        forked == CondBr(Popped(ran), Top(ran), other, after)
    IN  IF e.else_block = << >> THEN Br(G, after)
        ELSE Br(Scoped(e.else_block, BuildAt(forked, other)), after)

\* The else block runs when __for_executed is still false at the exit.
ForElse(e, G, executed, after, other) ==
    LET ran == LoadOf(G, executed)
        forked == CondBr(Popped(ran), Top(ran), after, other)
    IN  IF e.else_block = << >> THEN Br(G, after)
        ELSE Br(Scoped(e.else_block, BuildAt(forked, other)), after)

\* A binding is the visible variable of that name, or a new one.
Bound(G, name, v) ==
    LET info == Lookup(G, name)
        fresh == NewVariable(G, name, v.ty)
    IN  IF info.ty = "null" THEN Store(fresh, Len(fresh.slots), v)
        ELSE IF info.ty = "function" THEN Broken(G)
        ELSE Store(G, info.slot, v)

RECURSIVE BindFields(_, _, _, _)

\* Mutant: the fields are counted from the one after the first.
BindFieldsFromSecond(G, names, n, element) ==
    IF n > Len(names) THEN G
    ELSE LET field == Computed(G, [field |-> n + 1] @@ element, "Value")
         IN  BindFields(Bound(Popped(field), names[n].symbol, Top(field)),
                        names, n + 1, element)

\* Each name is bound to a field of the element, which is taken for a tuple.
BindFields(G, names, n, element) ==
    IF n > Len(names) THEN G
    ELSE LET field == Computed(G, [field |-> n] @@ element, "Value")
         IN  BindFields(Bound(Popped(field), names[n].symbol, Top(field)),
                        names, n + 1, element)

\* An integer is iterated from 0 (the checker lets no program get there); of a
\* boxed collection the length and the elements are known when it runs.
BindElement(e, G, i, it) ==
    IF e.bindings = << >> THEN G
    ELSE IF it.ty # "Value" THEN Bound(G, e.bindings[1].symbol, i)
    ELSE BindFields(G, e.bindings, 1, [op |-> "element", of |-> it, index |-> i])

\* for.after, for.else if there is one, then header, body, step and exit.
ForBlocks(e, G) ==
    LET first == NewBlock(G, IF e.else_block = << >> THEN 1 ELSE 2)
    IN  [ctx |-> WithBlocks(G, first - Len(G.blocks)),
         after |-> NewBlock(G, 1), other |-> first,
         header |-> first + 1, body |-> first + 2, step |-> first + 3,
         exit |-> first + 4]

\* The blocks of the expressions in the head come before the last four.
Moved(blocks, G) ==
    [b \in DOMAIN blocks \ {"ctx"} |->
        blocks[b] + (IF b \in {"after", "other"} THEN 0
                     ELSE Len(G.blocks) - blocks.other)]

\* Header, body and step, given the context at the head of the body.
ForRest(e, G, blocks, executed, index) ==
    LET ran == Store(G, executed.slot, Const(1, "i1"))
        body == BrIfOpen(Scoped(e.body, ran), blocks.step)
        step == ForStep(BuildAt(body, blocks.step), index, blocks.header)
        left == ExitLoop(BuildAt(step, blocks.exit))
    IN  BuildAt(ForElse(e, left, executed, blocks.after, blocks.other),
                 blocks.after)

\* The comparison at the header, and the two blocks it leads to.
ForHeader(G, blocks, index, op, bound) ==
    LET loaded == LoadOf(BuildAt(Br(G, blocks.header), blocks.header), index)
        test == Computed(Popped(loaded),
                         [op |-> op, a |-> Top(loaded), b |-> bound], "i1")
        forked == CondBr(Popped(test), Top(test), blocks.body, blocks.exit)
    IN  [i |-> Top(loaded), ctx |-> BuildAt(forked, blocks.body)]

ForIterable(e, G) ==
    LET flagged == NewVariable(G, "__for_executed", "i1")
        executed == Lookup(flagged, "__for_executed")
        blocks == ForBlocks(e, Store(flagged, executed.slot, False))
        it == Value(e.iterable, blocks.ctx)
        counted == it.v.ty # "Value"
        measured == Computed(it.ctx, [op |-> "length", of |-> it.v], "i32")
        len == IF counted THEN it
               ELSE [v |-> Top(measured), ctx |-> Popped(measured)]
        moved == Moved(blocks, len.ctx)
        indexed == NewVariable(WithBlocks(len.ctx, 4), "__idx", "i32")
        index == Lookup(indexed, "__idx")
        head == ForHeader(Store(indexed, index.slot, Const(0, "i32")), moved,
                          index, "<", len.v)
        bound == BindElement(e, EnterLoop(head.ctx, moved.step, moved.exit),
                             head.i, it.v)
    IN  IF it.v.ty \in {"null", "function"} THEN Broken(it.ctx)
        ELSE ForRest(e, bound, moved, executed, index)

(* The first name of a range is the counter itself, a new variable. *)
ForRange(e, G) ==
    LET flagged == NewVariable(G, "__for_executed", "i1")
        executed == Lookup(flagged, "__for_executed")
        blocks == ForBlocks(e, Store(flagged, executed.slot, False))
        start == Value(e.range_start, blocks.ctx)
        end == Value(e.range_end, start.ctx)
        moved == Moved(blocks, end.ctx)
        entered == EnterLoop(WithBlocks(end.ctx, 4), moved.step, moved.exit)
        counter == e.bindings[1].symbol
        counted == NewVariable(entered, counter, "i32")
        index == Lookup(counted, counter)
        head == ForHeader(Store(counted, index.slot, start.v), moved, index,
                          IF e.range_inclusive THEN "<=" ELSE "<", end.v)
        loaded == LoadOf(head.ctx, index)
        bound == IF Len(e.bindings) = 1 THEN head.ctx
                 ELSE Bound(Popped(loaded), e.bindings[2].symbol, Top(loaded))
    IN  IF \/ Len(e.bindings) > 2
           \/ ~({start.v.ty, end.v.ty} \subseteq {"i1", "i32"})
        THEN Broken(end.ctx)
        ELSE ForRest(e, bound, moved, executed, index)

(***************************************************************************)
(* match: a chain of tests.  A condition that cannot be built is false,    *)
(* and a range pattern is built for integers only: a boxed target matches  *)
(* none, where the comparison with a single value unboxes it.              *)
(***************************************************************************)
IsDefault(pattern) ==
    pattern \in {Identifier("default"), Identifier("_")}

RECURSIVE PatternCondition(_, _, _)
PatternCondition(pattern, G, target) ==
    LET l == PatternCondition(pattern.left, G, target)
        r == PatternCondition(pattern.right, l.ctx, target)
        start == Value(pattern.start, G)
        end == Value(pattern.end, start.ctx)
        integers == {target.ty, start.v.ty, end.v.ty} \subseteq {"i1", "i32"}
        int(v) == Promoted(v, "i32")
        above == Operation(end.ctx, ">=", int(target), int(start.v))
        upTo == IF pattern.inclusive THEN "<=" ELSE "<"
        below == Operation(Popped(above), upTo, int(target), int(end.v))
        both(H, op, a, b) == Computed(H, [op |-> op, a |-> a, b |-> b], "i1")
        result(H) == [v |-> Top(H), ctx |-> Popped(H)]
        none(H) == [v |-> NoValue, ctx |-> H]
        single == Value(pattern, G)
    IN  IF pattern.kind = "BinaryExpression" /\ pattern.op = "||"
        THEN IF "null" \in {l.v.ty, r.v.ty} THEN none(r.ctx)
             ELSE result(both(r.ctx, "||", l.v, r.v))
        ELSE IF pattern.kind = "RangeExpression"
        THEN IF ~integers THEN none(end.ctx)
             ELSE result(both(Popped(below), "&&", Top(above), Top(below)))
        ELSE IF IsDefault(pattern) THEN none(G)
        ELSE IF single.v.ty = "null" THEN none(single.ctx)
        ELSE result(Operation(single.ctx, "==", target, single.v))

RECURSIVE MatchTests(_, _, _, _)
MatchTests(e, i, info, G) ==
    LET B(n) == NewBlock(G, n)
        after == info.after
        opened == WithBlocks(G, 2)
        loaded == LoadOf(opened, info)
        cond == PatternCondition(e.cases[i], Popped(loaded), Top(loaded))
        bit == IF cond.v.ty = "null" THEN [v |-> False, ctx |-> cond.ctx]
                                     ELSE AsBit(cond.ctx, cond.v)
        tested == IF IsDefault(e.cases[i]) THEN Br(opened, B(1))
                  ELSE CondBr(bit.ctx, bit.v, B(1), B(2))
        body == BrIfOpen(Scoped(e.bodies[i], BuildAt(tested, B(1))), after)
    IN  IF i > Len(e.cases) THEN BrIfOpen(G, after)
        ELSE MatchTests(e, i + 1, info, BuildAt(body, B(2)))

GenMatch(e, G) ==
    LET target == Value(e.target, G)
        slot == Len(G.slots) + 1
        kept == Store([target.ctx EXCEPT !.slots = Append(@, target.v.ty)],
                      Len(target.ctx.slots) + 1, target.v)
        B(n) == NewBlock(kept, n)
        entry == BuildAt(Br(WithBlocks(kept, 2), B(2)), B(2))
        info == [ty |-> target.v.ty, slot |-> Len(kept.slots), after |-> B(1)]
    IN  IF target.v.ty \in {"null", "function"} THEN Broken(target.ctx)
        ELSE BuildAt(MatchTests(e, 1, info, entry), B(1))

\* create_return(): the insert point stays behind the ret.  Integers are
\* converted to the type of the function, which a Value or nothing cannot be.
GenReturn(e, G) ==
    LET r == Value(e.value, G)
    IN  IF \/ (r.v.ty = "null") # (G.ret = "void")
           \/ r.v.ty \in {"Value", "function"}
        THEN Broken(r.ctx)
        ELSE Add(r.ctx, [op |-> "ret", value |-> r.v])

(***************************************************************************)
(* def: another function is built, then the builder goes back.  The loops  *)
(* and the values of the function around it stay in place meanwhile, and   *)
(* only the entry block is closed.                                         *)
(***************************************************************************)
RECURSIVE WithParameters(_, _)
WithParameters(parameters, G) ==
    IF parameters = << >> THEN G
    ELSE LET p == Head(parameters)
             H == NewVariable(G, p.name, LlvmType(p.typ))
         IN  WithParameters(Tail(parameters),
                 Store(H, Len(H.slots), Const(0, Last(H.slots))))

GenDef(e, G) ==
    LET named == Define(G, e.name,
                        FunctionValue(e.name,
                            [k \in DOMAIN e.parameters |->
                                LlvmType(e.parameters[k].typ)],
                            LlvmType(e.return_type)))
        entry == NewBlock(G, 1)
        inside == [named EXCEPT !.fn = G.functions + 1, !.functions = @ + 1,
                                !.ret = LlvmType(e.return_type)]
        opened == EnterScope(BuildAt(WithBlocks(inside, 1), entry))
        body == ExitScope(GenAll(e.body, WithParameters(e.parameters, opened)))
        closed == IF Terminated(body, entry) THEN body
                  ELSE Add(body, [op |-> "ret", value |-> NoValue])
    IN  [closed EXCEPT !.fn = G.fn, !.ret = G.ret, !.at = G.at]

Gen(e, G) ==
    IF G.broken THEN G
    ELSE CASE e.kind = "NumericLiteral" -> GenNumber(e, G)
           [] e.kind = "BooleanLiteral" ->
                 Push(G, Const(IF e.value THEN 1 ELSE 0, "i1"))
           [] e.kind = "Identifier" -> GenIdentifier(e, G)
           [] e.kind = "BinaryExpression" -> GenBinary(e, G)
           [] e.kind \in OperatorKinds -> GenUnary(e, G)
           [] e.kind \in UnaryKinds \ OperatorKinds -> GenStep(e, G)
           [] e.kind = "ConditionalExpression" -> GenConditional(e, G)
           [] e.kind = "CallExpression" -> GenCall(e, G)
           [] e.kind \in CollectionKinds -> GenCollection(e, G)
           [] e.kind = "AssignmentExpression" -> GenAssignment(e, G)
           [] e.kind = "DeclarationStatement" -> GenDeclaration(e, G)
           [] e.kind = "IfStatement" -> GenIf(e, G)
           [] e.kind = "WhileStatement" -> GenWhile(e, G)
           [] e.kind = "LoopStatement" -> GenLoop(e, G)
           [] e \in {Break, Continue} -> GenJump(e, G)
           [] e.kind = "ForStatement" ->
                 IF e.iterable # None THEN ForIterable(e, G) ELSE ForRange(e, G)
           [] e.kind = "MatchStatement" -> GenMatch(e, G)
           [] e.kind = "ReturnStatement" -> GenReturn(e, G)
           [] e.kind = "DefStatement" -> GenDef(e, G)
           [] OTHER -> Broken(G)

GenAll(stmts, G) ==
    IF stmts = << >> THEN G ELSE GenAll(Tail(stmts), Gen(Head(stmts), G))

(***************************************************************************)
(* generate_ir(), and the end of main.start that the driver adds: the      *)
(* value on top of the stack becomes the exit code.                        *)
(***************************************************************************)
GenerateIr(body, ch) ==
    Then(Scoped(body, EmptyContext(ch)), LAMBDA G :
        Add(Popped(G), [op |-> "exit",
                        value |-> IF Top(G).ty \in {"null", "function"}
                                  THEN Const(0, "i32") ELSE Top(G)]))
==============================================================================
