------------------------------ MODULE Compiler -------------------------------
(***************************************************************************)
(* The way of a program through the compiler: scanned by the Lexer, parsed *)
(* by the Parser, rewritten and typed by the Checker, turned into basic    *)
(* blocks by Codegen, and run.  An error the checker reports stops         *)
(* nothing: the program is compiled all the same.                          *)
(*                                                                         *)
(* The programs of the model come with the tree they were written from, so *)
(* that the properties can compare what each stage leaves with what was    *)
(* meant.                                                                  *)
(***************************************************************************)
EXTENDS Parser, Semantics, SymbolCollector

CONSTANT
    Sources    \* the programs: the text, the tree it shows, and its kind

VARIABLES
    source,    \* the program being compiled
    stage,     \* the stage it is at, or how it ended
    program,   \* what produce_ast returned, and the checker rewrote
    checker    \* the checker that the code generator asks

vars == <<lexerVars, source, stage, program, checker, ir, run>>

NoProgram == [outcome |-> "none", body |-> << >>]

Init ==
    /\ source \in Sources
    /\ LexerInit(source.text)
    /\ stage = "scan"
    /\ program = NoProgram
    /\ checker = FreshChecker
    /\ ir = EmptyContext(checker)
    /\ run = NotRunning

\* tokenize(); a runtime_error ends the compilation.
Scan ==
    /\ stage = "scan"
    /\ LexerNext
    /\ stage' = CASE lexing' = "done" -> "parse"
                  [] lexing' = "threw" -> "refused"
                  [] OTHER -> "scan"
    /\ UNCHANGED <<source, program, checker, ir, run>>

\* produce_ast(); error() ends the process.  What is no program of statements
\* with a tree goes no further here.
ParseTokens ==
    /\ stage = "parse"
    /\ program' = ProduceAst
    /\ stage' = CASE program'.outcome = "exited" -> "refused"
                  [] source.kind \in {"program", "equation"} -> "check"
                  [] OTHER -> "parsed"
    /\ TokensTaken
    /\ UNCHANGED <<source, checker, ir, run>>

\* check_node() of the program, first by the module manager, then once more by
\* the checker of the driver.
CheckedTwice(body) ==
    Then(CheckProgram(body, FreshChecker), LAMBDA first :
        IF Going(first.C) THEN CheckProgram(first.body, FreshChecker)
        ELSE first)

Check ==
    /\ stage = "check"
    /\ \E last \in {CheckedTwice(program.body)} :
          /\ program' = [program EXCEPT !.body = last.body]
          /\ checker' = last.C
    /\ stage' = CASE ~Going(checker') -> "crashed"
                  [] source.kind = "equation" -> "checked"
                  [] OTHER -> "generate"
    /\ UNCHANGED <<lexerVars, source, ir, run>>

\* generate_ir(); of a function that LLVM does not take nothing more is said.
Generate ==
    /\ stage = "generate"
    /\ ir' = GenerateIr(program.body, checker)
    /\ stage' = CASE ~Going(ir'.ch) -> "crashed"
                  [] Runnable(ir') -> "run"
                  [] OTHER -> "refused"
    /\ UNCHANGED <<lexerVars, source, program, checker, run>>

Execute ==
    /\ stage = "run"
    /\ MachineNext
    /\ stage' = IF run'.status \in {"none", "running"} THEN "run" ELSE "end"
    /\ UNCHANGED <<lexerVars, source, program, checker>>

Next == Scan \/ ParseTokens \/ Check \/ Generate \/ Execute

\* The program that was made is run by one thread, which goes on.
Spec == Init /\ [][Next]_vars /\ WF_vars(Execute)

(***************************************************************************)
(* Parsing.                                                                *)
(***************************************************************************)
\* Parsing the text of a program, or of a chain of operators, gives back the tree
\* it shows, but for the else blocks, whose statements lie beside the elif
\* branches.  Operators have neither precedence nor left association: a chain of
\* them shows a tree that is nested to the right, so that a - b - c is
\* a - (b - c) and a * b + c is a * (b + c).
ParsedIsPrinted ==
    (/\ source.kind \in {"program", "chain"}
     /\ \/ stage \in {"check", "parsed"}
        \/ stage = "refused" /\ program.outcome # "whole") =>
        program = [outcome |-> "whole", body |-> Flat(source.tree)]

\* A program whose text breaks off is not refused: unless the parser exits, it
\* is compiled up to there.  What is compiled is then a beginning of the whole
\* program, of which only the last statement may differ.
BeginningKept ==
    (stage = "parsed" /\ source.kind = "cut") =>
        LET kept == IF program.outcome = "cut" \/ program.body = << >>
                    THEN program.body ELSE Front(program.body)
        IN  IsPrefix(kept, Flat(source.tree))

\* Where the collector does not look: under an operator with one operand, in
\* the target of an assignment to an element, and in a control statement.
Veiled(k) ==
    \/ Kind(k - 1) \in {"!"} \union StepOps \/ Kind(k + 1) \in StepOps
    \/ Kind(k - 1) = "-" /\ Kind(k - 2) \in {"NONE", "("}
    \/ Kind(2) \in {"[", "."} /\ \E a \in DOMAIN tokens :
                                   k < a /\ Kind(a) \in AssignOps
    \/ Kind(1) \in {"if", "for", "while", "loop", "match"}

\* The names a fragment defines and uses, by which the session invalidates,
\* are the names in its text, comprehension variables with them, but for those
\* that only occur where the collector does not look: a dependency that only
\* such a place shows is lost.
NamesCollected ==
    (stage = "parsed" /\ source.kind = "fragment") =>
        LET usage == CollectSymbolUsage(program.body)
            typeName == IF Kind(2) = ":" THEN 3 ELSE 0
            named == {k \in DOMAIN tokens \ {typeName} :
                        Kind(k) = "IDENTIFIER" /\ ~Veiled(k)}
        IN  usage.defined \union usage.used
              = {tokens[k].lexeme : k \in named} \ Builtins

(***************************************************************************)
(* Generating.                                                             *)
(***************************************************************************)
Branching ==
    {"IfSource", "WhileStatement", "LoopStatement", "ForStatement",
     "MatchStatement"}

EndsInReturn(stmts) == stmts # << >> /\ Last(stmts).kind = "ReturnStatement"

\* The lists of statements of a node.
Lists(n) ==
    CASE n.kind = "IfSource" ->
            {n.consequent, n.other}
            \union {n.elifs[k].body : k \in DOMAIN n.elifs}
      [] n.kind = "ForStatement" -> {n.body, n.else_block}
      [] n.kind \in {"WhileStatement", "LoopStatement", "DefStatement"} ->
            {n.body}
      [] n.kind = "MatchStatement" -> {n.bodies[k] : k \in DOMAIN n.bodies}
      [] OTHER -> {}

(***************************************************************************)
(* The shapes of programs whose functions LLVM cannot take: a statement    *)
(* after a return; a return at the end of a loop body or of the else block *)
(* of a for, where a branch is added in any case; a function that branches *)
(* and does not end in a return; a break or continue that leaves the       *)
(* function for a loop around its definition, or that no loop is around;   *)
(* and an elif, whose block elif_merge nothing branches to and nothing     *)
(* ends.                                                                   *)
(***************************************************************************)
Unended(n) ==
    /\ n.kind = "DefStatement"
    /\ ~EndsInReturn(n.body)
    /\ \E k \in DOMAIN n.body : n.body[k].kind \in Branching

BranchAfterReturn(n) ==
    \/ n.kind = "LoopStatement" /\ EndsInReturn(n.body)
    \/ n.kind = "ForStatement" /\ EndsInReturn(n.else_block)

LeavesElifMerge(n) ==
    /\ n.kind = "IfSource"
    /\ n.elifs # << >> \/ (n.other # << >> /\ Head(n.other).kind = "IfSource")

Loops == {"WhileStatement", "LoopStatement", "ForStatement"}

RECURSIVE Offending(_, _)
Offending(stmts, inLoop) ==
    \/ \E k \in 1..(Len(stmts) - 1) : stmts[k].kind = "ReturnStatement"
    \/ \E k \in DOMAIN stmts :
          \/ Unended(stmts[k]) \/ BranchAfterReturn(stmts[k])
          \/ LeavesElifMerge(stmts[k])
          \/ stmts[k] \in {Break, Continue} /\ ~inLoop
          \/ \E list \in Lists(stmts[k]) :
                Offending(list, \/ stmts[k].kind \in Loops
                                \/ inLoop /\ stmts[k].kind # "DefStatement")

\* The generated blocks are well formed, each closed once and branching within
\* its function, for exactly the programs that have none of those shapes (and
\* whose variables all have a type, which DeclarationsTyped is about).
BlocksWellFormed ==
    (/\ source.kind = "program" /\ program.outcome = "whole"
     /\ stage \in {"run", "refused"} /\ run = NotRunning /\ ~ir.untyped)
    => (~ir.broken /\ WellFormed(ir) <=> ~Offending(source.tree, FALSE))

(***************************************************************************)
(* Checking.                                                               *)
(***************************************************************************)
\* The names that are looked up when the type of an expression is inferred.
RECURSIVE NamesIn(_)
NamesIn(e) ==
    CASE e.kind = "Identifier" -> {e.symbol}
      [] e.kind = "BinaryExpression" -> NamesIn(e.left) \union NamesIn(e.right)
      [] e.kind \in UnaryKinds -> NamesIn(e.operand)
      [] e.kind = "ConditionalExpression" ->
            UNION {NamesIn(f) : f \in {e.true_expr, e.condition, e.false_expr}}
      [] e.kind = "AssignmentExpression" ->
            NamesIn(e.target) \union NamesIn(e.value)
      [] e.kind = "CallExpression" ->
            NamesIn(e.caller)
            \union UNION {NamesIn(e.args[k]) : k \in DOMAIN e.args}
      [] e.kind = "Map" ->
            UNION {NamesIn(p.key) \union NamesIn(p.value) : p \in Range(e.elements)}
      [] e.kind \in {"ArrayExpression", "TupleExpression"} ->
            UNION {NamesIn(e.elements[k]) : k \in DOMAIN e.elements}
      [] OTHER -> {}

\* What types are told apart by: the kind; and in a map, also what they are made
\* of.  There all names of loops read the same.
RECURSIVE Shape(_, _)
Shape(e, inMap) ==
    CASE e.kind = "Map" -> [kind |-> e.kind,
            of |-> <<Shape(e.elements[1].key, TRUE),
                     Shape(e.elements[1].value, TRUE)>>]
      [] e.kind = "ArrayExpression" /\ NamesIn(e) # {} ->
            [kind |-> "VectorExpression"]
      [] e.kind \in {"ArrayExpression", "TupleExpression"} /\ inMap ->
            [kind |-> e.kind,
             of |-> [k \in DOMAIN e.elements |-> Shape(e.elements[k], TRUE)]]
      [] e.kind = "NumericLiteral" /\ inMap ->
            [kind |-> e.kind, float |-> "." \in Range(Letters(e.value))]
      [] OTHER -> [kind |-> e.kind]

\* Two arrays, or two tuples, that differ in what they are made of.
OtherParts(a, b) ==
    /\ {a.kind, b.kind} \in {{"ArrayExpression"}, {"TupleExpression"}}
    /\ Shape(a, TRUE) # Shape(b, TRUE)

\* Types of two kinds do not agree, nor do maps that hold different things; what
\* is of one kind otherwise does.  (Of arrays and tuples of other parts, see
\* AnyCommentHolds.)  The variables of two loops have the same id and count
\* as one; one agrees with every type but a tuple with any of them in it.  Taken
\* for a map that holds it, it is a type that contains itself, and the checker
\* does not come back.
TypesComparedByKind ==
    (/\ source.kind = "equation" /\ stage \in {"checked", "crashed"}
     /\ ~OtherParts(source.tree[1], source.tree[2])) =>
      LET term == source.tree
          named == {k \in {1, 2} : term[k].kind = "Identifier"}
          other(k) == term[3 - k]
          agree == CASE named = {1, 2} -> TRUE
                     [] named = {} ->
                           Shape(term[1], FALSE) = Shape(term[2], FALSE)
                     [] OTHER -> \A k \in named :
                                    \/ other(k).kind # "TupleExpression"
                                    \/ NamesIn(other(k)) = {}
          endless == \E k \in named : /\ other(k).kind = "Map"
                                      /\ term[k].symbol \in NamesIn(other(k))
      IN  /\ stage = "crashed" <=> endless
          /\ stage = "checked" => (checker.err <=> ~agree)

\* The statement lists of a node of the parser, in the order of the code that
\* is made of them.
Parts(n) ==
    CASE n.kind = "IfStatement" ->
            LET other == n.alternate
                chained(k) == \A j \in 1..k : other[j].kind = n.kind
            IN  <<n.consequent,
                  [k \in DOMAIN other |->
                     IF chained(k) THEN [other[k] EXCEPT !.alternate = << >>]
                     ELSE other[k]]>>
      [] n.kind = "ForStatement" -> <<n.body, n.else_block>>
      [] n.kind \in {"WhileStatement", "LoopStatement", "DefStatement"} ->
            <<n.body>>
      [] n.kind = "MatchStatement" -> n.bodies
      [] OTHER -> << >>

(***************************************************************************)
(* The declarations whose type the code generator cannot learn from the    *)
(* checker, of which by then only the global namespace is left: those that *)
(* read a name of an inner block, and those of a global constant, which    *)
(* cannot be put there again.  An explicit type makes a name global.       *)
(***************************************************************************)
RECURSIVE Looked(_, _)
Looked(s, n) ==
    LET typed == n.typ # "automatic"
        blind == \/ ~(NamesIn(n.value) \subseteq s.known)
                 \/ typed /\ n.target.symbol \in s.locked
    IN  IF n.kind # "DeclarationStatement"
        THEN FoldLeft(LAMBDA t, part : FoldLeft(Looked, t, part), s, Parts(n))
        ELSE IF blind THEN [s EXCEPT !.blind = Append(@, n)]
        ELSE IF ~typed THEN s
        ELSE [s EXCEPT !.known = @ \union {n.target.symbol},
                       !.locked = IF n.constant THEN @ \union {n.target.symbol}
                                  ELSE @]

BlindDeclarations ==
    LET body == program.body
        at(kind) == {k \in DOMAIN body : body[k].kind = kind}
        declarations == at("DeclarationStatement")
        defs == at("DefStatement")
        top(ks) == {body[k].target.symbol : k \in ks}
        start == [known |-> Visible(FreshChecker) \union top(declarations)
                            \union {body[k].name : k \in defs},
                  locked |-> top({k \in declarations : body[k].constant}),
                  blind |-> << >>]
    IN  FoldLeft(Looked, start, body).blind

ComputedKinds ==
    OperatorKinds
    \union {"NumericLiteral", "BooleanLiteral", "BinaryExpression",
            "ConditionalExpression"}

\* In a program without an error every declared variable gets a type, so that
\* its code can be generated, but for the declarations above: a variable of an
\* inner block whose value is computed from the names of a loop or of a
\* function has none, and the program that the checker took is refused.
DeclarationsTyped ==
    (/\ source.kind = "program" /\ program.outcome = "whole" /\ ~checker.err
     /\ stage \in {"run", "refused"} /\ run = NotRunning)
    => LET blind == BlindDeclarations
       IN  /\ ir.untyped => blind # << >>
           /\ (\E k \in DOMAIN blind : blind[k].value.kind \in ComputedKinds)
                 => ir.broken

(***************************************************************************)
(* Running.                                                                *)
(***************************************************************************)
\* All statements of a tree, in any list.
RECURSIVE AllIn(_)
AllIn(stmts) ==
    Range(stmts)
    \union UNION {AllIn(list) : list \in UNION {Lists(s) : s \in Range(stmts)}}

\* A statement of the program gives a value to a name that it declares.
Reassigns(tree) ==
    LET declared(s) == CASE s.kind = "DeclarationStatement" -> {s.target.symbol}
                         [] s.kind = "ForStatement" ->
                               {b.symbol : b \in Range(s.bindings)}
                         [] OTHER -> {}
        assigned(s) == IF s.kind = "AssignmentExpression" THEN {s.target.symbol}
                       ELSE {}
        all == AllIn(tree)
    IN  UNION {declared(s) : s \in all} \intersect UNION {assigned(s) : s \in all}
          # {}

OneName(s) ==
    s.kind = "ForStatement" /\ s.iterable # None /\ Len(s.bindings) = 1

\* What a called function returns is a boxed value.
BoxedRange(s) ==
    /\ s.kind = "MatchStatement" /\ s.target.kind = "CallExpression"
    /\ \E k \in DOMAIN s.cases : s.cases[k].kind = "RangeExpression"

\* The functions that these statements call and the values that they write, if
\* the functions return what they returned in this run: as the source reads when
\* an if at the head of an else block counts as an elif.
MeantBy(stmts) ==
    LET calls == SelectSeq(run.events, LAMBDA e : e.name # "write")
    IN  EventsOf(Reread(stmts), [k \in DOMAIN calls |-> calls[k].result])

\* A compiled program calls the functions, and writes the values, that its
\* source does, in that order, whatever the functions return, if it has none of
\* three statements of which AnyCommentHolds speaks: an assignment to a name it
\* declares, a for of one name over a collection, and a range pattern for a
\* boxed value.
TraceIsSource ==
    (/\ stage = "end" /\ ~Reassigns(source.tree)
     /\ \A s \in AllIn(source.tree) : ~OneName(s) /\ ~BoxedRange(s))
    => run.events = MeantBy(source.tree)

(***************************************************************************)
(* What four comments of the source say, of a program that was run.        *)
(***************************************************************************)
\* check_program.cpp:40: an assignment to a name that exists stays one.
AssignmentsKept ==
    \A k \in DOMAIN source.tree :
        /\ source.tree[k].kind = "AssignmentExpression"
        /\ Reassigns(SubSeq(source.tree, 1, k))
        => program.body[k].kind = "AssignmentExpression"

\* generate_for_stmt.cpp:181: with one name, it is the element, which nothing is
\* read from; 182: with two or more, they are fields.
SingleBindingIsElement ==
    (\A s \in AllIn(source.tree) : s.kind = "ForStatement" => OneName(s))
    => run.status # "fault"

\* generate_match_stmt.cpp:30: a range pattern matches the numbers in the range.
RangePatternsMatch ==
    \A k \in DOMAIN source.tree :
        BoxedRange(source.tree[k]) =>
            IsPrefix(MeantBy(SubSeq(source.tree, 1, k)), run.events)

\* unification.hpp:82: arrays must have one size and one element type.
ArraysComparedThrough ==
    \A s \in AllIn(source.tree) :
        /\ s.kind = "AssignmentExpression"
        /\ s.value.kind = "BinaryExpression"
        /\ s.value.left.kind = "ArrayExpression"
        /\ OtherParts(s.value.left, s.value.right)
        => checker.err

\* Of a program that is run, at least one of the four comments is true.  Does not
\* hold, which refutes each of them: all names of a program are declared after
\* its assignments were rewritten; an element is taken apart for one name as for
\* two; no range is built for a boxed value; and unify() asks equals() first,
\* for which two arrays are equal.
AnyCommentHolds ==
    stage = "end" => \/ AssignmentsKept
                     \/ SingleBindingIsElement
                     \/ RangePatternsMatch
                     \/ ArraysComparedThrough

\* Only the exit code can be a value that the path taken did not compute: it is
\* the last value any expression statement left, wherever that statement is.
OnlyExitDangles ==
    (stage = "end" /\ run.status = "dangling") => instr.op = "exit"

TakesFlatApart(s) ==
    /\ s.kind = "ForStatement" /\ s.iterable # None
    /\ \E j \in DOMAIN s.iterable.elements : FlatElement(s, j)

\* A program goes wrong exactly where a for takes an element apart into more
\* names than it has, or an element that is no tuple: it reads a number, or what
\* lies behind the tuple, as an address.
FaultsAtFlatElements ==
    (/\ stage = "end" /\ run.status # "abandoned"
     /\ \A s \in AllIn(source.tree) : ~OneName(s)) =>
        (run.status = "fault" <=>
            \E s \in AllIn(source.tree) : TakesFlatApart(s))

UpToMaxInt(s) ==
    /\ s.kind = "ForStatement" /\ s.range_inclusive
    /\ s.range_end = NumericLiteral(ToString(MaxInt))

\* A program that is run comes to an end, every for loop with it, but for an
\* inclusive range up to the largest integer, whose counter wraps around.
RangesEnd ==
    \/ \E s \in AllIn(source.tree) : UpToMaxInt(s)
    \/ (stage = "run" ~> stage = "end")
==============================================================================
