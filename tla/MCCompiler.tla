----------------------------- MODULE MCCompiler ------------------------------
(***************************************************************************)
(* Programs for the compiler: every combination of a few statements in     *)
(* every kind of block; the beginnings of two of them; chains of binary    *)
(* operators; fragments of expressions; texts for the scanner; and pairs   *)
(* of terms for the checker.  A word of three bits is enough for a loop to *)
(* reach the largest integer.                                              *)
(***************************************************************************)
EXTENDS Compiler

MCMinInt == -4

(***************************************************************************)
(* The text of a tree.                                                     *)
(***************************************************************************)
Comma(texts) ==
    IF texts = << >> THEN ""
    ELSE FoldLeft(LAMBDA a, b : a \o ", " \o b, Head(texts), Tail(texts))

Brackets ==
    [VectorExpression |-> <<"[", "]">>, ArrayExpression |-> <<"{", "}">>,
     TupleExpression |-> <<"(", ")">>]

RECURSIVE Show(_)

\* An assignment ends with a semicolon, also among arguments.
ShowArg(e) == Show(e) \o (IF e.kind = "AssignmentExpression" THEN ";" ELSE "")

Show(e) ==
    CASE e.kind = "NumericLiteral" -> e.value
      [] e.kind = "BooleanLiteral" -> IF e.value THEN "true" ELSE "false"
      [] e.kind = "StringLiteral" -> "\"" \o e.value \o "\""
      [] e.kind = "Map" ->
            "{" \o Comma([k \in DOMAIN e.elements |->
                           Show(e.elements[k].key) \o ": "
                           \o Show(e.elements[k].value)]) \o "}"
      [] e.kind = "Identifier" ->
            IF e.symbol = "default" THEN "_" ELSE e.symbol
      [] e.kind = "BinaryExpression" ->
            (IF e.left.kind \in {"BinaryExpression", "ArrayExpression"}
             THEN "(" \o Show(e.left) \o ")" ELSE Show(e.left))
            \o " " \o e.op \o " " \o Show(e.right)
      [] e.kind = "LogicalNotExpression" -> "(!(" \o Show(e.operand) \o "))"
      [] e.kind = "PostIncrementExpression" -> Show(e.operand) \o "++"
      [] e.kind = "DecrementExpression" -> "--" \o Show(e.operand)
      [] e.kind = "ConditionalExpression" ->
            Show(e.true_expr) \o " if " \o Show(e.condition) \o " else "
            \o Show(e.false_expr)
      [] e.kind = "CallExpression" ->
            Show(e.caller) \o "("
            \o Comma([k \in DOMAIN e.args |-> ShowArg(e.args[k])]) \o ")"
      [] e.kind = "AssignmentExpression" ->
            Show(e.target) \o " " \o e.op \o " " \o Show(e.value)
      [] e.kind \in CollectionKinds ->
            Brackets[e.kind][1]
            \o Comma([k \in DOMAIN e.elements |-> Show(e.elements[k])])
            \o Brackets[e.kind][2]
      [] e.kind = "RangeExpression" ->
            Show(e.start) \o (IF e.inclusive THEN " ..= " ELSE " .. ")
            \o Show(e.end)

RECURSIVE ShowAll(_)

InBraces(stmts) == " {\n" \o ShowAll(stmts) \o "}"

ShowElif(elif) == " elif " \o Show(elif.condition) \o InBraces(elif.body)

ShowCase(pattern, body) == Show(pattern) \o " =>" \o InBraces(body) \o "\n"

Concat(texts) == FoldLeft(LAMBDA a, b : a \o b, "", texts)

ShowStmt(s) ==
    CASE s.kind = "IfSource" ->
            "if " \o Show(s.condition) \o InBraces(s.consequent)
            \o Concat([k \in DOMAIN s.elifs |-> ShowElif(s.elifs[k])])
            \o (IF s.other = << >> THEN "" ELSE " else" \o InBraces(s.other))
      [] s.kind = "WhileStatement" ->
            "while " \o Show(s.condition) \o InBraces(s.body)
      [] s.kind = "LoopStatement" -> "loop" \o InBraces(s.body)
      [] s.kind = "ForStatement" ->
            "for " \o Comma([k \in DOMAIN s.bindings |-> Show(s.bindings[k])])
            \o (IF s.bindings = << >> THEN "" ELSE " : ")
            \o (IF s.iterable # None THEN Show(s.iterable)
                ELSE Show(RangeExpr(s.range_start, s.range_end,
                                    s.range_inclusive)))
            \o InBraces(s.body)
            \o (IF s.else_block = << >> THEN ""
                ELSE " else" \o InBraces(s.else_block))
      [] s.kind = "MatchStatement" ->
            "match " \o Show(s.target) \o " {\n"
            \o Concat([k \in DOMAIN s.cases |->
                         ShowCase(s.cases[k], s.bodies[k])])
            \o "}"
      [] s.kind = "DefStatement" ->
            "def " \o s.name \o "("
            \o Comma([k \in DOMAIN s.parameters |->
                        s.parameters[k].name \o ": " \o s.parameters[k].typ])
            \o "): " \o s.return_type \o InBraces(s.body)
      [] s.kind = "ReturnStatement" -> "return " \o Show(s.value) \o ";"
      [] s = Break -> "break;"
      [] s = Continue -> "continue;"
      [] s.kind = "DeclarationStatement" ->
            (IF s.constant THEN "lock " ELSE "") \o Show(s.target)
            \o (IF s.typ = "automatic" THEN "" ELSE ": " \o s.typ)
            \o (IF s.value = None THEN "" ELSE " = " \o Show(s.value)) \o ";"
      [] OTHER -> Show(s) \o ";"

ShowAll(stmts) == Concat([k \in DOMAIN stmts |-> ShowStmt(stmts[k]) \o "\n"])

(***************************************************************************)
(* The statements the programs are made of.  c() and d(n) are functions of *)
(* the program that may return anything.                                   *)
(***************************************************************************)
N(n) == NumericLiteral(ToString(n))
X == Identifier("x")
I == Identifier("i")
J == Identifier("j")
C == Call(Identifier("c"), << >>)
Cond == Binary("==", C, N(1))
W(e) == Call(Identifier("write"), <<e>>)
Set(e) == Assignment(X, "=", e)
Let(e) == Declaration(X, e, "int", FALSE)
When(body) == IfSource(Cond, body, << >>, << >>)

DefC == Def("c", << >>, "int", <<Return(N(1))>>)

Ifs ==
    {IfSource(Cond, <<W(N(1))>>, elifs, other) :
       elifs \in {<< >>, <<Elif(Cond, <<Set(N(2))>>)>>},
       other \in {<< >>, <<W(N(3))>>, <<When(<<W(N(3))>>), W(X)>>,
                  <<W(X), When(<<Set(N(3))>>)>>,
                  <<IfSource(Cond, <<W(N(2))>>, << >>, <<W(N(3))>>)>>}}

LoopBodies(shown) ==
    {<<W(X)>>, <<When(<<Break>>), Set(Binary("+", X, N(1)))>>,
     <<When(<<Continue>>), W(shown)>>,
     <<IfSource(Cond, <<Break>>, << >>, <<Continue, W(N(2))>>), W(N(3))>>,
     <<When(<<Break>>), PostIncrement(X), Set(Binary("+", X, N(1))), W(X)>>,
     <<When(<<Break>>), PostIncrement(X), W(Set(Binary("+", X, N(1))))>>}

Ranged(from, to, inclusive, body, other) ==
    For(<<I>>, N(from), N(to), inclusive, None, body, other)
Over(names, collection, body, other) ==
    For(names, None, None, FALSE, collection, body, other)
Pair(a, b) == TupleExpr(<<N(a), N(b)>>)
Pairs == VectorExpr(<<Pair(1, 2), Pair(3, 0)>>)

LoopPrograms ==
    {While(Cond, body) : body \in LoopBodies(X)}
    \union {Loop(<<W(N(2))>> \o body) : body \in LoopBodies(X)}
    \union {Ranged(0, 2, FALSE, body, << >>) : body \in LoopBodies(I)}
    \union {Ranged(1, 2, TRUE, body, <<W(N(3))>>) : body \in LoopBodies(I)}
    \union {Over(names, Pairs, body, <<W(N(3))>>) :
              names \in {<<I>>, <<I, J>>}, body \in LoopBodies(I)}

Nested ==
    {Ranged(0, 2, FALSE, <<While(Cond, <<When(<<Break>>), W(I)>>), W(N(3))>>,
            << >>),
     Ranged(2, 1, TRUE, <<W(I)>>, <<W(N(3))>>),
     Ranged(2, 3, TRUE, << >>, << >>),
     Ranged(0, 3, FALSE, << >>, <<W(N(1))>>),
     Over(<<I, J>>, ArrayExpr(<<Pair(1, 2)>>), <<W(J), W(I)>>, << >>),
     Over(<<I, J>>, VectorExpr(<< >>), <<W(I)>>, <<W(N(2))>>),
     Over(<<I>>, VectorExpr(<<N(1), N(2)>>), <<W(I)>>, << >>),
     Over(<<I, J>>, VectorExpr(<<Pair(1, 2), N(3)>>), <<W(I)>>, << >>),
     Over(<<I, J>>, Pair(1, 2), <<W(I)>>, << >>),
     Over(<<I>>, Pair(1, 2), <<W(I)>>, << >>),
     Over(<<I, J>>, VectorExpr(<<VectorExpr(<<N(1)>>)>>), <<W(I)>>, << >>),
     Over(<< >>, ArrayExpr(<<N(1), N(2)>>), <<W(X)>>, <<W(N(2))>>)}

Matchings ==
    {Match(t, <<N(1), RangeExpr(N(2), N(3), inclusive), p>>,
           <<<<W(N(1))>>, <<W(N(2))>>, <<When(<<W(N(3))>>)>>>>) :
       t \in {C, X, Binary("+", X, N(2))}, inclusive \in BOOLEAN, p \in {N(0), Identifier("default")}}

Plain ==
    {Set(Conditional(Binary("+", X, N(1)), Cond, N(2))),
     Assignment(X, "+=", N(3)), PostIncrement(X), Decrement(X),
     IfSource(Binary("&&", Cond, Binary("<", X, N(2))),
              <<Let(N(3)), W(X)>>, << >>, <<W(N(2))>>),
     IfSource(LogicalNot(Cond), <<W(N(1))>>, << >>, << >>),
     W(Binary("-", Binary("-", X, N(2)), N(1))), W(Set(N(3))),
     When(<<Set(N(2)), Assignment(X, "+=", N(1)), W(X)>>),
     When(<<Let(N(2)), Assignment(X, "+=", N(1)), W(X)>>)}

Programs ==
    {<<DefC, Let(N(0)), s, W(X)>> : s \in Ifs \union Matchings \union Plain}
    \union {<<DefC, Let(N(0)), s, W(X)>> :
              s \in Nested \union LoopPrograms}

(***************************************************************************)
(* Programs that end in a nested statement or in a definition, and         *)
(* definitions of functions that do and do not end in a return.            *)
(***************************************************************************)
Bodies ==
    {<<Return(N(1))>>, <<Return(N(1)), W(N(2))>>, <<W(N(1))>>,
     <<When(<<Return(N(1))>>), Return(N(2))>>, <<When(<<W(N(1))>>)>>,
     <<Loop(<<Return(N(1))>>)>>, <<Loop(<<Return(N(1))>>), Return(N(2))>>,
     <<While(Cond, <<Return(N(1))>>), Return(N(2))>>, <<Break>>,
     <<Ranged(0, 1, FALSE, << >>, <<Return(N(1))>>), Return(N(2))>>,
     <<While(Cond, <<Break>>), Return(N(1))>>,
     <<Match(C, <<N(1)>>, <<<<Return(N(1))>>>>), Return(N(2))>>}

\* Variables of inner blocks, computed from names that are global or not.
Y == Identifier("y")
SetY(e) == Assignment(Y, "=", e)
LetY(e) == Declaration(Y, e, "int", FALSE)
PlusOne(e) == Binary("+", e, N(1))

InnerBlocks ==
    {<<SetY(e), W(N(1))>> :
       e \in {N(2), X, I, PlusOne(X), PlusOne(I), C, Conditional(I, Cond, X),
              Cond}}
    \union {<<SetY(N(2)), Set(PlusOne(Y)), W(X)>>,
            <<LetY(N(2)), Set(PlusOne(Y)), W(X)>>,
            <<LetY(PlusOne(X)), Set(PlusOne(Y)), W(Y)>>,
            <<LetY(PlusOne(I)), Set(PlusOne(Y)), W(Y)>>,
            <<LetY(C), When(<<SetY(X), W(Y)>>), W(Y)>>}

DefF(body) == Def("f", <<Param("i", "int")>>, "int", body \o <<Return(N(1))>>)

Inner ==
    {<<DefC, Let(N(0)), Ranged(0, 2, FALSE, b, << >>)>> : b \in InnerBlocks}
    \union {<<DefC, Let(N(0)), DefF(b), W(Call(Identifier("f"), <<X>>))>> :
              b \in InnerBlocks}
    \union {<<DefC, Declaration(X, N(1), typ, TRUE), When(<<W(X)>>), W(X)>> :
              typ \in {"int", "automatic"}}
    \union {<<W(N(1)), W(BooleanLiteral(TRUE))>>,
            <<Let(N(1)), Let(N(2)), W(X)>>, <<Let(BooleanLiteral(TRUE)), W(X)>>}

DefD(body) == Def("d", <<Param("x", "int")>>, "int", body)

Endings ==
    {<<DefC, DefD(b), W(Call(Identifier("d"), <<C>>))>> : b \in Bodies}
    \union {<<DefC, While(Cond, <<DefD(b)>>)>> : b \in Bodies}
    \union {<<DefC, When(<<W(N(1))>>)>>, <<DefC, W(N(1)), DefD(<<W(N(2))>>)>>,
            <<DefC, When(<<Let(N(1))>>)>>, <<W(N(1)), Break>>,
            <<DefC, Declaration(X, None, "int", FALSE), When(<<Set(N(1))>>),
              W(X)>>}

Source(kind, text, tree) == [kind |-> kind, text |-> text, tree |-> tree]

ProgramSources ==
    {Source("program", ShowAll(t), t) :
       t \in Programs \union Endings \union Inner}

\* Every beginning of a program that does not end inside a word.
CutTree ==
    <<DefC, Let(N(0)), IfSource(Cond, <<W(X)>>, << >>, <<Set(N(1))>>),
      Ranged(0, 2, FALSE, <<W(I)>>, << >>),
      Match(X, <<N(1), Identifier("default")>>, <<<<W(X)>>, << >>>>)>>

CutSources ==
    LET text == ShowAll(CutTree)
        whole(n) == \/ n \in {0, Len(text)}
                    \/ ~({SubSeq(text, n, n), SubSeq(text, n + 1, n + 1)}
                             \subseteq WordChar)
    IN  {Source("cut", SubSeq(text, 1, n), CutTree) :
           n \in {m \in 0..Len(text) : whole(m)}}

ChainSources ==
    LET tree(o, p, q) ==
          Binary(o, Identifier("a"), Binary(p, Identifier("b"),
                 Binary(q, Identifier("c"), Identifier("d"))))
    IN  {Source("chain", Show(tree(o, p, q)), <<tree(o, p, q)>>) :
           o, p, q \in {"-", "*", "**", "==", "<", "&&"}}

FragmentSources ==
    {Source("fragment", text, << >>) :
       text \in {"y = f(a, b[i]).m;", "y = (-a) * b;", "y = (!a);", "a++;",
                 "--b;", "v[i] = a + b;", "[x for x : xs if x > k]",
                 "z = {k: a, b: c};", "y = a if b == c else d;",
                 "write(a - b, (c, d));", "a - (-a)", "y = [a, (b)];",
                 "x: int = a + y;", "a.m = b;", "v[i][j]", "if a == b { c = d; }",
                 "for x : xs { write(x); }", "while a { b(c); }"}}

TextSources ==
    {Source("text", text, << >>) :
       text \in {"", "a # b\nc", "a\tb\n  c", "from\nx = 1;", "fromx y",
                 "from \"m\" import a, b as c;\nx", "from \"m\" import ;a",
                 "from \"m\" import 1;", "from \"m\" y", "'a\\\nb' c\nd",
                 "\"a\" + 'b\\'c'", "\"a\n", "0x1F 0b102 1.5e-3 1..2 1e",
                 "a-1 b - 1 -c", "a..=b...c**=d//=e", "a & b", "a | | b",
                 "$ _ _a 9z", "f(\"a\",'b');", "1.2.3 4.", "#", "x#"}}

(***************************************************************************)
(* Two terms whose types are compared, within the loops of two names.      *)
(***************************************************************************)
Entry(key, value) == MapExpr(<<KeyValue(key, value)>>)

Terms ==
    LET u == Identifier("u")
        v == Identifier("v")
        one == N(1)
    IN  {u, v, one, NumericLiteral("1.5"), BooleanLiteral(TRUE),
         StringLiteral("s"), TupleExpr(<<u, one>>), TupleExpr(<<one, N(2)>>),
         ArrayExpr(<<one, N(2)>>), ArrayExpr(<<one>>), ArrayExpr(<<u>>),
         VectorExpr(<<u>>), Entry(one, u), Entry(one, v), Entry(one, one),
         Entry(u, one), Entry(one, TupleExpr(<<u, one>>))}

EquationSources ==
    {Source("equation",
            "for u : [] { for v : [] { z = " \o Show(a) \o " if true else "
            \o Show(b) \o "; } }", <<a, b>>) : a, b \in Terms}

MCSources ==
    ProgramSources \union EquationSources \union CutSources \union ChainSources
    \union FragmentSources \union TextSources

(***************************************************************************)
(* A program of which four comments of the source speak.                   *)
(***************************************************************************)
CommentedTree ==
    <<DefC,
      Match(C, <<RangeExpr(N(2), N(3), TRUE), Identifier("default")>>,
            <<<<W(N(1))>>, <<W(N(0))>>>>),
      Let(N(1)), Assignment(X, "+=", N(2)), W(X),
      SetY(Binary("==", ArrayExpr(<<N(1), N(2)>>), ArrayExpr(<<N(1)>>))),
      Over(<<I>>, VectorExpr(<<N(1), N(2)>>), <<W(I)>>, << >>)>>

CommentSources ==
    {Source("program", ShowAll(CommentedTree), CommentedTree)}
==============================================================================
