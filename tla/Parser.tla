-------------------------------- MODULE Parser --------------------------------
(***************************************************************************)
(* The recursive-descent parser over the tokens of the scanner.  Each      *)
(* parse_* function is an operator from the index of a token to what the   *)
(* function returns and the index it leaves behind, [at, node].            *)
(*                                                                         *)
(* Two indices are outside the tokens and stand for a parse that ended:    *)
(* Exited after error() has called exit(1), and PastEnd after a token was  *)
(* asked for past the last one, which throws out_of_range.  No token is    *)
(* found there, so every loop stops and the index is handed up unchanged.  *)
(***************************************************************************)
EXTENDS Lexer, Ast

LOCAL SX == INSTANCE SequencesExt

Exited == 0
PastEnd == Len(tokens) + 1

Result(at, node) == [at |-> at, node |-> node]

Kind(i) == IF i \in DOMAIN tokens THEN tokens[i].kind ELSE "NONE"
Lexeme(i) == IF i \in DOMAIN tokens THEN tokens[i].lexeme ELSE ""
NotEof(i) == Kind(i) \notin {"EOF", "NONE"}

\* next_token() at the last token is the token itself.
NextKind(i) == IF i + 1 \in DOMAIN tokens THEN Kind(i + 1) ELSE Kind(i)

\* error(): the message shows the current token, and asking for it throws
\* when there is none; otherwise the process ends.
Fail(i) == IF i \in DOMAIN tokens THEN Exited ELSE i

Consume(i) == IF i \in DOMAIN tokens THEN i + 1 ELSE i

\* expect() consumes before it looks: at EOF the error is raised past the end.
Expect(i, kind) ==
    IF Kind(i) \in {kind, "EOF"} THEN Consume(i) ELSE Fail(i)

ConsumeIf(i, kind) == IF Kind(i) = kind THEN Consume(i) ELSE i

PowerOps == {"**"}
MulOps == {"*", "/", "%", "//"}
AddOps == {"+", "-"}
RelOps == {"<=", ">=", "<", ">"}
EqOps == {"==", "!="}
LogicOps == {"&&", "||"}
AssignOps == {"=", "+=", "-=", "*=", "/=", "//=", "**=", "%="}
StepOps == {"++", "--"}
ChainStart == {"(", "[", "."}

(* The rules of the grammar call each other in circles: Parse names a rule
   whose operator comes further down. *)
RECURSIVE Parse(_, _)

(***************************************************************************)
(* String literals with {name} inside become a chain of "+".               *)
(***************************************************************************)
CharAt(s, i) == IF i \in 1..Len(s) THEN SubSeq(s, i, i) ELSE ""

RECURSIVE BraceEnd(_, _)
BraceEnd(s, j) ==
    IF CharAt(s, j) = "\\" THEN BraceEnd(s, j + 2)
    ELSE IF CharAt(s, j) \in {"", "}"} THEN j
    ELSE BraceEnd(s, j + 1)

RECURSIVE Trimmed(_)
Trimmed(s) ==
    IF CharAt(s, 1) \in Space THEN Trimmed(SubSeq(s, 2, Len(s)))
    ELSE IF CharAt(s, Len(s)) \in Space THEN Trimmed(SubSeq(s, 1, Len(s) - 1))
    ELSE s

IsName(s) == /\ CharAt(s, 1) \in Alpha \union {"_"}
             /\ \A i \in 1..Len(s) : CharAt(s, i) \in WordChar

Flushed(literal, parts) ==
    IF literal = "" THEN parts ELSE Append(parts, StringLiteral(literal))

RECURSIVE StringParts(_, _, _, _)
StringParts(s, i, literal, parts) ==
    LET c == CharAt(s, i)
        j == BraceEnd(s, i + 1)
        closed == CharAt(s, j) = "}"
        name == Trimmed(SubSeq(s, i + 1, j - 1))
        keep(to) == StringParts(s, to + 1, literal \o SubSeq(s, i, to), parts)
    IN  IF c = "" THEN Flushed(literal, parts)
        ELSE IF c = "\\" /\ CharAt(s, i + 1) \in {"{", "}"}
        THEN StringParts(s, i + 2, literal \o CharAt(s, i + 1), parts)
        ELSE IF c # "{" THEN keep(i)
        ELSE IF ~closed THEN keep(Len(s))
        ELSE IF IsName(name)
        THEN StringParts(s, j + 1, "",
                         Append(Flushed(literal, parts), Identifier(name)))
        ELSE keep(j)

Joined(parts) ==
    IF parts = << >> THEN StringLiteral("")
    ELSE SX!FoldLeft(LAMBDA sum, part : Binary("+", sum, part),
                  Head(parts), Tail(parts))

(***************************************************************************)
(* Lists.  Each operator adds to the nodes read so far, and gives the      *)
(* index that ends the list together with the nodes.                       *)
(***************************************************************************)
Listed(at, nodes) == [at |-> at, nodes |-> nodes]

\* One more element after each comma, a trailing comma allowed before closer.
RECURSIVE MoreElements(_, _, _)
MoreElements(i, closer, nodes) ==
    IF Kind(i) # "," THEN Listed(i, nodes)
    ELSE IF Kind(i + 1) = closer THEN Listed(i + 1, nodes)
    ELSE LET e == Parse("additive", i + 1)
         IN  MoreElements(e.at, closer, Append(nodes, e.node))

MapEntry(i) ==
    LET key == Parse("primary", i)
        chain == Parse("callMember", key)
        value == Parse("additive", Expect(chain.at, ":"))
    IN  Result(value.at, KeyValue(chain.node, value.node))

RECURSIVE MoreEntries(_, _)
MoreEntries(i, nodes) ==
    IF Kind(i) # "," THEN Listed(i, nodes)
    ELSE IF Kind(i + 1) = "}" THEN Listed(i + 1, nodes)
    ELSE LET e == MapEntry(i + 1)
         IN  MoreEntries(e.at, Append(nodes, e.node))

RECURSIVE MoreInTuple(_, _)
MoreInTuple(i, nodes) ==
    IF Kind(i) # "," THEN Listed(i, nodes)
    ELSE LET e == Parse("logical", i + 1)
         IN  MoreInTuple(e.at, Append(nodes, e.node))

RECURSIVE ParseArgumentsList(_, _)
ParseArgumentsList(i, nodes) ==
    IF Kind(i) = ")" THEN Listed(i, nodes)
    ELSE LET arg == Parse("assignment", i)
             longer == Append(nodes, arg.node)
         IN  IF Kind(arg.at) = ","
             THEN ParseArgumentsList(arg.at + 1, longer)
             ELSE Listed(arg.at, longer)

\* The names of a destructuring target: identifiers between commas.
TargetName(i) ==
    LET e == Parse("primary", i)
    IN  IF e.node.kind = "Identifier" THEN e ELSE Result(Fail(e.at), e.node)

RECURSIVE MoreNames(_, _)
MoreNames(i, nodes) ==
    IF Kind(i) # "," THEN Listed(i, nodes)
    ELSE LET e == TargetName(i + 1)
         IN  MoreNames(e.at, Append(nodes, e.node))

ParseTarget(i) ==
    LET first == TargetName(ConsumeIf(i, "("))
        rest == MoreNames(first.at, <<first.node>>)
    IN  IF Kind(i) = "("
        THEN Result(Expect(rest.at, ")"), TupleExpr(rest.nodes))
        ELSE IF Len(rest.nodes) = 1 THEN first
        ELSE Result(rest.at, TupleExpr(rest.nodes))

RECURSIVE Generators(_, _)
Generators(i, pairs) ==
    IF Kind(i) # "for" THEN Listed(i, pairs)
    ELSE LET target == Parse("target", i + 1)
             source == Parse("expr", Expect(target.at, ":"))
         IN  Generators(source.at, Append(pairs, <<target.node, source.node>>))

\* The conditions of a comprehension are joined with "&&".
RECURSIVE IfConditions(_, _)
IfConditions(i, joined) ==
    IF Kind(i) # "if" THEN Result(i, joined)
    ELSE LET c == Parse("logical", i + 1)
         IN  IfConditions(c.at, IF joined = None THEN c.node
                                ELSE Binary("&&", joined, c.node))

MaybeConditional(value) ==
    IF Kind(value.at) = "if" THEN Parse("conditional", value) ELSE value

ParseListComp(elt) ==
    LET gens == Generators(elt.at, << >>)
        cond == IfConditions(gens.at, None)
        other == IF Kind(cond.at) = "else"
                 THEN MaybeConditional(Parse("expr", cond.at + 1))
                 ELSE Result(cond.at, None)
    IN  Result(other.at,
               ListComp(elt.node, gens.nodes, cond.node, other.node))

RECURSIVE VectorElements(_, _)
VectorElements(i, nodes) ==
    IF Kind(i) \in {"]", "NONE"} THEN Listed(i, nodes)
    ELSE LET e == Parse("logical", i)
             elem == IF Kind(e.at) = "for" THEN Parse("listComp", e) ELSE e
         IN  VectorElements(ConsumeIf(elem.at, ","), Append(nodes, elem.node))

(***************************************************************************)
(* Expressions.                                                            *)
(***************************************************************************)
ParsePrimary(i) ==
    LET first == Parse("logical", i + 1)
        more == MoreInTuple(first.at, <<first.node>>)
    IN  CASE Kind(i) = "NUMBER" -> Result(i + 1, NumericLiteral(Lexeme(i)))
          [] Kind(i) = "IDENTIFIER" -> Result(i + 1, Identifier(Lexeme(i)))
          [] Kind(i) = "STRING" ->
                Result(i + 1, Joined(StringParts(Lexeme(i), 1, "", << >>)))
          [] Kind(i) \in {"true", "false"} ->
                Result(i + 1, BooleanLiteral(Kind(i) = "true"))
          [] Kind(i) = "(" ->
                IF Kind(i + 1) = ")" THEN Result(i + 2, TupleExpr(<< >>))
                ELSE Result(Expect(more.at, ")"),
                            IF Kind(first.at) = "," THEN TupleExpr(more.nodes)
                                                    ELSE first.node)
          [] Kind(i) = "[" -> Parse("vector", i)
          [] Kind(i) = "{" -> Parse("arrayMap", i)
          [] OTHER -> Result(Fail(i), None)

ParseVector(i) ==
    IF Kind(i) # "[" THEN Parse("arrayMap", i)
    ELSE LET elements == VectorElements(i + 1, << >>)
         IN  Result(Expect(elements.at, "]"), VectorExpr(elements.nodes))

\* "{" opens an array, or a map when ":" follows the first element.
ParseArrayMap(i) ==
    LET head == Parse("callMember", Parse("primary", i + 1))
        entry == MapEntry(i + 1)
        entries == MoreEntries(entry.at, <<entry.node>>)
        elements == MoreElements(head.at, "}", <<head.node>>)
    IN  IF Kind(i) # "{" THEN Parse("additive", i)
        ELSE IF Kind(i + 1) = "}" THEN Result(i + 2, ArrayExpr(<< >>))
        ELSE IF Kind(head.at) = ":"
        THEN Result(Expect(entries.at, "}"), MapExpr(entries.nodes))
        ELSE Result(Expect(elements.at, "}"), ArrayExpr(elements.nodes))

\* name.name.0: only identifiers and numbers may follow these dots.
RECURSIVE MemberChain(_)
MemberChain(r) ==
    IF Kind(r.at) # "." THEN r
    ELSE IF Kind(r.at + 1) = "IDENTIFIER"
    THEN MemberChain(Result(r.at + 2,
                            Member(r.node, Identifier(Lexeme(r.at + 1)))))
    ELSE IF Kind(r.at + 1) = "NUMBER"
    THEN MemberChain(Result(r.at + 2,
                            Member(r.node, NumericLiteral(Lexeme(r.at + 1)))))
    ELSE Result(Fail(r.at + 1), r.node)

ParseMember(i) == MemberChain(Parse("primary", i))

ParseArgs(i) ==
    LET open == Expect(i, "(")
        args == ParseArgumentsList(open, << >>)
    IN  Listed(Expect(args.at, ")"), args.nodes)

RECURSIVE ParseCall(_)
ParseCall(caller) ==
    LET args == ParseArgs(caller.at)
        call == Result(args.at, Call(caller.node, args.nodes))
    IN  IF Kind(call.at) = "(" THEN ParseCall(call) ELSE call

\* The operand to the right of a binary operator, the same function wherever
\* the operator is met.
RightOperand(op, i) ==
    CASE op \in PowerOps -> Parse("callMember", ParseMember(i))
      [] op \in MulOps -> Parse("power", i)
      [] op \in AddOps -> Parse("multiplicative", i)
      [] op \in RelOps -> Parse("logicalNot", i)
      [] op \in EqOps -> Parse("relational", i)
      [] op \in LogicOps -> Parse("equality", i)

RECURSIVE Infix(_, _)
Infix(ops, left) ==
    IF Kind(left.at) \notin ops THEN left
    ELSE LET right == RightOperand(Kind(left.at), left.at + 1)
         IN  Infix(ops, Result(right.at, Binary(Lexeme(left.at), left.node,
                                                right.node)))

\* The loops that follow every chain of calls, accesses and members.
InfixChain(operand) ==
    Infix(LogicOps, Infix(EqOps, Infix(RelOps,
        Infix(AddOps, Infix(MulOps, Infix(PowerOps, operand))))))

ParsePostfix(r) ==
    Result(r.at + 1, IF Kind(r.at) = "++" THEN PostIncrement(r.node)
                                          ELSE PostDecrement(r.node))

MaybePostfix(r) == IF Kind(r.at) \in StepOps THEN ParsePostfix(r) ELSE r

ParseAccess(r) ==
    LET index == Parse("expr", r.at + 1)
        after == Expect(index.at, "]")
        access == Result(after, Access(r.node, index.node))
        value == Parse("expr", after + 1)
    IN  IF Kind(r.at + 1) = "]" THEN Result(Fail(r.at + 1), r.node)
        ELSE IF Kind(after) \in AssignOps
        THEN Result(value.at,
                    Assignment(access.node, Lexeme(after), value.node))
        ELSE IF Kind(after) \in ChainStart THEN Parse("callMember", access)
        ELSE MaybePostfix(InfixChain(access))

RECURSIVE Chain(_)
Chain(r) ==
    CASE Kind(r.at) = "(" -> Chain(ParseCall(r))
      [] Kind(r.at) = "[" -> Chain(ParseAccess(r))
      [] Kind(r.at) = "." ->
            LET property == Parse("primary", r.at + 1)
            IN  Chain(Result(property.at, Member(r.node, property.node)))
      [] OTHER -> r

ParseCallMember(r) == InfixChain(Chain(r))

ParsePower(i) == Infix(PowerOps, Parse("callMember", ParseMember(i)))
ParseMultiplicative(i) == Infix(MulOps, Parse("power", i))
ParseAdditive(i) == Infix(AddOps, Parse("multiplicative", i))
ParseRelational(i) == Infix(RelOps, Parse("logicalNot", i))
ParseEquality(i) == Infix(EqOps, Parse("relational", i))
ParseLogical(i) == Infix(LogicOps, Parse("equality", i))

ParseLogicalNot(i) ==
    LET operand == Parse("logicalNot", i + 1)
    IN  IF Kind(i) = "!" THEN Result(operand.at, LogicalNot(operand.node))
        ELSE Parse("unary", i)

ParseUnary(i) ==
    LET operand == Parse("unary", i + 1)
        prefixed(node) == MaybePostfix(Result(operand.at, node))
    IN  CASE Kind(i) = "-" -> prefixed(UnaryMinus(operand.node))
          [] Kind(i) = "!" -> prefixed(LogicalNot(operand.node))
          [] Kind(i) = "++" -> prefixed(Increment(operand.node))
          [] Kind(i) = "--" -> prefixed(Decrement(operand.node))
          [] OTHER -> MaybePostfix(Parse("additive", i))

\* value if condition else other
ParseConditional(value) ==
    LET condition == Parse("logical", value.at + 1)
        other == MaybeConditional(Parse("expr", Expect(condition.at, "else")))
    IN  Result(other.at, Conditional(value.node, condition.node, other.node))

\* Mutant: the two ranges are taken for each other.
ParseRangeSwapped(i) ==
    LET left == Parse("logical", i)
        right == Parse("logical", left.at + 1)
    IN  IF Kind(left.at) \in {"..", "..="}
        THEN Result(right.at,
                    RangeExpr(left.node, right.node, Kind(left.at) = ".."))
        ELSE left

ParseRange(i) ==
    LET left == Parse("logical", i)
        right == Parse("logical", left.at + 1)
    IN  IF Kind(left.at) \in {"..", "..="}
        THEN Result(right.at,
                    RangeExpr(left.node, right.node, Kind(left.at) = "..="))
        ELSE left

(***************************************************************************)
(* Types are text.  A number of elements must be positive as stoi reads    *)
(* it: only the leading decimal digits count.  (Numbers too large for an   *)
(* int are left out.)                                                      *)
(***************************************************************************)
PositiveSize(s) ==
    \E n \in 1..Len(s) : /\ \A j \in 1..n : CharAt(s, j) \in Digit
                         /\ CharAt(s, n) # "0"

\* "[ number ]" from the bracket on.
SizeEnd(i) ==
    LET number == Consume(i + 1)
    IN  IF Kind(i + 1) = "NUMBER" /\ PositiveSize(Lexeme(i + 1))
        THEN Expect(number, "]")
        ELSE Fail(number)

Typed(at, typ) == [at |-> at, typ |-> typ]

RECURSIVE TupleTypes(_, _)
TupleTypes(i, text) ==
    IF Kind(i) \in {")", "NONE"} THEN Typed(i, text)
    ELSE LET first == text = ""
             elem == Parse("type", IF first THEN i ELSE Expect(i, ","))
         IN  TupleTypes(elem.at, IF first THEN elem.typ
                                          ELSE text \o ", " \o elem.typ)

ParseType(i) ==
    LET keyType == Parse("type", Expect(i + 1, "<"))
        valueType == Parse("type", Expect(keyType.at, ","))
        elem == Parse("type", SizeEnd(i))
        elems == TupleTypes(i + 1, "")
        bracketed(at) == "[" \o Lexeme(at + 1) \o "]"
    IN  CASE Kind(i) = "IDENTIFIER" /\ Lexeme(i) = "map" ->
                Typed(Expect(valueType.at, ">"),
                      "map<" \o keyType.typ \o ", " \o valueType.typ \o ">")
          [] Kind(i) = "IDENTIFIER" /\ Lexeme(i) # "map" ->
                IF Lexeme(i) # "vector" /\ Kind(i + 1) = "["
                THEN Typed(SizeEnd(i + 1), Lexeme(i) \o bracketed(i + 1))
                ELSE Typed(i + 1, Lexeme(i))
          [] Kind(i) = "[" -> Typed(elem.at, bracketed(i) \o elem.typ)
          [] Kind(i) = "(" ->
                Typed(Expect(elems.at, ")"), "(" \o elems.typ \o ")")
          [] OTHER -> Typed(Fail(i), "")

MaybeType(i, default) ==
    IF Kind(i) = ":" THEN Parse("type", i + 1) ELSE Typed(i, default)

\* name [: type] [= value] ;
ParseLocked(i, locked) ==
    LET name == Expect(i, "IDENTIFIER")
        typ == MaybeType(name, "automatic")
        value == IF Kind(typ.at) = "=" THEN Parse("expr", typ.at + 1)
                                       ELSE Result(typ.at, None)
    IN  Result(Expect(value.at, ";"),
               Declaration(Identifier(Lexeme(i)), value.node, typ.typ, locked))

\* target op value ;   The ":" branch of the code asks parse_type to read
\* the colon itself, which no type starts with: it always fails.
ParseAssignment(i) ==
    LET target == Parse("arrayMap", i)
        valueAt == target.at + 1
        value == MaybeConditional(
                   CASE Kind(valueAt) = "[" -> Parse("vector", valueAt)
                     [] Kind(valueAt) = "{" -> Parse("arrayMap", valueAt)
                     [] OTHER -> Parse("assignment", valueAt))
    IN  IF Kind(i) = "lock" THEN ParseLocked(i + 1, TRUE)
        ELSE IF Kind(target.at) = ":" THEN Result(Fail(target.at), target.node)
        ELSE IF Kind(target.at) \in AssignOps
        THEN Result(Expect(value.at, ";"),
                    Assignment(target.node, Lexeme(target.at), value.node))
        ELSE target

\* The first two tokens choose the function.
ParseExpr(i) ==
    LET n == NextKind(i)
    IN  IF Kind(i) = "[" THEN Parse("vector", i)
        ELSE IF Kind(i) = "{" THEN Parse("arrayMap", i)
        ELSE IF Kind(i) \in {"-", "!"} \union StepOps \/ n \in StepOps
        THEN Parse("unary", i)
        ELSE IF n \in ChainStart THEN Parse("callMember", Parse("primary", i))
        ELSE IF n = ":" THEN ParseLocked(i, FALSE)
        ELSE IF n \in LogicOps \union EqOps \union RelOps THEN Parse("logical", i)
        ELSE IF n \in AddOps \union MulOps \union PowerOps
        THEN Parse("additive", i)
        ELSE Parse("assignment", i)

(***************************************************************************)
(* Statements.                                                             *)
(***************************************************************************)
RECURSIVE BlockFrom(_, _)
BlockFrom(i, body) ==
    IF NotEof(i) /\ Kind(i) # "}"
    THEN LET stmt == Parse("stmt", i)
         IN  BlockFrom(stmt.at, Append(body, stmt.node))
    ELSE Listed(Expect(i, "}"), body)

Block(i) == BlockFrom(Expect(i, "{"), << >>)

\* condition { ... }, from the condition on.
Guarded(i) ==
    LET condition == Parse("logical", i)
        body == Block(condition.at)
    IN  [at |-> body.at, condition |-> condition.node, body |-> body.nodes]

RECURSIVE Elifs(_, _)
Elifs(i, alternate) ==
    IF Kind(i) # "elif" THEN Listed(i, alternate)
    ELSE LET g == Guarded(i + 1)
         IN  Elifs(g.at, Append(alternate, If(g.condition, g.body, << >>)))

\* "else if" branches and the statements of the final else lie side by side.
RECURSIVE Elses(_, _)
Elses(i, alternate) ==
    IF Kind(i) # "else" THEN Listed(i, alternate)
    ELSE IF Kind(i + 1) = "if"
    THEN LET g == Guarded(i + 2)
         IN  Elses(g.at, Append(alternate, If(g.condition, g.body, << >>)))
    ELSE LET block == Block(i + 1)
         IN  Listed(block.at, alternate \o block.nodes)

ParseIf(i) ==
    LET g == Guarded(i + 1)
        elifs == Elifs(g.at, << >>)
        elses == Elses(elifs.at, elifs.nodes)
    IN  Result(elses.at, If(g.condition, g.body, elses.nodes))

RECURSIVE MoreBindings(_, _)
MoreBindings(i, nodes) ==
    IF Kind(i) # "," THEN Listed(i, nodes)
    ELSE MoreBindings(Expect(i + 1, "IDENTIFIER"),
                      Append(nodes, Identifier(Lexeme(i + 1))))

BindingList(i) ==
    MoreBindings(Expect(i, "IDENTIFIER"), <<Identifier(Lexeme(i))>>)

ParseFor(i) ==
    LET bound == Kind(i + 1) = "IDENTIFIER" /\ NextKind(i + 1) \in {":", ","}
        names == IF bound THEN BindingList(i + 1) ELSE Listed(i + 1, << >>)
        over == IF bound THEN Parse("range", Expect(names.at, ":"))
                         ELSE Parse("logical", i + 1)
        ranged == bound /\ over.node.kind = "RangeExpression"
        body == Block(over.at)
        other == IF Kind(body.at) = "else" THEN Block(body.at + 1)
                                           ELSE Listed(body.at, << >>)
    IN  Result(other.at,
          For(names.nodes,
              IF ranged THEN over.node.start ELSE None,
              IF ranged THEN over.node.end ELSE None,
              ranged /\ over.node.inclusive,
              IF ranged THEN None ELSE over.node,
              body.nodes, other.nodes))

ParseWhile(i) ==
    LET g == Guarded(i + 1)
    IN  Result(g.at, While(g.condition, g.body))

ParseLoop(i) ==
    LET body == Block(i + 1) IN Result(body.at, Loop(body.nodes))

RECURSIVE MatchCases(_, _, _)
MatchCases(i, cases, bodies) ==
    IF ~NotEof(i) \/ Kind(i) = "}"
    THEN [at |-> Expect(i, "}"), cases |-> cases, bodies |-> bodies]
    ELSE LET pattern == IF Kind(i) = "_"
                        THEN Result(i + 1, Identifier("default"))
                        ELSE Parse("range", i)
             arrow == Expect(pattern.at, "=>")
             single == Parse("stmt", arrow)
             body == IF Kind(arrow) = "{" THEN Block(arrow)
                     ELSE Listed(single.at, <<single.node>>)
         IN  MatchCases(ConsumeIf(body.at, ","), Append(cases, pattern.node),
                        Append(bodies, body.nodes))

ParseMatch(i) ==
    LET target == Parse("expr", i + 1)
        m == MatchCases(Expect(target.at, "{"), << >>, << >>)
    IN  Result(m.at, Match(target.node, m.cases, m.bodies))

ParseReturn(i) ==
    LET value == Parse("expr", i + 1)
    IN  Result(Expect(value.at, ";"), Return(value.node))

RECURSIVE Parameters(_, _)
Parameters(i, nodes) ==
    IF ~NotEof(i) \/ Kind(i) = ")" THEN Listed(Expect(i, ")"), nodes)
    ELSE LET typ == Parse("type", Expect(Expect(i, "IDENTIFIER"), ":"))
             next == IF Kind(typ.at) = ")" THEN typ.at ELSE Expect(typ.at, ",")
         IN  Parameters(next, Append(nodes, Param(Lexeme(i), typ.typ)))

ParseDef(i) ==
    LET open == Expect(Expect(i + 1, "IDENTIFIER"), "(")
        params == Parameters(open, << >>)
        typ == MaybeType(params.at, "void")
        body == Block(typ.at)
    IN  Result(body.at, Def(Lexeme(i + 1), params.nodes, typ.typ, body.nodes))

ParseStmt(i) ==
    LET expr == Parse("expr", i)
    IN  CASE Kind(i) = "def" -> ParseDef(i)
          [] Kind(i) = "if" -> ParseIf(i)
          [] Kind(i) = "return" -> ParseReturn(i)
          [] Kind(i) = "break" -> Result(Expect(i + 1, ";"), Break)
          [] Kind(i) = "continue" -> Result(Expect(i + 1, ";"), Continue)
          [] Kind(i) = "for" -> ParseFor(i)
          [] Kind(i) = "loop" -> ParseLoop(i)
          [] Kind(i) = "while" -> ParseWhile(i)
          [] Kind(i) = "match" -> ParseMatch(i)
          [] OTHER -> Result(ConsumeIf(expr.at, ";"), expr.node)

Parse(rule, x) ==
    CASE rule = "expr" -> ParseExpr(x)
      [] rule = "assignment" -> ParseAssignment(x)
      [] rule = "logical" -> ParseLogical(x)
      [] rule = "equality" -> ParseEquality(x)
      [] rule = "relational" -> ParseRelational(x)
      [] rule = "logicalNot" -> ParseLogicalNot(x)
      [] rule = "unary" -> ParseUnary(x)
      [] rule = "additive" -> ParseAdditive(x)
      [] rule = "multiplicative" -> ParseMultiplicative(x)
      [] rule = "power" -> ParsePower(x)
      [] rule = "callMember" -> ParseCallMember(x)
      [] rule = "primary" -> ParsePrimary(x)
      [] rule = "arrayMap" -> ParseArrayMap(x)
      [] rule = "vector" -> ParseVector(x)
      [] rule = "target" -> ParseTarget(x)
      [] rule = "listComp" -> ParseListComp(x)
      [] rule = "range" -> ParseRange(x)
      [] rule = "type" -> ParseType(x)
      [] rule = "stmt" -> ParseStmt(x)
      [] rule = "conditional" -> ParseConditional(x)

(***************************************************************************)
(* produce_ast(): the statements up to EOF.  The k-th import token takes   *)
(* the k-th import info.  A statement that runs past the end is dropped    *)
(* with a message; the statements before it are returned all the same.     *)
(***************************************************************************)
RECURSIVE Statements(_, _, _)

\* Mutant: the statement that runs past the end is kept.
StatementsKeepingBroken(i, k, body) ==
    LET stmt == Parse("stmt", i)
    IN  IF Kind(i) = "EOF" THEN [outcome |-> "whole", body |-> body]
        ELSE IF stmt.at = Exited THEN [outcome |-> "exited", body |-> << >>]
        ELSE IF stmt.at = PastEnd
        THEN [outcome |-> "cut", body |-> Append(body, stmt.node)]
        ELSE Statements(stmt.at, k, Append(body, stmt.node))

Statements(i, k, body) ==
    LET stmt == Parse("stmt", i)
        info == import_infos[k]
    IN  IF Kind(i) = "EOF" THEN [outcome |-> "whole", body |-> body]
        ELSE IF Kind(i) = "IMPORT" THEN
             IF k \in DOMAIN import_infos
             THEN Statements(i + 1, k + 1,
                    Append(body, Import(info.module_path, info.imports)))
             ELSE Statements(i + 1, k, body)
        ELSE IF stmt.at = Exited THEN [outcome |-> "exited", body |-> << >>]
        ELSE IF stmt.at = PastEnd THEN [outcome |-> "cut", body |-> body]
        ELSE Statements(stmt.at, k, Append(body, stmt.node))

ProduceAst == Statements(1, 1, << >>)
==============================================================================
