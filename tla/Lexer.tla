-------------------------------- MODULE Lexer --------------------------------
(***************************************************************************)
(* The scanner: Lexer::tokenize and the tokenizers it calls.  One action   *)
(* is one turn of the loop of tokenize(), or of its inner loop over the    *)
(* items of an import statement.  Text is a TLA+ string, so a character is *)
(* a string of length one, and positions count from zero as they do in the *)
(* code.  The kind of an operator or keyword token is its lexeme; the      *)
(* other kinds have the names of the TokenType enumeration.                *)
(***************************************************************************)
EXTENDS Integers, FiniteSets, SequencesExt

VARIABLES
    input,         \* the text being scanned
    cursor,        \* position, line and column of the next character
    tokens,        \* the tokens produced so far
    import_infos,  \* one record per import statement met
    importing,     \* the import statement being read: its path, where it
                   \* starts, and its items so far
    lexing         \* "running", "importing" in the loop over the items, "done",
                   \* "threw" after a runtime_error, "over" once the parser has
                   \* the tokens

lexerVars == <<input, cursor, tokens, import_infos, importing, lexing>>

CharsOf(s) == {SubSeq(s, i, i) : i \in 1..Len(s)}

Digit == CharsOf("0123456789")
HexDigit == Digit \union CharsOf("abcdefABCDEF")
Alpha == CharsOf("abcdefghijklmnopqrstuvwxyzABCDEFGHIJKLMNOPQRSTUVWXYZ")
WordChar == Alpha \union Digit \union {"_"}
Space == {" ", "\n", "\t", "\r"}
Quote == {"\"", "'"}

Operators1 == CharsOf("=+-*/%!<>.,;()[]{}:")
Operators2 == {"==", "**", "&&", "++", "--", "//", "||", "!=", "<=", ">=",
               "=>", "..", "+=", "-=", "*=", "/=", "%="}
Operators3 == {"...", "..=", "**=", "//="}
OperatorStart == Operators1 \union {"|", "&"}

Keywords == {"if", "elif", "else", "match", "for", "while", "loop", "break",
             "continue", "lock", "def", "return", "true", "false", "_"}

(***************************************************************************)
(* Looking at the text.  Past its end there is no character: "".           *)
(***************************************************************************)
Substr(p, n) == SubSeq(input, p + 1, p + n)

At(p) == IF p < Len(input) THEN Substr(p, 1) ELSE ""

\* The next n characters are there and make a word of W.
Ahead(p, n, W) == p + n <= Len(input) /\ Substr(p, n) \in W

\* The first of the positions in Stops, or the end of the text.
FirstOf(Stops) == Min(Stops \union {Len(input)})

Rest(p) == p..(Len(input) - 1)

\* The first position from p on whose character is not in C.
RunEnd(p, C) == FirstOf({q \in Rest(p) : At(q) \notin C})

(***************************************************************************)
(* Moving the cursor.  advance() counts the lines it crosses; a string is  *)
(* tokenized on copies of line and column, so only the position moves.     *)
(***************************************************************************)
\* Mutant: the column goes on counting on a new line.
AdvancedInOneLine(c, q) ==
    [position |-> q,
     line     |-> c.line
                  + Cardinality({r \in c.position..(q - 1) : At(r) = "\n"}),
     column   |-> c.column + q - c.position]

Advanced(c, q) ==
    LET crossed == {r \in c.position..(q - 1) : At(r) = "\n"}
    IN  [position |-> q,
         line     |-> c.line + Cardinality(crossed),
         column   |-> IF crossed = {} THEN c.column + q - c.position
                                      ELSE q - Max(crossed)]

\* Mutant: the character after a string is skipped with it.
OverStringAndOne(c, q) ==
    [c EXCEPT !.position = IF q < Len(input) THEN q + 1 ELSE q]

OverString(c, q) == [c EXCEPT !.position = q]

Skip(c) == Advanced(c, RunEnd(c.position, Space))

Token(kind, lexeme, c, q) ==
    [kind |-> kind, lexeme |-> lexeme, line |-> c.line, column |-> c.column,
     from |-> c.position, to |-> q]

(***************************************************************************)
(* One token, started at the cursor c.  Each operator gives the token; a   *)
(* text that the code refuses with a runtime_error gives Refused.          *)
(***************************************************************************)
Refused == [kind |-> "REFUSED"]

WordToken(c) ==
    LET q == RunEnd(c.position, WordChar)
        word == Substr(c.position, q - c.position)
    IN  Token(IF word \in Keywords THEN word ELSE "IDENTIFIER", word, c, q)

\* The text of an escape sequence; an unknown one keeps its backslash.
Unescaped(ch) ==
    CASE ch = "n" -> "\n"
      [] ch = "t" -> "\t"
      [] ch = "r" -> "\r"
      [] ch \in Quote \union {"\\"} -> ch
      [] OTHER -> "\\" \o ch

\* A character of a string whose text starts at p is escaped after an odd number
\* of backslashes.
Escaped(p, q) ==
    Cardinality({r \in p..(q - 1) : \A s \in r..(q - 1) : At(s) = "\\"}) % 2 = 1

StringValue(p, end) ==
    FoldLeft(LAMBDA value, q :
                 value \o (IF Escaped(p, q) THEN Unescaped(At(q))
                           ELSE IF At(q) = "\\" THEN "" ELSE At(q)),
             "", [i \in 1..(end - p) |-> p + i - 1])

\* A string ends at the quote it starts with; a line break before that, or the
\* end of the text, is refused.
StringToken(c) ==
    LET p == c.position + 1
        end == FirstOf({q \in Rest(p) : ~Escaped(p, q)
                                       /\ At(q) \in {At(c.position), "\n"}})
    IN  IF At(end) = At(c.position)
        THEN Token("STRING", StringValue(p, end), c, end + 1)
        ELSE Refused

\* Where the digits of a number that starts at p end: one dot belongs to the
\* number unless another dot follows it.
DecimalEnd(p) ==
    LET whole == RunEnd(p, Digit)
    IN  IF At(whole) = "." /\ At(whole + 1) # "."
        THEN RunEnd(whole + 1, Digit)
        ELSE whole

RadixDigits(p) ==
    IF At(p) # "0" THEN {}
    ELSE CASE At(p + 1) = "b" -> {"0", "1"}
           [] At(p + 1) = "o" -> Digit \ {"8", "9"}
           [] At(p + 1) = "x" -> HexDigit
           [] OTHER -> {}

NumberToken(c) ==
    LET first == IF At(c.position) = "-" THEN c.position + 1 ELSE c.position
        end == DecimalEnd(first)
        power == IF At(end + 1) \in {"-", "+"} THEN end + 2 ELSE end + 1
        upto(q) == Token("NUMBER", Substr(c.position, q - c.position), c, q)
    IN  IF RadixDigits(first) # {}
        THEN upto(RunEnd(first + 2, RadixDigits(first)))
        ELSE IF At(end) \notin {"e", "E"} THEN upto(end)
        ELSE IF At(power) \in Digit THEN upto(RunEnd(power, Digit))
        ELSE Refused

OperatorToken(c) ==
    LET p == c.position
        sized(n) == Token(Substr(p, n), Substr(p, n), c, p + n)
    IN  IF Ahead(p, 3, Operators3) THEN sized(3)
        ELSE IF Ahead(p, 2, Operators2) THEN sized(2)
        ELSE IF Ahead(p, 1, Operators1) THEN sized(1)
        ELSE Refused

(***************************************************************************)
(* The loop of tokenize().  scanAt is the cursor once skip_whitespace()    *)
(* has run; each action is one branch of the chain of conditions, taken   *)
(* in that order.                                                          *)
(***************************************************************************)
scanAt == Skip(cursor)
peeked == At(scanAt.position)

Running == lexing = "running" /\ scanAt.position < Len(input)

AtComment == peeked = "#" /\ Len(input) - scanAt.position > 1
AtString == peeked \in Quote
AtFrom == Ahead(scanAt.position, 4, {"from"})
pastFrom == Skip(Advanced(scanAt, scanAt.position + 4))
AtImport == AtFrom /\ At(pastFrom.position) = "\""
AtWord == peeked \in Alpha \union {"_"} /\ ~AtImport
AtNumber == \/ peeked \in Digit
            \/ peeked = "-" /\ At(scanAt.position + 1) \in Digit
AtOperator == peeked \in OperatorStart /\ ~AtNumber

Throw ==
    /\ lexing' = "threw"
    /\ UNCHANGED <<input, cursor, tokens, import_infos, importing>>

Emit(token, c) ==
    IF token = Refused
    THEN Throw
    ELSE /\ tokens' = Append(tokens, token)
         /\ cursor' = c
         /\ UNCHANGED <<input, import_infos, importing, lexing>>

SkipComment ==
    /\ Running /\ AtComment
    /\ cursor' = Advanced(scanAt,
                    FirstOf({q \in Rest(scanAt.position) : At(q) = "\n"}))
    /\ UNCHANGED <<input, tokens, import_infos, importing, lexing>>

LexString ==
    /\ Running /\ AtString
    /\ LET token == StringToken(scanAt)
       IN  Emit(token, IF token = Refused THEN scanAt
                       ELSE OverString(scanAt, token.to))

NoImport == [path |-> "", at |-> [position |-> 0, line |-> 1, column |-> 1],
             items |-> << >>]

(***************************************************************************)
(* from "module" import a, b as c;   A module string that is not followed  *)
(* by the word import leaves an UNKNOWN token only.                        *)
(***************************************************************************)
LexImport ==
    /\ Running /\ AtImport
    /\ LET path == StringToken(pastFrom)
           atImport == Skip(OverString(pastFrom, path.to))
       IN  IF path = Refused THEN Throw
           ELSE IF ~Ahead(atImport.position, 6, {"import"})
           THEN Emit(Token("UNKNOWN", path.lexeme, scanAt, atImport.position),
                     atImport)
           ELSE /\ lexing' = "importing"
                /\ importing' = [path |-> path.lexeme, at |-> scanAt,
                                 items |-> << >>]
                /\ cursor' = Skip(Advanced(atImport, atImport.position + 6))
                /\ UNCHANGED <<input, tokens, import_infos>>

\* The tokens and the import_infos entry of an import statement, at the end c of
\* its items; a semicolon behind them belongs to it.
EndImport(items, c, malformed) ==
    LET rest == Skip(c)
        end == IF At(rest.position) = ";"
               THEN Advanced(rest, rest.position + 1) ELSE rest
        token(kind, q) == Token(kind, importing.path, importing.at, q)
    IN  /\ tokens' = tokens
              \o (IF malformed THEN <<token("UNKNOWN", c.position)>> ELSE << >>)
              \o <<token("IMPORT", end.position)>>
        /\ import_infos' = Append(import_infos,
              [module_path |-> importing.path, imports |-> items])
        /\ cursor' = end
        /\ importing' = NoImport
        /\ lexing' = "running"
        /\ UNCHANGED input

AtItemsEnd == At(cursor.position) \in {"", ";"}

LexImportEnd ==
    /\ lexing = "importing" /\ AtItemsEnd
    /\ EndImport(importing.items, cursor, FALSE)

\* The item at the cursor, "a" or "b as c", and the cursor behind it.
itemName == WordToken(cursor)
pastName == Advanced(cursor, itemName.to)
afterName == Skip(pastName)
HasAlias == /\ Ahead(afterName.position, 2, {"as"})
            /\ At(afterName.position + 2) \notin Alpha \union Digit
aliasAt == Skip(Advanced(afterName, afterName.position + 2))
itemAlias == WordToken(aliasAt)
pastAlias == Advanced(aliasAt, itemAlias.to)
afterItem == IF HasAlias THEN Skip(pastAlias) ELSE afterName
itemsRead == Append(importing.items,
                    [name |-> itemName.lexeme,
                     alias |-> IF HasAlias THEN itemAlias.lexeme ELSE ""])

\* An item with a keyword for a name, or followed by anything but a comma or a
\* semicolon, ends the statement with an UNKNOWN token; the import counts all
\* the same.
LexImportItem ==
    /\ lexing = "importing" /\ ~AtItemsEnd
    /\ IF itemName.kind # "IDENTIFIER"
       THEN EndImport(importing.items, pastName, TRUE)
       ELSE IF HasAlias /\ itemAlias.kind # "IDENTIFIER"
       THEN EndImport(importing.items, pastAlias, TRUE)
       ELSE IF At(afterItem.position) \notin {",", "", ";"}
       THEN EndImport(itemsRead, afterItem, TRUE)
       ELSE /\ importing' = [path |-> importing.path, at |-> importing.at,
                             items |-> itemsRead]
            /\ cursor' = IF At(afterItem.position) = ","
                         THEN Skip(Advanced(afterItem, afterItem.position + 1))
                         ELSE afterItem
            /\ UNCHANGED <<input, tokens, import_infos, lexing>>

\* A word that starts with "from" has been looked past already: position and
\* column are restored, the lines crossed stay counted.
LexWord ==
    /\ Running /\ AtWord
    /\ LET c == [scanAt EXCEPT !.line = IF AtFrom THEN pastFrom.line ELSE @]
           token == WordToken(c)
       IN  Emit(token, Advanced(c, token.to))

LexNumber ==
    /\ Running /\ AtNumber
    /\ LET token == NumberToken(scanAt)
       IN  Emit(token, IF token = Refused THEN scanAt
                       ELSE Advanced(scanAt, token.to))

LexOperator ==
    /\ Running /\ AtOperator
    /\ LET token == OperatorToken(scanAt)
       IN  Emit(token, IF token = Refused THEN scanAt
                       ELSE Advanced(scanAt, token.to))

LexUnknown ==
    /\ Running
    /\ ~(AtComment \/ AtString \/ AtImport \/ AtWord \/ AtNumber \/ AtOperator)
    /\ LET past == Advanced(scanAt, scanAt.position + 1)
       IN  Emit(Token("UNKNOWN", peeked, scanAt, past.position), past)

LexEnd ==
    /\ lexing = "running" /\ ~Running
    /\ tokens' = Append(tokens, Token("EOF", "EOF", scanAt, scanAt.position))
    /\ cursor' = scanAt
    /\ lexing' = "done"
    /\ UNCHANGED <<input, import_infos, importing>>

\* The caller hands the tokens to the parser.
TokensTaken ==
    /\ lexing' = "over"
    /\ UNCHANGED <<input, cursor, tokens, import_infos, importing>>

LexerInit(text) ==
    /\ input = text
    /\ cursor = [position |-> 0, line |-> 1, column |-> 1]
    /\ tokens = << >>
    /\ import_infos = << >>
    /\ importing = NoImport
    /\ lexing = "running"

LexerNext ==
    \/ SkipComment \/ LexString
    \/ LexImport \/ LexImportItem \/ LexImportEnd
    \/ LexWord \/ LexNumber \/ LexOperator \/ LexUnknown \/ LexEnd

LexerSpec(text) == LexerInit(text) /\ [][LexerNext]_lexerVars

------------------------------------------------------------------------------

Covered == UNION {tokens[k].from..(tokens[k].to - 1) : k \in DOMAIN tokens}

InComment(p) ==
    \E q \in 0..p : /\ At(q) = "#" /\ q \notin Covered
                    /\ \A r \in q..p : At(r) # "\n"

\* The tokens lie one after the other in the text, with nothing between them
\* but white space and comments, and spell it: no character of a program is
\* lost or read twice.  (The two tokens of a malformed import share its text.)
LexemesTile ==
    lexing = "done" =>
      /\ \A k \in 2..Len(tokens) :
            \/ tokens[k - 1].to <= tokens[k].from
            \/ tokens[k].kind = "IMPORT" /\ tokens[k].from = tokens[k - 1].from
      /\ \A p \in 0..(Len(input) - 1) :
            p \in Covered \/ At(p) \in Space \/ InComment(p)
      /\ \A k \in DOMAIN tokens :
            tokens[k].kind \notin {"STRING", "IMPORT", "UNKNOWN", "EOF"} =>
              tokens[k].lexeme
                = Substr(tokens[k].from, tokens[k].to - tokens[k].from)

Newlines(p, q) == {r \in p..(q - 1) : At(r) = "\n"}

HoldsString(token) ==
    \E p \in token.from..(token.to - 1) :
        At(p) \in Quote /\ token.kind \in {"STRING", "IMPORT", "UNKNOWN"}

\* Where the line count goes wrong: the word "from" at the end of a line is
\* counted with the next line, and a line break inside a string is not counted.
LineDrift(token) ==
    \/ /\ token.kind \notin {"IMPORT", "UNKNOWN"}
       /\ Ahead(token.from, 4, {"from"})
       /\ Newlines(token.from, RunEnd(token.from + 4, Space)) # {}
    \/ HoldsString(token) /\ Newlines(token.from, token.to) # {}

\* The line and the column of a token, from which every message is placed, are
\* those of the text; the line up to the first drift, and the column up to the
\* first string or import of the line, over which it is not advanced.
PositionsTrue ==
    lexing = "done" => \A k \in DOMAIN tokens :
      LET before == Newlines(0, tokens[k].from)
          start == Max({-1} \union before)
      IN  /\ \/ tokens[k].line = 1 + Cardinality(before)
             \/ \E j \in 1..k : LineDrift(tokens[j])
          /\ \/ tokens[k].column = tokens[k].from - start
             \/ \E j \in 1..(k - 1) :
                   HoldsString(tokens[j]) /\ tokens[j].to > start
==============================================================================
