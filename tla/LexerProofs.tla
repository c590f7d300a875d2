----------------------------- MODULE LexerProofs -----------------------------
(***************************************************************************)
(* For every text, the tokens cover it and are placed where they are.      *)
(***************************************************************************)
EXTENDS Lexer, FiniteSetTheorems, TLAPS

\* An interval's subset has a least element: the lower bounds of T are an
\* interval that ends in T.
LEMMA LeastOfInterval ==
  ASSUME NEW a \in Int, NEW b \in Int, NEW T \in SUBSET (a..b), T # {}
  PROVE  \E x \in T : \A y \in T : x <= y
<1>p. PICK t \in T : t \in Int /\ a <= t /\ t <= b
  <2>1. \E t : t \in T
    OBVIOUS
  <2>2. \A t \in T : t \in a..b
    OBVIOUS
  <2> QED BY <2>1, <2>2
<1> DEFINE B == {x \in a..b : \A y \in T : x <= y}
<1>1. IsFiniteSet(a..b) /\ B \in SUBSET (a..b)
  BY FS_Interval
<1>2. IsFiniteSet(B) /\ Cardinality(B) \in Nat
  BY <1>1, FS_Subset, FS_CardinalityType
<1>0. PICK n : n = Cardinality(B)
  OBVIOUS
<1>3. n \in Nat /\ a \in B
  <2>1. a <= b /\ n \in Nat
    BY <1>p, <1>0, <1>2
  <2> QED BY <2>1
<1>4. ASSUME NEW x \in B PROVE x \in a..(a + n - 1)
  <2>1. a..x \in SUBSET B /\ x \in Int /\ x >= a
    BY <1>4
  <2>2. Cardinality(a..x) = x - a + 1
    BY <2>1, FS_Interval
  <2>3. Cardinality(a..x) <= n
    BY <2>1, <1>0, <1>2, FS_Subset
  <2> QED BY <2>1, <2>2, <2>3, <1>3
<1>5. B = a..(a + n - 1)
  <2>0. B \in SUBSET (a..(a + n - 1))
    BY <1>4
  <2>1. a + n - 1 \in Int /\ a <= a + n - 1
    <3>1. a \in a..(a + n - 1)
      BY <1>3, <1>4
    <3> QED BY <3>1, <1>3
  <2>2. IsFiniteSet(a..(a + n - 1)) /\ Cardinality(a..(a + n - 1)) = n
    BY <2>1, <1>3, FS_Interval
  <2> QED BY <2>0, <2>2, <1>0, FS_Subset
<1>6. a + n - 1 \in B /\ a + n \notin B
  <2>1. n \in Nat /\ a + n - 1 >= a /\ a + n \notin a..(a + n - 1)
    BY <1>3, <1>5
  <2>2. a + n - 1 \in a..(a + n - 1)
    BY <2>1
  <2> QED BY <2>1, <2>2, <1>5
<1>7. a + n - 1 \in T
  <2> SUFFICES ASSUME a + n - 1 \notin T PROVE FALSE
    OBVIOUS
  <2>1. \A y \in T : y \in Int /\ a + n - 1 <= y /\ y # a + n - 1
    BY <1>3, <1>6
  <2>2. \A y \in T : a + n <= y
    BY <2>1, <1>3
  <2>3. a + n \in a..b
    BY <2>2, <1>p, <1>3
  <2> QED BY <2>2, <2>3, <1>6
<1> QED BY <1>6, <1>7

LEMMA GreatestOfInterval ==
  ASSUME NEW a \in Int, NEW b \in Int, NEW T \in SUBSET (a..b), T # {}
  PROVE  \E x \in T : \A y \in T : x >= y
<1>p. PICK t \in T : t \in Int /\ a <= t /\ t <= b
  <2>1. \E t : t \in T
    OBVIOUS
  <2>2. \A t \in T : t \in a..b
    OBVIOUS
  <2> QED BY <2>1, <2>2
<1> DEFINE U == {x \in a..b : \A y \in T : x >= y}
<1>1. U \in SUBSET (a..b) /\ b \in U
  BY <1>p
<1>2. PICK u \in U : \A y \in U : u <= y
  BY <1>1, LeastOfInterval, U # {}
<1>3. u \in Int /\ u - 1 \notin U
  BY <1>2
<1>4. u \in T
  <2> SUFFICES ASSUME u \notin T PROVE u - 1 \in U
    BY <1>3
  <2>1. \A y \in T : y \in Int /\ u >= y /\ u # y
    BY <1>2
  <2>2. \A y \in T : u - 1 >= y
    BY <2>1, <1>3
  <2> QED BY <2>2, <1>2, <1>3, <1>p
<1> QED BY <1>2, <1>4

LEMMA MinOf ==
  ASSUME NEW a \in Int, NEW b \in Int, NEW T \in SUBSET (a..b), T # {}
  PROVE  Min(T) \in T /\ \A y \in T : Min(T) <= y
BY LeastOfInterval DEF Min

LEMMA MaxOf ==
  ASSUME NEW a \in Int, NEW b \in Int, NEW T \in SUBSET (a..b), T # {}
  PROVE  Max(T) \in T /\ \A y \in T : Max(T) >= y
BY GreatestOfInterval DEF Max

------------------------------------------------------------------------------
(* Positions in the text.  All that is asked of a text is that its length is a *)
(* natural number.                                                             *)

TextOK == Len(input) \in Nat

Cursors == [position : 0..Len(input), line : Nat, column : Int]

LEMMA FirstOfIn ==
  ASSUME TextOK, NEW p \in 0..Len(input), NEW S \in SUBSET Rest(p)
  PROVE  /\ FirstOf(S) \in p..Len(input)
         /\ \A s \in S : FirstOf(S) <= s
         /\ FirstOf(S) # Len(input) => FirstOf(S) \in S
<1> DEFINE T == S \union {Len(input)}
<1>1. p \in Int /\ Len(input) \in Int /\ p <= Len(input)
  BY DEF TextOK
<1>2. T \in SUBSET (p..Len(input)) /\ T # {}
  <2>1. Rest(p) \subseteq p..Len(input) /\ Len(input) \in p..Len(input)
    BY <1>1 DEF Rest
  <2> QED BY <2>1
<1>3. Min(T) \in T /\ \A y \in T : Min(T) <= y
  BY <1>1, <1>2, MinOf
<1> QED BY <1>2, <1>3 DEF FirstOf

LEMMA RunEndIn ==
  ASSUME TextOK, NEW p \in 0..Len(input), NEW C
  PROVE  /\ RunEnd(p, C) \in p..Len(input)
         /\ \A r \in p..(RunEnd(p, C) - 1) : At(r) \in C
<1> DEFINE S == {q \in Rest(p) : At(q) \notin C}
<1>1. S \in SUBSET Rest(p) /\ RunEnd(p, C) = FirstOf(S)
  BY DEF RunEnd
<1> HIDE DEF S
<1>2. /\ FirstOf(S) \in p..Len(input)
      /\ \A s \in S : FirstOf(S) <= s
  BY <1>1, FirstOfIn
<1>3. ASSUME NEW r \in p..(FirstOf(S) - 1) PROVE At(r) \in C
  <2>1. r \in Rest(p) /\ r < FirstOf(S)
    BY <1>2 DEF Rest, TextOK
  <2>2. r \notin S
    BY <2>1, <1>2 DEF Rest
  <2> QED BY <2>1, <2>2 DEF S
<1> QED BY <1>1, <1>2, <1>3

LEMMA NewlinesFinite ==
  ASSUME NEW p \in Int, NEW q \in Int
  PROVE  /\ Newlines(p, q) \in SUBSET (p..(q - 1))
         /\ IsFiniteSet(Newlines(p, q)) /\ Cardinality(Newlines(p, q)) \in Nat
<1>1. Newlines(p, q) \in SUBSET (p..(q - 1)) /\ IsFiniteSet(p..(q - 1))
  BY FS_Interval DEF Newlines
<1> QED BY <1>1, FS_Subset, FS_CardinalityType

\* Where advance() leaves the cursor.
LEMMA AdvancedIn ==
  ASSUME TextOK, NEW c \in Cursors, NEW q \in c.position..Len(input)
  PROVE  /\ Advanced(c, q) \in Cursors /\ Advanced(c, q).position = q
         /\ Advanced(c, q).line = c.line + Cardinality(Newlines(c.position, q))
         /\ Newlines(c.position, q) = {} =>
               Advanced(c, q).column = c.column + q - c.position
         /\ Newlines(c.position, q) # {} =>
               Advanced(c, q).column = q - Max(Newlines(c.position, q))
<1>0. PICK N : N = Newlines(c.position, q)
  OBVIOUS
<1>1. c.position \in Int /\ q \in Int /\ q \in 0..Len(input) /\ c.line \in Nat /\ c.column \in Int
  BY DEF Cursors, TextOK
<1>2. N \in SUBSET (c.position..(q - 1)) /\ Cardinality(N) \in Nat
  BY <1>0, <1>1, NewlinesFinite
<1>3. N # {} => Max(N) \in Int
  <2> SUFFICES ASSUME N # {} PROVE Max(N) \in Int
    OBVIOUS
  <2>1. c.position \in Int /\ q - 1 \in Int
    BY <1>1
  <2>2. Max(N) \in N
    BY <2>1, <1>2, MaxOf
  <2>3. N \subseteq Int
    BY <1>1, <1>2
  <2> QED BY <2>2, <2>3
<1>4. Advanced(c, q) = [position |-> q, line |-> c.line + Cardinality(N),
                        column |-> IF N = {} THEN c.column + q - c.position
                                             ELSE q - Max(N)]
  BY <1>0 DEF Advanced, Newlines
<1>5. /\ c.line + Cardinality(N) \in Nat
      /\ (IF N = {} THEN c.column + q - c.position ELSE q - Max(N)) \in Int
  BY <1>1, <1>2, <1>3
<1> QED BY <1>0, <1>1, <1>4, <1>5 DEF Cursors

LEMMA CursorIn ==
  ASSUME TextOK, NEW c \in Cursors
  PROVE  c.position \in Nat /\ c.position \in 0..Len(input) /\ c.line \in Nat
BY DEF TextOK, Cursors

LEMMA SkipIn ==
  ASSUME TextOK, NEW c \in Cursors
  PROVE  /\ Skip(c) \in Cursors /\ Skip(c).position \in c.position..Len(input)
         /\ Skip(c) = Advanced(c, Skip(c).position)
         /\ \A r \in c.position..(Skip(c).position - 1) : At(r) \in Space
<1>1. c.position \in 0..Len(input)
  BY DEF Cursors
<1>2. PICK q : q = RunEnd(c.position, Space)
  OBVIOUS
<1>3. q \in c.position..Len(input) /\ \A r \in c.position..(q - 1) : At(r) \in Space
  BY <1>1, <1>2, RunEndIn
<1>4. Skip(c) = Advanced(c, q)
  BY <1>2 DEF Skip
<1> QED BY <1>3, <1>4, AdvancedIn

LEMMA OverStringIn ==
  ASSUME TextOK, NEW c \in Cursors, NEW q \in 0..Len(input)
  PROVE  /\ OverString(c, q) \in Cursors /\ OverString(c, q).position = q
         /\ OverString(c, q).line = c.line /\ OverString(c, q).column = c.column
BY DEF OverString, Cursors

LEMMA AtInside ==
  ASSUME NEW p, At(p) # ""
  PROVE  p < Len(input)
BY Zenon DEF At

LEMMA AheadInside ==
  ASSUME TextOK, NEW p \in Nat, NEW n \in Nat, NEW W, Ahead(p, n, W)
  PROVE  p + n \in 0..Len(input)
BY DEF Ahead, TextOK

------------------------------------------------------------------------------
(* The tokenizers.                                                             *)

\* Token t starts at cursor c and ends in the text.
StartsAt(t, c) ==
  /\ t.from = c.position /\ t.line = c.line /\ t.column = c.column
  /\ t.to \in c.position..Len(input)

Spells(t) == t.lexeme = Substr(t.from, t.to - t.from)

LEMMA SubstrToken ==
  ASSUME NEW c \in Cursors, NEW q \in c.position..Len(input), NEW kind
  PROVE  LET t == Token(kind, Substr(c.position, q - c.position), c, q)
         IN  StartsAt(t, c) /\ Spells(t) /\ t.kind = kind /\ t.to = q
BY DEF Token, StartsAt, Spells

LEMMA WordTokenIn ==
  ASSUME TextOK, NEW c \in Cursors
  PROVE  /\ StartsAt(WordToken(c), c) /\ Spells(WordToken(c))
         /\ WordToken(c).kind \in Keywords \union {"IDENTIFIER"}
<1>1. c.position \in 0..Len(input)
  BY DEF Cursors
<1>2. PICK q : q = RunEnd(c.position, WordChar)
  OBVIOUS
<1>3. q \in c.position..Len(input)
  BY <1>1, <1>2, RunEndIn
<1>4. PICK word : word = Substr(c.position, q - c.position)
  OBVIOUS
<1>5. PICK kind \in Keywords \union {"IDENTIFIER"} :
        WordToken(c) = Token(kind, Substr(c.position, q - c.position), c, q)
  BY <1>2, <1>4 DEF WordToken
<1> QED BY <1>3, <1>5, SubstrToken

LEMMA StringTokenIn ==
  ASSUME TextOK, NEW c \in Cursors, At(c.position) \in Quote,
         StringToken(c) # Refused
  PROVE  /\ StartsAt(StringToken(c), c) /\ StringToken(c).kind = "STRING"
         /\ StringToken(c).to > c.position
<1>1. c.position \in Nat
  BY DEF Cursors, TextOK
<1>a. At(c.position) # ""
  BY Zenon DEF Quote
<1>b. c.position < Len(input)
  BY Zenon, <1>a, AtInside
<1>2. PICK p : p = c.position + 1
  OBVIOUS
<1>3. p \in 0..Len(input)
  BY <1>1, <1>2, <1>b DEF TextOK
<1>4. PICK S \in SUBSET Rest(p) :
        S = {q \in Rest(p) : ~Escaped(p, q) /\ At(q) \in {At(c.position), "\n"}}
  OBVIOUS
<1>5. PICK end : end = FirstOf(S)
  OBVIOUS
<1>6. end \in p..Len(input)
  BY <1>3, <1>5, FirstOfIn
<1>7. /\ At(end) = At(c.position)
      /\ StringToken(c) = Token("STRING", StringValue(p, end), c, end + 1)
  BY <1>2, <1>4, <1>5 DEF StringToken
<1>8. end < Len(input)
  BY Zenon, <1>a, <1>7, AtInside
<1>9. end + 1 \in c.position..Len(input) /\ end + 1 > c.position
  BY <1>1, <1>2, <1>3, <1>6, <1>8 DEF TextOK
<1> QED BY <1>7, <1>9 DEF StartsAt, Token

LEMMA DecimalEndIn ==
  ASSUME TextOK, NEW p \in 0..Len(input)
  PROVE  DecimalEnd(p) \in p..Len(input)
<1>1. PICK whole : whole = RunEnd(p, Digit)
  OBVIOUS
<1>2. whole \in p..Len(input) /\ whole \in Nat
  BY <1>1, RunEndIn DEF TextOK
<1>3. CASE At(whole) = "." /\ At(whole + 1) # "."
  <2>0. whole < Len(input)
    BY Zenon, <1>3, AtInside
  <2>1. whole + 1 \in 0..Len(input)
    BY <2>0, <1>2 DEF TextOK
  <2>2. RunEnd(whole + 1, Digit) \in (whole + 1)..Len(input)
    BY <2>1, RunEndIn
  <2>3. DecimalEnd(p) = RunEnd(whole + 1, Digit)
    BY <1>1, <1>3 DEF DecimalEnd
  <2> QED BY <2>2, <2>3, <1>2 DEF TextOK
<1>4. CASE ~(At(whole) = "." /\ At(whole + 1) # ".")
  <2>1. DecimalEnd(p) = whole
    BY <1>1, <1>4 DEF DecimalEnd
  <2> QED BY <2>1, <1>2
<1> QED BY <1>3, <1>4

LEMMA NumberTokenIn ==
  ASSUME TextOK, NEW c \in Cursors, NumberToken(c) # Refused
  PROVE  /\ StartsAt(NumberToken(c), c) /\ Spells(NumberToken(c))
         /\ NumberToken(c).kind = "NUMBER"
<1>1. c.position \in Nat /\ c.position \in 0..Len(input)
  BY DEF Cursors, TextOK
<1>2. PICK first : first = IF At(c.position) = "-" THEN c.position + 1 ELSE c.position
  OBVIOUS
<1>a. At(c.position) = "-" => c.position < Len(input)
  BY Zenon, AtInside
<1>3. first \in c.position..Len(input) /\ first \in 0..Len(input)
  BY <1>1, <1>2, <1>a DEF TextOK
<1>4. SUFFICES \E q \in c.position..Len(input) :
        NumberToken(c) = Token("NUMBER", Substr(c.position, q - c.position), c, q)
  BY SubstrToken
<1>5. PICK end : end = DecimalEnd(first)
  OBVIOUS
<1>6. end \in first..Len(input)
  BY <1>3, <1>5, DecimalEndIn
<1>7. PICK power : power = IF At(end + 1) \in {"-", "+"} THEN end + 2 ELSE end + 1
  OBVIOUS
<1>8. CASE RadixDigits(first) # {}
  <2>0. At(first + 1) \in {"b", "o", "x"}
    BY <1>8 DEF RadixDigits
  <2>1. first + 1 < Len(input)
    BY Zenon, <2>0, AtInside
  <2>2. first + 2 \in 0..Len(input)
    BY <2>1, <1>3 DEF TextOK
  <2>3. RunEnd(first + 2, RadixDigits(first)) \in (first + 2)..Len(input)
    BY <2>2, RunEndIn
  <2>4. RunEnd(first + 2, RadixDigits(first)) \in c.position..Len(input)
    BY <2>3, <1>1, <1>3 DEF TextOK
  <2> QED BY <2>4, <1>2, <1>8 DEF NumberToken
<1>9. CASE RadixDigits(first) = {} /\ At(end) \notin {"e", "E"}
  <2>1. end \in c.position..Len(input)
    BY <1>1, <1>3, <1>6 DEF TextOK
  <2> QED BY <2>1, <1>2, <1>5, <1>9 DEF NumberToken
<1>10. CASE RadixDigits(first) = {} /\ At(end) \in {"e", "E"}
  <2>1. end \in Nat
    BY <1>3, <1>6 DEF TextOK
  <2>a. end < Len(input)
    BY Zenon, <1>10, AtInside
  <2>2. At(end + 1) \in {"-", "+"} => end + 1 < Len(input)
    BY Zenon, AtInside
  <2>3. power \in 0..Len(input) /\ power >= end
    BY <2>1, <2>a, <2>2, <1>7 DEF TextOK
  <2>4. RunEnd(power, Digit) \in power..Len(input)
    BY <2>3, RunEndIn
  <2>5. RunEnd(power, Digit) \in c.position..Len(input)
    <3>1. end >= c.position
      BY <1>1, <1>3, <1>6 DEF TextOK
    <3> QED BY <3>1, <2>1, <2>3, <2>4, <1>1 DEF TextOK
  <2> QED BY <2>5, <1>2, <1>5, <1>7, <1>10 DEF NumberToken
<1> QED BY <1>8, <1>9, <1>10

LEMMA OperatorTokenIn ==
  ASSUME TextOK, NEW c \in Cursors, OperatorToken(c) # Refused
  PROVE  /\ StartsAt(OperatorToken(c), c) /\ Spells(OperatorToken(c))
         /\ OperatorToken(c).kind \in Operators3 \union Operators2 \union Operators1
<1>1. c.position \in Nat
  BY DEF Cursors, TextOK
<1>2. PICK n \in 1..3, W \in {Operators3, Operators2, Operators1} :
        /\ Ahead(c.position, n, W)
        /\ OperatorToken(c) = Token(Substr(c.position, n), Substr(c.position, n),
                                    c, c.position + n)
  BY DEF OperatorToken
<1>3. PICK q : q = c.position + n
  OBVIOUS
<1>4. q \in c.position..Len(input) /\ q - c.position = n
  BY <1>1, <1>2, <1>3, AheadInside DEF TextOK
<1>5. Substr(c.position, n) \in W
  BY <1>2 DEF Ahead
<1>6. OperatorToken(c) = Token(Substr(c.position, n),
                               Substr(c.position, q - c.position), c, q)
  BY <1>2, <1>3, <1>4
<1>7. /\ StartsAt(OperatorToken(c), c) /\ Spells(OperatorToken(c))
      /\ OperatorToken(c).kind = Substr(c.position, n)
  BY <1>4, <1>6, SubstrToken
<1> QED BY <1>2, <1>5, <1>7

------------------------------------------------------------------------------
(* Token sequences that tile a text up to a position.                          *)

Chr(text, p) == IF p < Len(text) THEN SubSeq(text, p + 1, p + 1) ELSE ""

Cov(ts) == UNION {ts[k].from..(ts[k].to - 1) : k \in DOMAIN ts}

Commented(text, from, p) ==
  \E q \in from..p : Chr(text, q) = "#" /\ \A r \in q..p : Chr(text, r) # "\n"

Spelled(text, t) ==
  t.kind \notin {"STRING", "IMPORT", "UNKNOWN", "EOF"} =>
    t.lexeme = SubSeq(text, t.from + 1, t.from + (t.to - t.from))

Spans(ts, p) ==
  \A k \in 1..Len(ts) :
    ts[k].from \in Nat /\ ts[k].to \in Nat /\ ts[k].from <= ts[k].to /\ ts[k].to <= p

Follows(t, u) == t.to <= u.from \/ (u.kind = "IMPORT" /\ u.from = t.from)

\* A comment that explains a position starts outside the tokens.
Explained(text, ts, p) ==
  \/ p \in Cov(ts) \/ Chr(text, p) \in Space
  \/ \E q \in 0..p : /\ Chr(text, q) = "#" /\ q \notin Cov(ts)
                    /\ \A r \in q..p : Chr(text, r) # "\n"

Tiling(text, ts, p) ==
  /\ \E T : ts \in Seq(T)
  /\ Spans(ts, p)
  /\ \A k \in 2..Len(ts) : Follows(ts[k - 1], ts[k])
  /\ \A q \in 0..(p - 1) : Explained(text, ts, q)
  /\ \A k \in 1..Len(ts) : Spelled(text, ts[k])

LEMMA AtIsChr == \A p : At(p) = Chr(input, p)
BY Zenon DEF At, Substr, Chr

LEMMA NoTokens == ASSUME NEW text PROVE Tiling(text, << >>, 0)
BY DEF Tiling, Spans

\* White space and comments extend what is tiled.
LEMMA TilingGrows ==
  ASSUME NEW text, NEW ts, NEW p \in Nat, Tiling(text, ts, p), NEW q \in Nat, p <= q,
         \A r \in p..(q - 1) : Chr(text, r) \in Space \/ Commented(text, p, r)
  PROVE  Tiling(text, ts, q)
<1>0. PICK T : ts \in Seq(T)
  BY DEF Tiling
<1>1. Spans(ts, p) /\ Len(ts) \in Nat /\ DOMAIN ts = 1..Len(ts)
  BY <1>0 DEF Tiling
<1>2. Spans(ts, q)
  BY <1>1 DEF Spans
<1>3. \A h \in Cov(ts) : h \in Int /\ h < p
  BY <1>1 DEF Cov, Spans
<1>4. ASSUME NEW r \in 0..(q - 1) PROVE Explained(text, ts, r)
  <2>1. CASE r < p
    BY <2>1 DEF Tiling
  <2>2. CASE r >= p /\ Chr(text, r) \in Space
    BY <2>2 DEF Explained
  <2>3. CASE r >= p /\ Commented(text, p, r)
    <3>1. PICK h \in p..r : Chr(text, h) = "#" /\ \A s \in h..r : Chr(text, s) # "\n"
      BY <2>3 DEF Commented
    <3>2. h \in 0..r /\ h \notin Cov(ts)
      BY <3>1, <1>3
    <3> QED BY <3>1, <3>2 DEF Explained
  <2>4. r < p \/ r \in p..(q - 1)
    OBVIOUS
  <2> QED BY <2>1, <2>2, <2>3, <2>4
<1> QED BY <1>2, <1>4 DEF Tiling

\* A token that starts where the tiling ends, or the IMPORT token that shares the
\* text of the one before.
LEMMA TilingAppend ==
  ASSUME NEW text, NEW ts, NEW p \in Nat, Tiling(text, ts, p), NEW t,
         t.from \in Nat, t.to \in Nat, t.from <= p, p <= t.to, Spelled(text, t),
         \/ t.from = p
         \/ /\ Len(ts) > 0 /\ t.kind = "IMPORT"
            /\ t.from = ts[Len(ts)].from /\ ts[Len(ts)].to = p
  PROVE  Tiling(text, Append(ts, t), t.to)
<1>0. PICK T : ts \in Seq(T)
  BY DEF Tiling
<1>1. PICK us, n : us = Append(ts, t) /\ n = Len(ts)
  OBVIOUS
<1>2. /\ n \in Nat /\ DOMAIN ts = 1..n /\ Len(us) = n + 1 /\ DOMAIN us = 1..(n + 1)
      /\ us[n + 1] = t /\ \A k \in 1..n : us[k] = ts[k]
  BY <1>0, <1>1
<1>3. us \in Seq(T \union {t})
  BY <1>0, <1>1
<1>4. Spans(ts, p)
  BY DEF Tiling
<1>5. Spans(us, t.to)
  <2> SUFFICES ASSUME NEW k \in 1..(n + 1)
               PROVE  /\ us[k].from \in Nat /\ us[k].to \in Nat
                      /\ us[k].from <= us[k].to /\ us[k].to <= t.to
    BY <1>2 DEF Spans
  <2>1. CASE k = n + 1
    BY <2>1, <1>2
  <2>2. CASE k \in 1..n
    BY <2>2, <1>1, <1>2, <1>4 DEF Spans
  <2> QED BY <2>1, <2>2, <1>2
<1>6. ASSUME NEW k \in 2..(n + 1) PROVE Follows(us[k - 1], us[k])
  <2>1. CASE k = n + 1
    <3>1. us[k] = t /\ us[k - 1] = ts[n] /\ n \in 1..n /\ k - 1 = n
      BY <2>1, <1>2
    <3>2. ts[n].to <= p /\ ts[n].to \in Nat
      BY <3>1, <1>1, <1>4 DEF Spans
    <3> QED BY <3>1, <3>2, <1>1 DEF Follows
  <2>2. CASE k \in 2..n
    <3>1. us[k] = ts[k] /\ us[k - 1] = ts[k - 1]
      BY <2>2, <1>2
    <3> QED BY <3>1, <2>2, <1>1 DEF Tiling
  <2> QED BY <2>1, <2>2, <1>2
<1>7. Cov(us) = Cov(ts) \union t.from..(t.to - 1)
  BY <1>2 DEF Cov
<1>8. ASSUME NEW q \in Cov(us), q \in Int, q < p PROVE q \in Cov(ts)
  <2>1. CASE q \in Cov(ts)
    BY <2>1
  <2>2. CASE q \in t.from..(t.to - 1)
    <3>1. /\ n \in DOMAIN ts /\ t.from = ts[n].from /\ ts[n].to = p
      BY <2>2, <1>1, <1>2, <1>8
    <3>2. q \in ts[n].from..(ts[n].to - 1)
      BY <2>2, <3>1, <1>8
    <3> QED BY <3>1, <3>2 DEF Cov
  <2> QED BY <2>1, <2>2, <1>7, <1>8
<1>9. ASSUME NEW q \in 0..(t.to - 1) PROVE Explained(text, us, q)
  <2>1. CASE q >= p
    <3>1. q \in t.from..(t.to - 1)
      BY <2>1
    <3> QED BY <3>1, <1>7 DEF Explained
  <2>2. CASE q < p
    <3>1. Explained(text, ts, q)
      BY <2>2 DEF Tiling
    <3>2. CASE q \in Cov(ts)
      BY <3>2, <1>7 DEF Explained
    <3>3. CASE Chr(text, q) \in Space
      BY <3>3 DEF Explained
    <3>4. ASSUME NEW h \in 0..q, Chr(text, h) = "#" /\ h \notin Cov(ts),
                 \A r \in h..q : Chr(text, r) # "\n"
          PROVE  Explained(text, us, q)
      <4>1. h \notin Cov(us)
        BY <2>2, <3>4, <1>8
      <4> QED BY <4>1, <3>4 DEF Explained
    <3> QED BY <3>1, <3>2, <3>3, <3>4 DEF Explained
  <2> QED BY <2>1, <2>2
<1>10. ASSUME NEW k \in 1..(n + 1) PROVE Spelled(text, us[k])
  <2>1. CASE k = n + 1
    BY <2>1, <1>2
  <2>2. CASE k \in 1..n
    BY <2>2, <1>1, <1>2 DEF Tiling
  <2> QED BY <2>1, <2>2, <1>2
<1> QED BY <1>1, <1>2, <1>3, <1>5, <1>6, <1>9, <1>10 DEF Tiling

------------------------------------------------------------------------------
(* The loop of tokenize() keeps what is before the cursor tiled.  In the middle *)
(* of an import statement that is what is before the statement.                *)

TileInv ==
  /\ TextOK
  /\ lexing \in {"running", "importing"} => cursor \in Cursors
  /\ lexing = "running" => Tiling(input, tokens, cursor.position)
  /\ lexing = "importing" =>
       /\ importing.at \in Cursors /\ importing.at.position <= cursor.position
       /\ Tiling(input, tokens, importing.at.position)
  /\ lexing = "done" => Tiling(input, tokens, Len(input))

LEMMA ScanAtIn ==
  ASSUME TileInv, lexing = "running"
  PROVE  /\ cursor \in Cursors
         /\ scanAt \in Cursors /\ scanAt.position \in cursor.position..Len(input)
         /\ scanAt.position \in Nat /\ scanAt = Advanced(cursor, scanAt.position)
         /\ Tiling(input, tokens, scanAt.position)
<1>1. /\ TextOK /\ cursor \in Cursors /\ cursor.position \in Nat
      /\ Tiling(input, tokens, cursor.position)
  BY DEF TileInv, Cursors
<1>2. /\ scanAt \in Cursors /\ scanAt.position \in cursor.position..Len(input)
      /\ scanAt = Advanced(cursor, scanAt.position)
      /\ \A r \in cursor.position..(scanAt.position - 1) : At(r) \in Space
  BY <1>1, SkipIn DEF scanAt
<1>3. scanAt.position \in Nat /\ cursor.position <= scanAt.position
  BY <1>1, <1>2 DEF TextOK
<1>4. \A r \in cursor.position..(scanAt.position - 1) : Chr(input, r) \in Space
  BY <1>2, AtIsChr
<1>5. Tiling(input, tokens, scanAt.position)
  BY <1>1, <1>3, <1>4, TilingGrows
<1> QED BY <1>1, <1>2, <1>3, <1>5

LEMMA PastFromIn ==
  ASSUME TileInv, lexing = "running", AtFrom
  PROVE  /\ pastFrom \in Cursors /\ pastFrom.position >= scanAt.position + 4
         /\ \E c \in Cursors : /\ c = Advanced(scanAt, scanAt.position + 4)
                             /\ c.position = scanAt.position + 4
                             /\ pastFrom = Advanced(c, pastFrom.position)
                             /\ pastFrom.position = RunEnd(scanAt.position + 4, Space)
<1>1. TextOK /\ scanAt \in Cursors /\ scanAt.position \in Nat
  BY ScanAtIn DEF TileInv
<1>2. scanAt.position + 4 \in scanAt.position..Len(input)
  BY <1>1, AheadInside DEF AtFrom, TextOK
<1>3. PICK c : c = Advanced(scanAt, scanAt.position + 4)
  OBVIOUS
<1>4. c \in Cursors /\ c.position = scanAt.position + 4
  BY <1>1, <1>2, <1>3, AdvancedIn
<1>5. pastFrom = Skip(c)
  BY <1>3 DEF pastFrom
<1>6. /\ pastFrom \in Cursors /\ pastFrom.position \in c.position..Len(input)
      /\ pastFrom = Advanced(c, pastFrom.position)
  BY <1>1, <1>4, <1>5, SkipIn
<1>7. /\ RunEnd(c.position, Space) \in c.position..Len(input)
      /\ pastFrom = Advanced(c, RunEnd(c.position, Space))
  BY <1>1, <1>4, <1>5, RunEndIn DEF Skip, Cursors
<1>8. pastFrom.position = RunEnd(c.position, Space)
  BY <1>1, <1>4, <1>7, AdvancedIn
<1> QED BY <1>1, <1>3, <1>4, <1>6, <1>8 DEF TextOK

LEMMA EmitTile ==
  ASSUME TileInv, lexing = "running", NEW t, NEW c \in Cursors, NEW p \in Nat, Emit(t, c),
         Tiling(input, tokens, p),
         t # Refused => /\ t.from = p /\ t.to = c.position /\ t.from <= t.to
                        /\ Spelled(input, t)
  PROVE  TileInv'
<1>1. CASE t = Refused
  BY <1>1 DEF Emit, Throw, TileInv, TextOK
<1>2. CASE t # Refused
  <2>1. /\ tokens' = Append(tokens, t) /\ cursor' = c
        /\ UNCHANGED <<input, import_infos, importing, lexing>>
    BY <1>2 DEF Emit
  <2>2. t.to \in Nat
    BY <1>2 DEF Cursors, TileInv, TextOK
  <2>3. Tiling(input, Append(tokens, t), c.position)
    BY <1>2, <2>2, TilingAppend
  <2>4. c \in Cursors'
    BY <2>1 DEF Cursors
  <2> QED BY <2>1, <2>3, <2>4 DEF TileInv, TextOK
<1> QED BY <1>1, <1>2

LEMMA SkipCommentTile == ASSUME TileInv, SkipComment PROVE TileInv'
<1>1. /\ TextOK /\ lexing = "running" /\ At(scanAt.position) = "#"
      /\ scanAt.position < Len(input)
  BY DEF TileInv, SkipComment, Running, AtComment, peeked
<1>2. PICK p : p = scanAt.position
  OBVIOUS
<1>3. /\ scanAt \in Cursors /\ p \in Nat /\ p \in 0..Len(input) /\ Tiling(input, tokens, p)
  BY <1>1, <1>2, ScanAtIn DEF Cursors
<1>4. PICK S \in SUBSET Rest(p) : S = {q \in Rest(p) : At(q) = "\n"}
  OBVIOUS
<1>5. PICK q : q = FirstOf(S)
  OBVIOUS
<1>6. q \in p..Len(input) /\ \A s \in S : q <= s
  BY <1>1, <1>3, <1>5, FirstOfIn
<1>7. ASSUME NEW r \in p..(q - 1) PROVE At(r) # "\n"
  <2>1. r \in Rest(p) /\ r < q
    BY <1>1, <1>3, <1>6 DEF Rest, TextOK
  <2>2. r \notin S
    BY <2>1, <1>3, <1>6 DEF Rest, TextOK
  <2> QED BY <2>1, <2>2, <1>4
<1>8. \A r \in p..(q - 1) : Chr(input, r) # "\n"
  BY <1>7, AtIsChr
<1>9. \A r \in p..(q - 1) : Commented(input, p, r)
  <2>1. Chr(input, p) = "#"
    BY <1>1, <1>2, AtIsChr
  <2> QED BY <2>1, <1>3, <1>6, <1>8 DEF Commented, TextOK
<1>10. q \in Nat /\ p <= q
  BY <1>1, <1>3, <1>6 DEF TextOK
<1>11. Tiling(input, tokens, q)
  BY <1>3, <1>9, <1>10, TilingGrows
<1>12. /\ cursor' = Advanced(scanAt, q)
       /\ UNCHANGED <<input, tokens, import_infos, importing, lexing>>
  BY <1>2, <1>4, <1>5 DEF SkipComment
<1>13. cursor' \in Cursors /\ cursor'.position = q
  BY <1>1, <1>2, <1>3, <1>6, <1>12, AdvancedIn
<1> QED BY <1>1, <1>11, <1>12, <1>13 DEF TileInv, TextOK, Cursors

LEMMA SpelledToken ==
  ASSUME NEW t, Spells(t) \/ t.kind \in {"STRING", "IMPORT", "UNKNOWN", "EOF"}
  PROVE  Spelled(input, t)
<1>1. Substr(t.from, t.to - t.from) = SubSeq(input, t.from + 1, t.from + (t.to - t.from))
  BY DEF Substr
<1> QED BY <1>1 DEF Spells, Spelled

LEMMA LexStringTile == ASSUME TileInv, LexString PROVE TileInv'
<1>1. TextOK /\ lexing = "running" /\ At(scanAt.position) \in Quote
  BY DEF TileInv, LexString, Running, AtString, peeked
<1>2. scanAt \in Cursors /\ scanAt.position \in Nat /\ Tiling(input, tokens, scanAt.position)
  BY <1>1, ScanAtIn
<1>3. PICK t : t = StringToken(scanAt)
  OBVIOUS
<1>4. PICK c : c = IF t = Refused THEN scanAt ELSE OverString(scanAt, t.to)
  OBVIOUS
<1>5. Emit(t, c)
  BY <1>3, <1>4 DEF LexString
<1>6. t # Refused => /\ StartsAt(t, scanAt) /\ t.kind = "STRING"
  BY <1>1, <1>2, <1>3, StringTokenIn
<1>7. t # Refused => /\ t.from = scanAt.position /\ t.to \in 0..Len(input) /\ t.from <= t.to
  BY <1>1, <1>2, <1>6 DEF StartsAt, TextOK
<1>8. c \in Cursors /\ (t # Refused => c.position = t.to)
  BY <1>1, <1>2, <1>4, <1>7, OverStringIn
<1>9. t # Refused => Spelled(input, t)
  BY <1>6, SpelledToken
<1> QED BY <1>1, <1>2, <1>5, <1>7, <1>8, <1>9, EmitTile

\* Words, numbers and operators: the cursor advances over the token.
LEMMA AdvanceTile ==
  ASSUME TileInv, lexing = "running", NEW t, NEW a \in Cursors, a.position = scanAt.position,
         NEW c, c = IF t = Refused THEN scanAt ELSE Advanced(a, t.to), Emit(t, c),
         t # Refused => /\ StartsAt(t, a)
                        /\ Spells(t) \/ t.kind \in {"STRING", "IMPORT", "UNKNOWN", "EOF"}
  PROVE  TileInv'
<1>1. /\ TextOK /\ scanAt \in Cursors /\ scanAt.position \in Nat
      /\ Tiling(input, tokens, scanAt.position)
  BY ScanAtIn DEF TileInv
<1>2. t # Refused => /\ t.from = scanAt.position /\ t.to \in a.position..Len(input)
                     /\ t.from <= t.to
  BY <1>1 DEF StartsAt, TextOK
<1>3. c \in Cursors /\ (t # Refused => c.position = t.to)
  BY <1>1, <1>2, AdvancedIn
<1>4. t # Refused => Spelled(input, t)
  BY SpelledToken
<1> QED BY <1>1, <1>2, <1>3, <1>4, EmitTile

LEMMA LexWordTile == ASSUME TileInv, LexWord PROVE TileInv'
<1>1. TextOK /\ lexing = "running"
  BY DEF TileInv, LexWord, Running
<1>2. PICK a : a = [scanAt EXCEPT !.line = IF AtFrom THEN pastFrom.line ELSE @]
  OBVIOUS
<1>3. PICK t : t = WordToken(a)
  OBVIOUS
<1>4. a \in Cursors /\ a.position = scanAt.position
  <2>1. scanAt \in Cursors
    BY <1>1, ScanAtIn
  <2>2. AtFrom => pastFrom \in Cursors
    BY <1>1, PastFromIn
  <2> QED BY <2>1, <2>2, <1>2 DEF Cursors
<1>5. Emit(t, Advanced(a, t.to))
  BY <1>2, <1>3 DEF LexWord
<1>6. StartsAt(t, a) /\ Spells(t) /\ t # Refused
  <2>1. StartsAt(t, a) /\ Spells(t) /\ t.kind \in Keywords \union {"IDENTIFIER"}
    BY <1>1, <1>3, <1>4, WordTokenIn
  <2>2. t.kind # "REFUSED"
    BY Zenon, <2>1 DEF Keywords
  <2> QED BY <2>1, <2>2 DEF Refused
<1>7. PICK c : c = Advanced(a, t.to)
  OBVIOUS
<1> QED BY <1>1, <1>4, <1>5, <1>6, <1>7, AdvanceTile

LEMMA LexNumberTile == ASSUME TileInv, LexNumber PROVE TileInv'
<1>1. TextOK /\ lexing = "running"
  BY DEF TileInv, LexNumber, Running
<1>2. PICK t : t = NumberToken(scanAt)
  OBVIOUS
<1>3. PICK c : c = IF t = Refused THEN scanAt ELSE Advanced(scanAt, t.to)
  OBVIOUS
<1>4. Emit(t, c)
  BY <1>2, <1>3 DEF LexNumber
<1>5. scanAt \in Cursors
  BY <1>1, ScanAtIn
<1>6. t # Refused => StartsAt(t, scanAt) /\ Spells(t)
  BY <1>1, <1>2, <1>5, NumberTokenIn
<1> QED BY <1>1, <1>3, <1>4, <1>5, <1>6, AdvanceTile

LEMMA LexOperatorTile == ASSUME TileInv, LexOperator PROVE TileInv'
<1>1. TextOK /\ lexing = "running"
  BY DEF TileInv, LexOperator, Running
<1>2. PICK t : t = OperatorToken(scanAt)
  OBVIOUS
<1>3. PICK c : c = IF t = Refused THEN scanAt ELSE Advanced(scanAt, t.to)
  OBVIOUS
<1>4. Emit(t, c)
  BY <1>2, <1>3 DEF LexOperator
<1>5. scanAt \in Cursors
  BY <1>1, ScanAtIn
<1>6. t # Refused => StartsAt(t, scanAt) /\ Spells(t)
  BY <1>1, <1>2, <1>5, OperatorTokenIn
<1> QED BY <1>1, <1>3, <1>4, <1>5, <1>6, AdvanceTile

LEMMA LexUnknownTile == ASSUME TileInv, LexUnknown PROVE TileInv'
<1>1. TextOK /\ lexing = "running" /\ scanAt.position < Len(input)
  BY DEF TileInv, LexUnknown, Running
<1>2. scanAt \in Cursors /\ scanAt.position \in Nat
  BY <1>1, ScanAtIn
<1>3. scanAt.position + 1 \in scanAt.position..Len(input)
  BY <1>1, <1>2 DEF TextOK
<1>4. PICK past : past = Advanced(scanAt, scanAt.position + 1)
  OBVIOUS
<1>5. past.position = scanAt.position + 1
  BY <1>1, <1>2, <1>3, <1>4, AdvancedIn
<1>6. PICK t : t = Token("UNKNOWN", peeked, scanAt, past.position)
  OBVIOUS
<1>7. Emit(t, past) /\ past = Advanced(scanAt, t.to)
  BY <1>4, <1>5, <1>6 DEF LexUnknown, Token
<1>8. StartsAt(t, scanAt) /\ t.kind = "UNKNOWN" /\ t # Refused
  BY <1>3, <1>5, <1>6 DEF Token, StartsAt, Refused
<1> QED BY <1>1, <1>2, <1>7, <1>8, AdvanceTile

LEMMA LexEndTile == ASSUME TileInv, LexEnd PROVE TileInv'
<1>1. /\ TextOK /\ lexing = "running" /\ ~(scanAt.position < Len(input))
      /\ lexing' = "done" /\ UNCHANGED <<input, import_infos>>
      /\ tokens' = Append(tokens, Token("EOF", "EOF", scanAt, scanAt.position))
  BY DEF TileInv, LexEnd, Running
<1>2. /\ scanAt.position \in Nat /\ scanAt.position = Len(input)
      /\ Tiling(input, tokens, scanAt.position)
  BY <1>1, ScanAtIn DEF Cursors, TextOK
<1>3. PICK t : t = Token("EOF", "EOF", scanAt, scanAt.position)
  OBVIOUS
<1>4. t.from = scanAt.position /\ t.to = scanAt.position /\ t.kind = "EOF"
  BY <1>3 DEF Token
<1>5. Spelled(input, t)
  BY <1>4, SpelledToken
<1>6. Tiling(input, Append(tokens, t), t.to)
  BY <1>2, <1>4, <1>5, TilingAppend
<1> QED BY <1>1, <1>2, <1>3, <1>4, <1>6 DEF TileInv, TextOK

------------------------------------------------------------------------------
(* Import statements.                                                          *)

\* The module string of an import statement, and the cursor behind it.
LEMMA ImportPathIn ==
  ASSUME TileInv, lexing = "running", AtImport, NEW path, path = StringToken(pastFrom),
         path # Refused,
         NEW rest, rest = Skip(OverString(pastFrom, path.to))
  PROVE  /\ StartsAt(path, pastFrom) /\ path.to > pastFrom.position
         /\ OverString(pastFrom, path.to) \in Cursors /\ rest \in Cursors
         /\ rest.position >= path.to /\ rest.position >= scanAt.position
         /\ pastFrom.position >= scanAt.position /\ path.to \in Nat
<1>1. TextOK /\ AtFrom /\ At(pastFrom.position) \in Quote
  BY DEF TileInv, AtImport, Quote
<1>2. pastFrom \in Cursors /\ pastFrom.position >= scanAt.position + 4
  BY <1>1, PastFromIn
<1>3. scanAt.position \in Nat
  BY ScanAtIn
<1>4. StartsAt(path, pastFrom) /\ path.to > pastFrom.position
  BY <1>1, <1>2, StringTokenIn
<1>5. path.to \in 0..Len(input) /\ path.to \in Nat
  BY <1>1, <1>2, <1>4 DEF StartsAt, Cursors, TextOK
<1>6. PICK c : c = OverString(pastFrom, path.to)
  OBVIOUS
<1>7. c \in Cursors /\ c.position = path.to
  BY <1>1, <1>2, <1>5, <1>6, OverStringIn
<1>8. rest \in Cursors /\ rest.position \in c.position..Len(input)
  BY <1>1, <1>6, <1>7, SkipIn
<1>9. pastFrom.position \in Nat
  BY <1>1, <1>2 DEF Cursors, TextOK
<1> QED BY <1>1, <1>2, <1>3, <1>4, <1>5, <1>6, <1>7, <1>8, <1>9 DEF TextOK

LEMMA LexImportTile == ASSUME TileInv, LexImport PROVE TileInv'
<1>1. TextOK /\ lexing = "running" /\ AtImport
  BY DEF TileInv, LexImport, Running
<1>2. scanAt \in Cursors /\ scanAt.position \in Nat /\ Tiling(input, tokens, scanAt.position)
  BY <1>1, ScanAtIn
<1>3. PICK path : path = StringToken(pastFrom)
  OBVIOUS
<1>4. PICK rest : rest = Skip(OverString(pastFrom, path.to))
  OBVIOUS
<1>5. CASE path = Refused
  <2>1. Throw
    BY <1>3, <1>5 DEF LexImport
  <2> QED BY <2>1 DEF Throw, TileInv, TextOK
<1>6. CASE path # Refused /\ ~Ahead(rest.position, 6, {"import"})
  <2>1. rest \in Cursors /\ rest.position >= scanAt.position
    BY <1>1, <1>3, <1>4, <1>6, ImportPathIn
  <2>2. PICK t : t = Token("UNKNOWN", path.lexeme, scanAt, rest.position)
    OBVIOUS
  <2>3. Emit(t, rest)
    BY <1>3, <1>4, <1>6, <2>2 DEF LexImport
  <2>4. t.from = scanAt.position /\ t.to = rest.position /\ t.kind = "UNKNOWN"
    BY <2>2 DEF Token
  <2>5. Spelled(input, t)
    BY <2>4, SpelledToken
  <2>6. t.from <= t.to
    BY <2>1, <2>4, <1>2
  <2> QED BY <1>1, <1>2, <2>1, <2>3, <2>4, <2>5, <2>6, EmitTile
<1>7. CASE path # Refused /\ Ahead(rest.position, 6, {"import"})
  <2>1. rest \in Cursors /\ rest.position >= scanAt.position
    BY <1>1, <1>3, <1>4, <1>7, ImportPathIn
  <2>2. rest.position \in Nat /\ rest.position + 6 \in rest.position..Len(input)
    BY <1>1, <1>7, <2>1, AheadInside DEF Cursors, TextOK
  <2>3. PICK c : c = Advanced(rest, rest.position + 6)
    OBVIOUS
  <2>4. c \in Cursors /\ c.position = rest.position + 6
    BY <1>1, <2>1, <2>2, <2>3, AdvancedIn
  <2>5. /\ lexing' = "importing"
        /\ importing' = [path |-> path.lexeme, at |-> scanAt, items |-> << >>]
        /\ cursor' = Skip(c)
        /\ UNCHANGED <<input, tokens, import_infos>>
    BY <1>3, <1>4, <1>7, <2>3 DEF LexImport
  <2>6. cursor' \in Cursors /\ cursor'.position \in c.position..Len(input)
    BY <1>1, <2>4, <2>5, SkipIn
  <2>7. cursor'.position >= scanAt.position
    BY <1>1, <1>2, <2>1, <2>2, <2>4, <2>6 DEF TextOK
  <2>8. importing'.at = scanAt
    BY <2>5
  <2> QED BY <1>1, <1>2, <2>5, <2>6, <2>7, <2>8 DEF TileInv, TextOK, Cursors
<1> QED BY <1>5, <1>6, <1>7

\* The tokens that an import statement leaves.
LEMMA EndImportTokens ==
  ASSUME TextOK, NEW c \in Cursors, NEW items, NEW malformed, EndImport(items, c, malformed)
  PROVE  \E end \in Cursors :
           /\ end.position \in c.position..Len(input)
           /\ \/ end = Skip(c)
              \/ end = Advanced(Skip(c), Skip(c).position + 1)
           /\ cursor' = end /\ importing' = NoImport /\ lexing' = "running"
           /\ UNCHANGED input
           /\ tokens' = tokens
                \o (IF malformed
                    THEN <<Token("UNKNOWN", importing.path, importing.at, c.position)>>
                    ELSE << >>)
                \o <<Token("IMPORT", importing.path, importing.at, end.position)>>
<1>1. PICK rest : rest = Skip(c)
  OBVIOUS
<1>2. rest \in Cursors /\ rest.position \in c.position..Len(input)
  BY <1>1, SkipIn
<1>3. rest.position \in Nat /\ c.position \in Nat /\ rest.position >= c.position
  BY <1>2 DEF Cursors, TextOK
<1>4. PICK end : end = IF At(rest.position) = ";"
                       THEN Advanced(rest, rest.position + 1) ELSE rest
  OBVIOUS
<1>5. /\ cursor' = end /\ importing' = NoImport /\ lexing' = "running"
      /\ UNCHANGED input
      /\ tokens' = tokens
           \o (IF malformed
               THEN <<Token("UNKNOWN", importing.path, importing.at, c.position)>>
               ELSE << >>)
           \o <<Token("IMPORT", importing.path, importing.at, end.position)>>
  BY Zenon, <1>1, <1>4 DEF EndImport
<1>6. /\ end \in Cursors /\ end.position \in c.position..Len(input)
      /\ \/ end = rest
         \/ end = Advanced(rest, rest.position + 1)
  <2>1. CASE rest.position < Len(input)
    <3>1. rest.position + 1 \in rest.position..Len(input)
      BY <2>1, <1>3 DEF TextOK
    <3>2. PICK a : a = Advanced(rest, rest.position + 1)
      OBVIOUS
    <3>3. a \in Cursors /\ a.position = rest.position + 1
      BY <3>1, <3>2, <1>2, AdvancedIn
    <3>4. end = a \/ end = rest
      BY Zenon, <3>2, <1>4
    <3> QED BY <3>1, <3>2, <3>3, <3>4, <1>2, <1>3 DEF TextOK
  <2>2. CASE ~(rest.position < Len(input))
    <3>1. At(rest.position) # ";"
      BY Zenon, <2>2, AtInside
    <3>2. end = rest
      BY Zenon, <3>1, <1>4
    <3> QED BY <3>2, <1>2
  <2> QED BY <2>1, <2>2
<1> QED BY <1>1, <1>5, <1>6

LEMMA EndImportTile ==
  ASSUME TileInv, lexing = "importing", NEW items, NEW c \in Cursors, NEW malformed,
         c.position >= cursor.position, EndImport(items, c, malformed)
  PROVE  TileInv'
<1>1. PICK p : p = importing.at.position
  OBVIOUS
<1>2. /\ TextOK /\ p \in Nat /\ c.position \in Nat /\ p <= c.position
      /\ Tiling(input, tokens, p)
  BY <1>1 DEF TileInv, TextOK, Cursors
<1>3. PICK end \in Cursors :
           /\ end.position \in c.position..Len(input)
           /\ \/ end = Skip(c)
              \/ end = Advanced(Skip(c), Skip(c).position + 1)
           /\ cursor' = end /\ importing' = NoImport /\ lexing' = "running"
           /\ UNCHANGED input
           /\ tokens' = tokens
                \o (IF malformed
                    THEN <<Token("UNKNOWN", importing.path, importing.at, c.position)>>
                    ELSE << >>)
                \o <<Token("IMPORT", importing.path, importing.at, end.position)>>
  BY Zenon, <1>2, EndImportTokens
<1>4. PICK u : u = Token("UNKNOWN", importing.path, importing.at, c.position)
  OBVIOUS
<1>5. PICK t : t = Token("IMPORT", importing.path, importing.at, end.position)
  OBVIOUS
<1>6. /\ u.from = p /\ u.to = c.position /\ u.kind = "UNKNOWN"
      /\ t.from = p /\ t.to = end.position /\ t.kind = "IMPORT"
  BY <1>1, <1>4, <1>5 DEF Token
<1>7. Spelled(input, u) /\ Spelled(input, t)
  BY <1>6, SpelledToken
<1>8. end.position \in Nat /\ c.position <= end.position
  BY <1>2, <1>3 DEF TextOK
<1>9. PICK T : tokens \in Seq(T)
  BY <1>2 DEF Tiling
<1>10. Tiling(input, tokens', end.position)
  <2>1. CASE malformed
    <3>1. PICK us : us = Append(tokens, u)
      OBVIOUS
    <3>2. Tiling(input, us, c.position)
      BY <3>1, <1>2, <1>6, <1>7, TilingAppend
    <3>3. us \in Seq(T \union {u}) /\ Len(us) > 0 /\ us[Len(us)] = u
      BY <3>1, <1>9
    <3>4. Tiling(input, Append(us, t), t.to)
      BY <3>2, <3>3, <1>2, <1>6, <1>7, <1>8, TilingAppend
    <3>5. tokens' = Append(us, t)
      <4>1. tokens' = tokens \o <<u>> \o <<t>>
        BY <2>1, <1>3, <1>4, <1>5
      <4>2. tokens \o <<u>> = us
        BY <3>1, <1>9
      <4>3. tokens' = us \o <<t>>
        BY <4>1, <4>2
      <4> QED BY <4>3, <3>3
    <3> QED BY <3>4, <3>5, <1>6
  <2>2. CASE ~malformed
    <3>1. Tiling(input, Append(tokens, t), t.to)
      BY <1>2, <1>6, <1>7, <1>8, TilingAppend
    <3>2. tokens' = Append(tokens, t)
      <4>1. tokens' = tokens \o << >> \o <<t>>
        BY <2>2, <1>3, <1>5
      <4>2. tokens \o << >> = tokens
        BY <1>9
      <4> QED BY <4>1, <4>2, <1>9
    <3> QED BY <3>1, <3>2, <1>6
  <2> QED BY <2>1, <2>2
<1> QED BY <1>2, <1>3, <1>10 DEF TileInv, TextOK, Cursors

LEMMA LexImportEndTile == ASSUME TileInv, LexImportEnd PROVE TileInv'
<1>1. PICK c : c = cursor
  OBVIOUS
<1>2. lexing = "importing" /\ EndImport(importing.items, c, FALSE)
  BY <1>1 DEF LexImportEnd
<1>3. c \in Cursors /\ c.position >= cursor.position
  BY <1>1, <1>2 DEF TileInv, Cursors, TextOK
<1> QED BY <1>2, <1>3, EndImportTile

\* The cursors behind the parts of an item.
LEMMA ItemIn ==
  ASSUME TextOK, cursor \in Cursors
  PROVE  /\ pastName \in Cursors /\ pastName.position >= cursor.position
         /\ afterName \in Cursors /\ afterName.position >= pastName.position
         /\ HasAlias => /\ aliasAt \in Cursors /\ aliasAt.position >= afterName.position
                        /\ pastAlias \in Cursors /\ pastAlias.position >= aliasAt.position
                        /\ Skip(pastAlias) \in Cursors
                        /\ Skip(pastAlias).position >= pastAlias.position
<1>1. /\ pastName \in Cursors /\ pastName.position >= cursor.position
  <2>1. PICK t : t = itemName
    OBVIOUS
  <2>2. t.to \in cursor.position..Len(input)
    BY <2>1, WordTokenIn DEF itemName, StartsAt
  <2>3. PICK a : a = Advanced(cursor, t.to)
    OBVIOUS
  <2>4. a \in Cursors /\ a.position = t.to
    BY <2>2, <2>3, AdvancedIn
  <2>5. pastName = a
    BY <2>1, <2>3 DEF pastName
  <2> QED BY <2>2, <2>4, <2>5
<1>2. /\ afterName \in Cursors /\ afterName.position >= pastName.position
  <2>1. afterName \in Cursors /\ afterName.position \in pastName.position..Len(input)
    BY <1>1, SkipIn DEF afterName
  <2> QED BY <2>1
<1>3. ASSUME HasAlias
      PROVE  /\ aliasAt \in Cursors /\ aliasAt.position >= afterName.position
             /\ pastAlias \in Cursors /\ pastAlias.position >= aliasAt.position
             /\ Skip(pastAlias) \in Cursors
             /\ Skip(pastAlias).position >= pastAlias.position
  <2>1. afterName.position \in Nat
    BY <1>2 DEF Cursors, TextOK
  <2>2. afterName.position + 2 \in afterName.position..Len(input)
    BY <2>1, <1>3, AheadInside DEF HasAlias, TextOK
  <2>3. PICK a : a = Advanced(afterName, afterName.position + 2)
    OBVIOUS
  <2>4. a \in Cursors /\ a.position = afterName.position + 2
    BY <2>2, <2>3, <1>2, AdvancedIn
  <2>5. aliasAt = Skip(a)
    BY <2>3 DEF aliasAt
  <2>6. aliasAt \in Cursors /\ aliasAt.position \in a.position..Len(input)
    BY <2>4, <2>5, SkipIn
  <2>7. PICK t : t = itemAlias
    OBVIOUS
  <2>8. t.to \in aliasAt.position..Len(input)
    BY <2>6, <2>7, WordTokenIn DEF itemAlias, StartsAt
  <2>9. PICK b : b = Advanced(aliasAt, t.to)
    OBVIOUS
  <2>10. b \in Cursors /\ b.position = t.to
    BY <2>6, <2>8, <2>9, AdvancedIn
  <2>11. pastAlias = b
    BY <2>7, <2>9 DEF pastAlias
  <2>12. Skip(b) \in Cursors /\ Skip(b).position \in b.position..Len(input)
    BY <2>10, SkipIn
  <2>13. aliasAt.position >= afterName.position
    BY <2>1, <2>4, <2>6 DEF TextOK
  <2>14. b.position >= aliasAt.position /\ Skip(b).position >= b.position
    BY <2>8, <2>10, <2>12
  <2> QED BY <2>6, <2>10, <2>11, <2>12, <2>13, <2>14
<1> QED BY <1>1, <1>2, <1>3

LEMMA AfterItemIn ==
  ASSUME TextOK, cursor \in Cursors
  PROVE  afterItem \in Cursors /\ afterItem.position >= cursor.position
<1>1. CASE HasAlias
  <2>1. afterItem = Skip(pastAlias)
    BY <1>1 DEF afterItem
  <2>2. /\ cursor \in Cursors /\ pastName \in Cursors /\ afterName \in Cursors
        /\ aliasAt \in Cursors /\ pastAlias \in Cursors /\ Skip(pastAlias) \in Cursors
        /\ pastName.position >= cursor.position
        /\ afterName.position >= pastName.position
        /\ aliasAt.position >= afterName.position
        /\ pastAlias.position >= aliasAt.position
        /\ Skip(pastAlias).position >= pastAlias.position
    BY <1>1, ItemIn
  <2>3. /\ cursor.position \in Nat /\ pastName.position \in Nat
        /\ afterName.position \in Nat /\ aliasAt.position \in Nat
        /\ pastAlias.position \in Nat /\ Skip(pastAlias).position \in Nat
    BY <2>2, CursorIn
  <2> QED BY <2>1, <2>2, <2>3
<1>2. CASE ~HasAlias
  <2>1. afterItem = afterName
    BY <1>2 DEF afterItem
  <2>2. /\ pastName \in Cursors /\ afterName \in Cursors
        /\ pastName.position >= cursor.position /\ afterName.position >= pastName.position
    BY ItemIn
  <2> QED BY <2>1, <2>2 DEF Cursors
<1> QED BY <1>1, <1>2

LEMMA PastAliasIn ==
  ASSUME TextOK, cursor \in Cursors, HasAlias
  PROVE  pastAlias \in Cursors /\ pastAlias.position >= cursor.position
<1>1. /\ pastName \in Cursors /\ afterName \in Cursors
      /\ aliasAt \in Cursors /\ pastAlias \in Cursors
      /\ pastName.position >= cursor.position
      /\ afterName.position >= pastName.position
      /\ aliasAt.position >= afterName.position
      /\ pastAlias.position >= aliasAt.position
  BY ItemIn
<1> QED BY <1>1 DEF Cursors

LEMMA LexImportItemTile == ASSUME TileInv, LexImportItem PROVE TileInv'
<1>1. TextOK /\ lexing = "importing" /\ cursor \in Cursors
  BY DEF TileInv, LexImportItem
<1>2. CASE itemName.kind # "IDENTIFIER"
  <2>1. PICK c : c = pastName
    OBVIOUS
  <2>2. EndImport(importing.items, c, TRUE)
    BY <1>2, <2>1 DEF LexImportItem
  <2>3. c \in Cursors /\ c.position >= cursor.position
    BY <1>1, <2>1, ItemIn
  <2> QED BY <1>1, <2>2, <2>3, EndImportTile
<1>3. CASE itemName.kind = "IDENTIFIER" /\ HasAlias /\ itemAlias.kind # "IDENTIFIER"
  <2>1. PICK c : c = pastAlias
    OBVIOUS
  <2>2. EndImport(importing.items, c, TRUE)
    BY <1>3, <2>1 DEF LexImportItem
  <2>3. c \in Cursors /\ c.position >= cursor.position
    BY <1>1, <1>3, <2>1, PastAliasIn
  <2> QED BY <1>1, <2>2, <2>3, EndImportTile
<1>4. CASE /\ itemName.kind = "IDENTIFIER" /\ ~(HasAlias /\ itemAlias.kind # "IDENTIFIER")
  <2>1. PICK c : c = afterItem
    OBVIOUS
  <2>2. c \in Cursors /\ c.position >= cursor.position
    BY <1>1, <2>1, AfterItemIn
  <2>3. PICK items : items = itemsRead
    OBVIOUS
  <2>4. CASE EndImport(items, c, TRUE)
    BY <1>1, <2>2, <2>4, EndImportTile
  <2>5. CASE /\ importing' = [path |-> importing.path, at |-> importing.at,
                                items |-> itemsRead]
             /\ cursor' = IF At(c.position) = ","
                          THEN Skip(Advanced(c, c.position + 1)) ELSE c
             /\ UNCHANGED <<input, tokens, import_infos, lexing>>
    <3>1. cursor' \in Cursors /\ cursor'.position >= cursor.position
      <4>1. CASE At(c.position) = ","
        <5>1. c.position < Len(input) /\ c.position \in Nat
          <6>1. c.position < Len(input)
            BY Zenon, <4>1, AtInside
          <6> QED BY <6>1, <1>1, <2>2 DEF Cursors, TextOK
        <5>2. c.position + 1 \in c.position..Len(input)
          BY <5>1, <1>1 DEF TextOK
        <5>3. PICK a : a = Advanced(c, c.position + 1)
          OBVIOUS
        <5>4. a \in Cursors /\ a.position = c.position + 1
          BY <5>2, <5>3, <2>2, <1>1, AdvancedIn
        <5>5. cursor' = Skip(a)
          BY <4>1, <2>5, <5>3
        <5>6. Skip(a) \in Cursors /\ Skip(a).position \in a.position..Len(input)
          BY <5>4, <1>1, SkipIn
        <5> QED BY <5>1, <5>4, <5>5, <5>6, <2>2, <1>1 DEF Cursors, TextOK
      <4>2. CASE At(c.position) # ","
        BY <4>2, <2>2, <2>5
      <4> QED BY <4>1, <4>2
    <3>2. importing'.at = importing.at
      BY <2>5
    <3>3. importing.at.position \in Nat /\ cursor.position \in Nat /\ cursor'.position \in Nat
      BY <1>1, <3>1 DEF TileInv, Cursors, TextOK
    <3>4. importing.at.position <= cursor'.position
      BY <1>1, <3>1, <3>3 DEF TileInv
    <3> QED BY <1>1, <2>5, <3>1, <3>2, <3>4 DEF TileInv, TextOK, Cursors
  <2>6. \/ EndImport(items, c, TRUE)
        \/ /\ importing' = [path |-> importing.path, at |-> importing.at,
                                items |-> itemsRead]
           /\ cursor' = IF At(c.position) = ","
                        THEN Skip(Advanced(c, c.position + 1)) ELSE c
           /\ UNCHANGED <<input, tokens, import_infos, lexing>>
    BY Zenon, <1>4, <2>1, <2>3 DEF LexImportItem
  <2> QED BY <2>4, <2>5, <2>6
<1> QED BY <1>2, <1>3, <1>4

------------------------------------------------------------------------------

LEMMA InitTile == ASSUME NEW text, Len(text) \in Nat, LexerInit(text) PROVE TileInv
<1>1. /\ input = text /\ tokens = << >> /\ lexing = "running"
      /\ cursor = [position |-> 0, line |-> 1, column |-> 1]
  BY DEF LexerInit
<1>2. cursor \in Cursors /\ cursor.position = 0 /\ TextOK
  BY <1>1 DEF Cursors, TextOK
<1>3. Tiling(input, tokens, 0)
  BY <1>1, NoTokens
<1> QED BY <1>1, <1>2, <1>3 DEF TileInv

LEMMA NextTile == TileInv /\ [LexerNext]_lexerVars => TileInv'
<1> SUFFICES ASSUME TileInv, [LexerNext]_lexerVars PROVE TileInv'
  OBVIOUS
<1>1. CASE UNCHANGED lexerVars
  BY <1>1 DEF TileInv, TextOK, Cursors, lexerVars
<1>2. CASE LexerNext
  BY <1>2, SkipCommentTile, LexStringTile, LexImportTile, LexImportItemTile,
     LexImportEndTile, LexWordTile, LexNumberTile, LexOperatorTile, LexUnknownTile,
     LexEndTile DEF LexerNext
<1> QED BY <1>1, <1>2

LEMMA TileInvTiles == TileInv => LexemesTile
<1> SUFFICES ASSUME TileInv, lexing = "done" PROVE LexemesTile
  BY DEF LexemesTile
<1>1. Tiling(input, tokens, Len(input)) /\ Len(input) \in Nat
  BY DEF TileInv, TextOK
<1>2. Covered = Cov(tokens) /\ \E T : tokens \in Seq(T)
  BY <1>1 DEF Covered, Cov, Tiling
<1>3. ASSUME NEW k \in 2..Len(tokens)
      PROVE  \/ tokens[k - 1].to <= tokens[k].from
             \/ tokens[k].kind = "IMPORT" /\ tokens[k].from = tokens[k - 1].from
  BY <1>1, <1>3 DEF Tiling, Follows
<1>4. ASSUME NEW p \in 0..(Len(input) - 1)
      PROVE  p \in Covered \/ At(p) \in Space \/ InComment(p)
  <2>1. Explained(input, tokens, p)
    BY <1>1, <1>4 DEF Tiling
  <2> QED BY <2>1, <1>2, AtIsChr DEF Explained, InComment
<1>5. ASSUME NEW k \in DOMAIN tokens,
             tokens[k].kind \notin {"STRING", "IMPORT", "UNKNOWN", "EOF"}
      PROVE  tokens[k].lexeme = Substr(tokens[k].from, tokens[k].to - tokens[k].from)
  <2>1. Spelled(input, tokens[k])
    BY <1>1, <1>2, <1>5 DEF Tiling
  <2> QED BY <2>1, <1>5 DEF Spelled, Substr
<1> QED BY <1>3, <1>4, <1>5 DEF LexemesTile

\* For every text, the tokens of a scan that ends lie one after the other, spell
\* the text, and leave out nothing but white space and comments.
THEOREM LexerTiles ==
  ASSUME NEW text, Len(text) \in Nat
  PROVE  LexerSpec(text) => []LexemesTile
<1>1. LexerInit(text) => TileInv
  BY InitTile
<1> QED BY <1>1, NextTile, TileInvTiles, PTL DEF LexerSpec

------------------------------------------------------------------------------
(* Where the tokens are placed.                                                *)

NL(text, p, q) == {r \in p..(q - 1) : Chr(text, r) = "\n"}

\* The last line break before a position.
Start(text, p) == Max({-1} \union NL(text, 0, p))

Holds(text, t) ==
  \E p \in t.from..(t.to - 1) :
      Chr(text, p) \in Quote /\ t.kind \in {"STRING", "IMPORT", "UNKNOWN"}

SpaceEnd(text, p) ==
  Min({q \in p..(Len(text) - 1) : Chr(text, q) \notin Space} \union {Len(text)})

Drifts(text, t) ==
  \/ /\ t.kind \notin {"IMPORT", "UNKNOWN"}
     /\ t.from + 4 <= Len(text) /\ SubSeq(text, t.from + 1, t.from + 4) \in {"from"}
     /\ NL(text, t.from, SpaceEnd(text, t.from + 4)) # {}
  \/ Holds(text, t) /\ NL(text, t.from, t.to) # {}

\* The line and the column counted at p, after the first n tokens of ts.
LineOK(text, ts, n, line, p) ==
  line = 1 + Cardinality(NL(text, 0, p)) \/ \E j \in 1..n : Drifts(text, ts[j])

ColumnOK(text, ts, n, column, p) ==
  \/ column = p - Start(text, p)
  \/ \E j \in 1..n : Holds(text, ts[j]) /\ ts[j].to > Start(text, p)

TokensPlaced(text, ts) ==
  \A k \in 1..Len(ts) : /\ LineOK(text, ts, k, ts[k].line, ts[k].from)
                        /\ ColumnOK(text, ts, k - 1, ts[k].column, ts[k].from)

CursorPlaced(text, ts, c) ==
  /\ LineOK(text, ts, Len(ts), c.line, c.position)
  /\ ColumnOK(text, ts, Len(ts), c.column, c.position)

\* The cursor d is where advance() leaves the cursor c.
Moves(text, c, d) ==
  /\ c.position <= d.position
  /\ d.line = c.line + Cardinality(NL(text, c.position, d.position))
  /\ NL(text, c.position, d.position) = {} =>
       d.column = c.column + d.position - c.position
  /\ NL(text, c.position, d.position) # {} =>
       d.column = d.position - Max(NL(text, c.position, d.position))

\* A line break between a and c, or none that c has counted.
Level(text, a, c) == c.line = a.line \/ NL(text, a.position, c.position) # {}

LEMMA NLFinite ==
  ASSUME NEW text, NEW p \in Int, NEW q \in Int
  PROVE  /\ NL(text, p, q) \in SUBSET (p..(q - 1))
         /\ IsFiniteSet(NL(text, p, q)) /\ Cardinality(NL(text, p, q)) \in Nat
<1>1. NL(text, p, q) \in SUBSET (p..(q - 1)) /\ IsFiniteSet(p..(q - 1))
  BY FS_Interval DEF NL
<1> QED BY <1>1, FS_Subset, FS_CardinalityType

LEMMA NLSplit ==
  ASSUME NEW text, NEW a \in Nat, NEW p \in Nat, NEW q \in Nat, a <= p, p <= q
  PROVE  /\ NL(text, a, q) = NL(text, a, p) \union NL(text, p, q)
         /\ Cardinality(NL(text, a, q))
              = Cardinality(NL(text, a, p)) + Cardinality(NL(text, p, q))
<1>1. PICK S, T : S = NL(text, a, p) /\ T = NL(text, p, q)
  OBVIOUS
<1>2. NL(text, a, q) = S \union T
  BY <1>1 DEF NL
<1>3. S \cap T = {}
  BY <1>1 DEF NL
<1>4. IsFiniteSet(S) /\ IsFiniteSet(T) /\ Cardinality(S) \in Nat /\ Cardinality(T) \in Nat
  BY <1>1, NLFinite
<1>5. Cardinality(S \union T) = Cardinality(S) + Cardinality(T) - Cardinality(S \cap T)
  BY <1>4, FS_Union
<1>6. Cardinality(S \cap T) = 0
  BY <1>3, FS_EmptySet
<1> QED BY <1>1, <1>2, <1>4, <1>5, <1>6

LEMMA StartIn ==
  ASSUME NEW text, NEW p \in Nat
  PROVE  /\ Start(text, p) \in Int /\ Start(text, p) < p
         /\ Start(text, p) \in {-1} \union NL(text, 0, p)
         /\ \A r \in NL(text, 0, p) : r <= Start(text, p)
<1>1. PICK T : T = {-1} \union NL(text, 0, p)
  OBVIOUS
<1>2. NL(text, 0, p) \in SUBSET (0..(p - 1))
  BY NLFinite
<1>3. T \in SUBSET ((-1)..(p - 1)) /\ T # {} /\ -1 \in Int /\ p - 1 \in Int
  BY <1>1, <1>2
<1>4. Max(T) \in T /\ \A y \in T : Max(T) >= y
  BY <1>3, MaxOf
<1>5. Start(text, p) = Max(T)
  BY <1>1 DEF Start
<1> QED BY <1>1, <1>3, <1>4, <1>5

LEMMA StartMoves ==
  ASSUME NEW text, NEW p \in Nat, NEW q \in Nat, p <= q
  PROVE  /\ NL(text, p, q) = {} => Start(text, q) = Start(text, p)
         /\ NL(text, p, q) # {} => Start(text, q) = Max(NL(text, p, q))
<1>1. NL(text, 0, q) = NL(text, 0, p) \union NL(text, p, q)
  BY NLSplit
<1>2. NL(text, p, q) = {} => Start(text, q) = Start(text, p)
  BY <1>1 DEF Start
<1>3. ASSUME NL(text, p, q) # {} PROVE Start(text, q) = Max(NL(text, p, q))
  <2>1. PICK T : T = NL(text, p, q)
    OBVIOUS
  <2>2. T \in SUBSET (p..(q - 1)) /\ T # {} /\ p \in Int /\ q - 1 \in Int
    BY <1>3, <2>1, NLFinite
  <2>3. Max(T) \in T /\ \A y \in T : Max(T) >= y
    BY <2>2, MaxOf
  <2>4. /\ Start(text, q) \in Int /\ Start(text, q) \in {-1} \union NL(text, 0, q)
        /\ \A r \in NL(text, 0, q) : r <= Start(text, q)
    BY StartIn
  <2>5. Max(T) <= Start(text, q) /\ Max(T) \in Int /\ p <= Max(T)
    BY <1>1, <2>1, <2>2, <2>3, <2>4
  <2>6. NL(text, 0, p) \in SUBSET (0..(p - 1))
    BY NLFinite
  <2>7. Start(text, q) \in T
    BY <1>1, <2>1, <2>4, <2>5, <2>6
  <2> QED BY <2>1, <2>3, <2>4, <2>5, <2>7
<1> QED BY <1>2, <1>3

\* Advancing keeps the cursor placed.
LEMMA PlacedMoves ==
  ASSUME NEW text, NEW ts, NEW c, c.position \in Nat, c.line \in Nat, c.column \in Int,
         CursorPlaced(text, ts, c), NEW d, d.position \in Nat, Moves(text, c, d)
  PROVE  CursorPlaced(text, ts, d)
<1>1. PICK p, q : p = c.position /\ q = d.position
  OBVIOUS
<1>2. p \in Nat /\ q \in Nat /\ p <= q /\ 0 <= p
  BY <1>1 DEF Moves
<1>3. LineOK(text, ts, Len(ts), d.line, d.position)
  <2>1. CASE \E j \in 1..Len(ts) : Drifts(text, ts[j])
    BY <2>1 DEF LineOK
  <2>2. CASE c.line = 1 + Cardinality(NL(text, 0, p))
    <3>1. Cardinality(NL(text, 0, q))
            = Cardinality(NL(text, 0, p)) + Cardinality(NL(text, p, q))
      BY <1>2, NLSplit
    <3>2. Cardinality(NL(text, 0, p)) \in Nat /\ Cardinality(NL(text, p, q)) \in Nat
      BY <1>2, NLFinite
    <3>3. d.line = c.line + Cardinality(NL(text, p, q))
      BY <1>1 DEF Moves
    <3> QED BY <1>1, <2>2, <3>1, <3>2, <3>3 DEF LineOK
  <2> QED BY <2>1, <2>2, <1>1 DEF CursorPlaced, LineOK
<1>4. ColumnOK(text, ts, Len(ts), d.column, d.position)
  <2>1. CASE NL(text, p, q) # {}
    <3>1. Start(text, q) = Max(NL(text, p, q))
      BY <1>2, <2>1, StartMoves
    <3>2. d.column = q - Max(NL(text, p, q))
      BY <1>1, <2>1 DEF Moves
    <3> QED BY <1>1, <3>1, <3>2 DEF ColumnOK
  <2>2. CASE NL(text, p, q) = {}
    <3>1. Start(text, q) = Start(text, p) /\ Start(text, p) \in Int
      BY <1>2, <2>2, StartMoves, StartIn
    <3>2. d.column = c.column + q - p
      BY <1>1, <2>2 DEF Moves
    <3>3. CASE \E j \in 1..Len(ts) : Holds(text, ts[j]) /\ ts[j].to > Start(text, p)
      BY <1>1, <3>1, <3>3 DEF ColumnOK
    <3>4. CASE c.column = p - Start(text, p)
      BY <1>1, <1>2, <3>1, <3>2, <3>4 DEF ColumnOK
    <3> QED BY <3>3, <3>4, <1>1 DEF CursorPlaced, ColumnOK
  <2> QED BY <2>1, <2>2
<1> QED BY <1>3, <1>4 DEF CursorPlaced

\* A token that starts at a placed cursor is placed.
LEMMA PlacedAppend ==
  ASSUME NEW text, NEW ts, \E T : ts \in Seq(T), TokensPlaced(text, ts), NEW t,
         NEW n, n = Len(ts),
         LineOK(text, Append(ts, t), n + 1, t.line, t.from),
         ColumnOK(text, ts, n, t.column, t.from)
  PROVE  TokensPlaced(text, Append(ts, t))
<1>0. PICK T : ts \in Seq(T)
  OBVIOUS
<1>1. PICK us : us = Append(ts, t)
  OBVIOUS
<1>2. /\ n \in Nat /\ Len(us) = n + 1 /\ us[n + 1] = t /\ \A k \in 1..n : us[k] = ts[k]
  BY <1>0, <1>1
<1>3. ASSUME NEW k \in 1..n
      PROVE  /\ LineOK(text, us, k, us[k].line, us[k].from)
             /\ ColumnOK(text, us, k - 1, us[k].column, us[k].from)
  <2>1. /\ LineOK(text, ts, k, ts[k].line, ts[k].from)
        /\ ColumnOK(text, ts, k - 1, ts[k].column, ts[k].from)
    BY DEF TokensPlaced
  <2>2. us[k] = ts[k] /\ \A j \in 1..k : us[j] = ts[j]
    BY <1>2
  <2>3. LineOK(text, us, k, ts[k].line, ts[k].from)
    BY <2>1, <2>2 DEF LineOK
  <2>4. ColumnOK(text, us, k - 1, ts[k].column, ts[k].from)
    BY <2>1, <2>2 DEF ColumnOK
  <2> QED BY <2>2, <2>3, <2>4
<1>4. LineOK(text, us, n + 1, us[n + 1].line, us[n + 1].from)
  BY <1>1, <1>2
<1>5. ColumnOK(text, us, (n + 1) - 1, us[n + 1].column, us[n + 1].from)
  <2>1. (n + 1) - 1 = n
    BY <1>2
  <2>2. ColumnOK(text, us, n, t.column, t.from)
    BY <1>2 DEF ColumnOK
  <2> QED BY <2>1, <2>2, <1>2
<1>6. ASSUME NEW k \in 1..(n + 1)
      PROVE  /\ LineOK(text, us, k, us[k].line, us[k].from)
             /\ ColumnOK(text, us, k - 1, us[k].column, us[k].from)
  <2>1. k \in 1..n \/ k = n + 1
    BY <1>2
  <2> QED BY <2>1, <1>3, <1>4, <1>5
<1> QED BY <1>1, <1>2, <1>6 DEF TokensPlaced

\* A placed cursor stays placed, whatever token is appended.
LEMMA PlacedThen ==
  ASSUME NEW text, NEW ts, \E T : ts \in Seq(T), NEW c, CursorPlaced(text, ts, c), NEW t,
         NEW n, n = Len(ts)
  PROVE  /\ CursorPlaced(text, Append(ts, t), c)
         /\ LineOK(text, Append(ts, t), n + 1, c.line, c.position)
         /\ ColumnOK(text, Append(ts, t), n + 1, c.column, c.position)
         /\ ColumnOK(text, ts, n, c.column, c.position)
<1>0. PICK T : ts \in Seq(T)
  OBVIOUS
<1>1. PICK us : us = Append(ts, t)
  OBVIOUS
<1>2. /\ n \in Nat /\ Len(us) = n + 1 /\ \A k \in 1..n : us[k] = ts[k] /\ k \in 1..(n + 1)
  BY <1>0, <1>1
<1>3. LineOK(text, us, n + 1, c.line, c.position)
  BY <1>2 DEF CursorPlaced, LineOK
<1>4. ColumnOK(text, us, n + 1, c.column, c.position)
  BY <1>2 DEF CursorPlaced, ColumnOK
<1>5. ColumnOK(text, ts, n, c.column, c.position)
  BY DEF CursorPlaced
<1> QED BY <1>1, <1>2, <1>3, <1>4, <1>5 DEF CursorPlaced

\* Behind a token that holds a string, and that drifts if there is a line break in
\* it, every cursor is placed that kept its line over the token.
LEMMA PlacedBehind ==
  ASSUME NEW text, NEW ts, \E T : ts \in Seq(T), NEW t, t.from \in Nat, t.to \in Nat,
         t.from <= t.to, Holds(text, t),
         NEW a, a.position = t.from, CursorPlaced(text, ts, a),
         NEW c, c.position = t.to, Level(text, a, c)
  PROVE  CursorPlaced(text, Append(ts, t), c)
<1>0. PICK T : ts \in Seq(T)
  OBVIOUS
<1>1. PICK us, n : us = Append(ts, t) /\ n = Len(ts)
  OBVIOUS
<1>2. /\ n \in Nat /\ Len(us) = n + 1 /\ us[n + 1] = t /\ n + 1 \in 1..(n + 1)
      /\ \A k \in 1..n : us[k] = ts[k] /\ k \in 1..(n + 1)
  BY <1>0, <1>1
<1>3. t.to > Start(text, t.to)
  BY StartIn
<1>4. ColumnOK(text, us, n + 1, c.column, c.position)
  BY <1>2, <1>3 DEF ColumnOK
<1>5. LineOK(text, us, n + 1, c.line, c.position)
  <2>1. CASE NL(text, t.from, t.to) # {}
    <3>1. Drifts(text, us[n + 1])
      BY <2>1, <1>2 DEF Drifts
    <3> QED BY <3>1, <1>2 DEF LineOK
  <2>2. CASE NL(text, t.from, t.to) = {}
    <3>1. c.line = a.line
      BY <2>2 DEF Level
    <3>2. NL(text, 0, t.to) = NL(text, 0, t.from)
      <4>1. PICK p \in Nat, q \in Nat : p = t.from /\ q = t.to
        OBVIOUS
      <4>2. 0 \in Nat /\ p \in Nat /\ q \in Nat /\ 0 <= p /\ p <= q
        BY <4>1
      <4>3. NL(text, 0, q) = NL(text, 0, p) \union NL(text, p, q)
        BY <4>2, NLSplit
      <4> QED BY <4>1, <4>3, <2>2
    <3>3. LineOK(text, us, n + 1, a.line, a.position)
      BY <1>1, PlacedThen
    <3> QED BY <3>1, <3>2, <3>3 DEF LineOK
  <2> QED BY <2>1, <2>2
<1> QED BY <1>1, <1>2, <1>4, <1>5 DEF CursorPlaced

LEMMA LevelMoves ==
  ASSUME NEW text, NEW a, a.position \in Nat, NEW c, c.position \in Nat, c.line \in Nat,
         a.position <= c.position, Level(text, a, c),
         NEW d, d.position \in Nat, Moves(text, c, d) \/ (d.line = c.line /\ c.position <= d.position)
  PROVE  Level(text, a, d)
<1>1. PICK p, q, h : p = a.position /\ q = c.position /\ h = d.position
  OBVIOUS
<1>2. p \in Nat /\ q \in Nat /\ h \in Nat /\ p <= q /\ q <= h
  BY <1>1 DEF Moves
<1>3. NL(text, p, h) = NL(text, p, q) \union NL(text, q, h)
  BY <1>2, NLSplit
<1>4. CASE NL(text, p, h) # {}
  BY <1>1, <1>4 DEF Level
<1>5. CASE NL(text, p, h) = {}
  <2>1. NL(text, p, q) = {} /\ NL(text, q, h) = {}
    BY <1>3, <1>5
  <2>2. Cardinality(NL(text, q, h)) = 0
    BY <2>1, FS_EmptySet
  <2>3. d.line = c.line
    BY <2>2, <1>1 DEF Moves
  <2> QED BY <2>1, <2>3, <1>1 DEF Level
<1> QED BY <1>4, <1>5

------------------------------------------------------------------------------
(* The loop of tokenize() keeps the tokens and the cursor placed.  In an import *)
(* statement the cursor of its start is; the string has been read, and the line *)
(* is that of the start unless the statement goes over a line break.           *)

PlaceInv ==
  /\ lexing \in {"running", "importing", "done"} => TokensPlaced(input, tokens)
  /\ lexing = "running" => CursorPlaced(input, tokens, cursor)
  /\ lexing = "importing" =>
       /\ CursorPlaced(input, tokens, importing.at)
       /\ \E q \in importing.at.position..(cursor.position - 1) : Chr(input, q) \in Quote
       /\ Level(input, importing.at, cursor)

LEMMA NewlinesIsNL == \A p, q : Newlines(p, q) = NL(input, p, q)
BY AtIsChr DEF Newlines, NL

LEMMA AdvancedMoves ==
  ASSUME TextOK, NEW c \in Cursors, NEW q \in c.position..Len(input)
  PROVE  Moves(input, c, Advanced(c, q))
<1>1. PICK d : d = Advanced(c, q)
  OBVIOUS
<1>2. /\ d.position = q
      /\ d.line = c.line + Cardinality(NL(input, c.position, q))
      /\ NL(input, c.position, q) = {} => d.column = c.column + q - c.position
      /\ NL(input, c.position, q) # {} => d.column = q - Max(NL(input, c.position, q))
  BY <1>1, AdvancedIn, NewlinesIsNL
<1>3. c.position <= q
  BY CursorIn
<1> QED BY <1>1, <1>2, <1>3 DEF Moves

LEMMA SkipMoves ==
  ASSUME TextOK, NEW c \in Cursors
  PROVE  Moves(input, c, Skip(c))
<1>1. PICK q : q = Skip(c).position
  OBVIOUS
<1>2. q \in c.position..Len(input) /\ Skip(c) = Advanced(c, q)
  BY <1>1, SkipIn
<1> QED BY <1>2, AdvancedMoves

LEMMA ScanAtPlaced ==
  ASSUME TileInv, PlaceInv, lexing = "running"
  PROVE  /\ TextOK /\ scanAt \in Cursors /\ TokensPlaced(input, tokens)
         /\ CursorPlaced(input, tokens, scanAt)
         /\ \E T : tokens \in Seq(T)
<1>1. /\ TextOK /\ cursor \in Cursors /\ Tiling(input, tokens, cursor.position)
      /\ TokensPlaced(input, tokens) /\ CursorPlaced(input, tokens, cursor)
  BY DEF TileInv, PlaceInv
<1>2. PICK c : c = cursor
  OBVIOUS
<1>3. PICK d : d = Skip(c)
  OBVIOUS
<1>4. d \in Cursors /\ Moves(input, c, d)
  BY <1>1, <1>2, <1>3, SkipIn, SkipMoves
<1>5. c.position \in Nat /\ c.line \in Nat /\ c.column \in Int /\ d.position \in Nat
  BY <1>1, <1>2, <1>4 DEF Cursors, TextOK
<1>6. CursorPlaced(input, tokens, d)
  BY <1>1, <1>2, <1>4, <1>5, PlacedMoves
<1> QED BY <1>1, <1>2, <1>3, <1>4, <1>6 DEF scanAt, Tiling

LEMMA EmitPlace ==
  ASSUME TileInv, PlaceInv, lexing = "running", NEW t, NEW c, Emit(t, c),
         NEW n, n = Len(tokens),
         t # Refused => /\ LineOK(input, Append(tokens, t), n + 1, t.line, t.from)
                        /\ ColumnOK(input, tokens, n, t.column, t.from)
                        /\ CursorPlaced(input, Append(tokens, t), c)
  PROVE  PlaceInv'
<1>1. CASE t = Refused
  BY <1>1 DEF Emit, Throw, PlaceInv
<1>2. CASE t # Refused
  <2>1. /\ tokens' = Append(tokens, t) /\ cursor' = c
        /\ UNCHANGED <<input, import_infos, importing, lexing>>
    BY <1>2 DEF Emit
  <2>2. TokensPlaced(input, Append(tokens, t))
    BY <1>2, ScanAtPlaced, PlacedAppend
  <2> QED BY <1>2, <2>1, <2>2 DEF PlaceInv
<1> QED BY <1>1, <1>2

\* A token that starts at a placed cursor, behind which that cursor stays placed.
LEMMA PlacedAt ==
  ASSUME NEW text, NEW ts, \E T : ts \in Seq(T), TokensPlaced(text, ts),
         NEW a, CursorPlaced(text, ts, a), NEW t,
         t.from = a.position, t.line = a.line, t.column = a.column
  PROVE  TokensPlaced(text, Append(ts, t)) /\ CursorPlaced(text, Append(ts, t), a)
<1>1. PICK n : n = Len(ts)
  OBVIOUS
<1>2. /\ CursorPlaced(text, Append(ts, t), a)
      /\ LineOK(text, Append(ts, t), n + 1, a.line, a.position)
      /\ ColumnOK(text, ts, n, a.column, a.position)
  BY <1>1, PlacedThen
<1>3. /\ LineOK(text, Append(ts, t), n + 1, t.line, t.from)
      /\ ColumnOK(text, ts, n, t.column, t.from)
  BY <1>2
<1> QED BY <1>1, <1>2, <1>3, PlacedAppend

\* Words, numbers, operators and unknown characters: the cursor advances over the
\* token.
LEMMA AdvancePlace ==
  ASSUME TileInv, PlaceInv, lexing = "running", NEW t, NEW a \in Cursors,
         a.position = scanAt.position, a.column = scanAt.column,
         NEW c, c = IF t = Refused THEN scanAt ELSE Advanced(a, t.to), Emit(t, c),
         t # Refused =>
           StartsAt(t, a) /\ LineOK(input, Append(tokens, t), Len(tokens) + 1, a.line, a.position)
  PROVE  PlaceInv'
<1>1. /\ TextOK /\ scanAt \in Cursors /\ CursorPlaced(input, tokens, scanAt)
      /\ \E T : tokens \in Seq(T)
  BY ScanAtPlaced
<1>2. PICK n, us : n = Len(tokens) /\ us = Append(tokens, t)
  OBVIOUS
<1>3. Len(us) = n + 1
  BY <1>1, <1>2
<1>4. PICK b : b = scanAt
  OBVIOUS
<1>5. /\ ColumnOK(input, us, n + 1, a.column, a.position)
      /\ ColumnOK(input, tokens, n, a.column, a.position)
  <2>1. /\ ColumnOK(input, us, n + 1, b.column, b.position)
        /\ ColumnOK(input, tokens, n, b.column, b.position)
    BY <1>1, <1>2, <1>4, PlacedThen
  <2> QED BY <2>1, <1>4
<1>6. ASSUME t # Refused
      PROVE  /\ LineOK(input, us, n + 1, t.line, t.from)
             /\ ColumnOK(input, tokens, n, t.column, t.from)
             /\ CursorPlaced(input, us, c)
  <2>1. /\ t.from = a.position /\ t.line = a.line /\ t.column = a.column
        /\ t.to \in a.position..Len(input) /\ c = Advanced(a, t.to)
    BY <1>6 DEF StartsAt
  <2>2. LineOK(input, us, n + 1, a.line, a.position)
    BY <1>2, <1>6
  <2>3. CursorPlaced(input, us, a)
    BY <2>2, <1>3, <1>5 DEF CursorPlaced
  <2>4. c \in Cursors /\ Moves(input, a, c)
    BY <1>1, <2>1, AdvancedIn, AdvancedMoves
  <2>5. a.position \in Nat /\ a.line \in Nat /\ a.column \in Int /\ c.position \in Nat
    BY <1>1, <2>4 DEF Cursors, TextOK
  <2>6. CursorPlaced(input, us, c)
    BY <2>3, <2>4, <2>5, PlacedMoves
  <2> QED BY <2>1, <2>2, <2>6, <1>5
<1> QED BY <1>2, <1>6, EmitPlace

LEMMA SkipCommentPlace == ASSUME TileInv, PlaceInv, SkipComment PROVE PlaceInv'
<1>1. lexing = "running" /\ TextOK
  BY DEF TileInv, SkipComment, Running
<1>2. PICK c : c = scanAt
  OBVIOUS
<1>3. /\ c \in Cursors /\ c.position \in 0..Len(input) /\ CursorPlaced(input, tokens, c)
      /\ TokensPlaced(input, tokens)
  BY <1>1, <1>2, ScanAtPlaced DEF Cursors
<1>4. PICK S \in SUBSET Rest(c.position) : S = {q \in Rest(c.position) : At(q) = "\n"}
  OBVIOUS
<1>5. PICK q : q = FirstOf(S)
  OBVIOUS
<1>6. q \in c.position..Len(input)
  BY <1>1, <1>3, <1>5, FirstOfIn
<1>7. PICK d : d = Advanced(c, q)
  OBVIOUS
<1>8. d \in Cursors /\ Moves(input, c, d)
  BY <1>1, <1>3, <1>6, <1>7, AdvancedIn, AdvancedMoves
<1>9. c.position \in Nat /\ c.line \in Nat /\ c.column \in Int /\ d.position \in Nat
  BY <1>1, <1>3, <1>8 DEF Cursors, TextOK
<1>10. CursorPlaced(input, tokens, d)
  BY <1>3, <1>8, <1>9, PlacedMoves
<1>11. /\ cursor' = d /\ UNCHANGED <<input, tokens, import_infos, importing, lexing>>
  BY <1>2, <1>4, <1>5, <1>7 DEF SkipComment
<1> QED BY <1>1, <1>3, <1>10, <1>11 DEF PlaceInv

LEMMA LexStringPlace == ASSUME TileInv, PlaceInv, LexString PROVE PlaceInv'
<1>1. TextOK /\ lexing = "running" /\ At(scanAt.position) \in Quote
  BY DEF TileInv, LexString, Running, AtString, peeked
<1>2. PICK a : a = scanAt
  OBVIOUS
<1>3. /\ a \in Cursors /\ a.position \in Nat /\ \E T : tokens \in Seq(T)
      /\ TokensPlaced(input, tokens) /\ CursorPlaced(input, tokens, a)
  BY <1>1, <1>2, ScanAtPlaced, CursorIn
<1>4. PICK t : t = StringToken(scanAt)
  OBVIOUS
<1>5. PICK c : c = IF t = Refused THEN scanAt ELSE OverString(scanAt, t.to)
  OBVIOUS
<1>6. Emit(t, c)
  BY <1>4, <1>5 DEF LexString
<1>7. PICK n : n = Len(tokens)
  OBVIOUS
<1>8. ASSUME t # Refused
      PROVE  /\ LineOK(input, Append(tokens, t), n + 1, t.line, t.from)
             /\ ColumnOK(input, tokens, n, t.column, t.from)
             /\ CursorPlaced(input, Append(tokens, t), c)
  <2>1. StartsAt(t, a) /\ t.kind = "STRING" /\ t.to > a.position
    BY <1>1, <1>2, <1>3, <1>4, <1>8, StringTokenIn
  <2>2. /\ t.from = a.position /\ t.line = a.line /\ t.column = a.column
        /\ t.from \in Nat /\ t.to \in Nat /\ t.to \in 0..Len(input) /\ t.from <= t.to
    BY <2>1, <1>1, <1>3 DEF StartsAt, TextOK
  <2>3. Holds(input, t)
    <3>1. t.from \in t.from..(t.to - 1)
      BY <2>1, <2>2
    <3>2. Chr(input, t.from) \in Quote
      BY <1>1, <1>2, <2>2, AtIsChr
    <3> QED BY <2>1, <3>1, <3>2 DEF Holds
  <2>4. c.position = t.to /\ c.line = a.line
    BY <1>1, <1>2, <1>3, <1>5, <1>8, <2>2, OverStringIn
  <2>5. Level(input, a, c)
    BY <2>4 DEF Level
  <2>6. CursorPlaced(input, Append(tokens, t), c)
    BY <1>3, <2>2, <2>3, <2>4, <2>5, PlacedBehind
  <2>7. /\ LineOK(input, Append(tokens, t), n + 1, a.line, a.position)
        /\ ColumnOK(input, tokens, n, a.column, a.position)
    BY <1>3, <1>7, PlacedThen
  <2> QED BY <2>2, <2>6, <2>7
<1> QED BY <1>1, <1>6, <1>7, <1>8, EmitPlace

LEMMA LexNumberPlace == ASSUME TileInv, PlaceInv, LexNumber PROVE PlaceInv'
<1>1. TextOK /\ lexing = "running"
  BY DEF TileInv, LexNumber, Running
<1>2. PICK t : t = NumberToken(scanAt)
  OBVIOUS
<1>3. PICK a : a = scanAt
  OBVIOUS
<1>4. PICK c : c = IF t = Refused THEN scanAt ELSE Advanced(a, t.to)
  OBVIOUS
<1>5. Emit(t, c)
  BY <1>2, <1>3, <1>4 DEF LexNumber
<1>6. a \in Cursors /\ CursorPlaced(input, tokens, a) /\ \E T : tokens \in Seq(T)
  BY <1>1, <1>3, ScanAtPlaced
<1>7. t # Refused => StartsAt(t, a)
  BY <1>1, <1>2, <1>3, <1>6, NumberTokenIn
<1>8. LineOK(input, Append(tokens, t), Len(tokens) + 1, a.line, a.position)
  BY <1>6, PlacedThen
<1> QED BY <1>1, <1>3, <1>4, <1>5, <1>6, <1>7, <1>8, AdvancePlace

LEMMA LexOperatorPlace == ASSUME TileInv, PlaceInv, LexOperator PROVE PlaceInv'
<1>1. TextOK /\ lexing = "running"
  BY DEF TileInv, LexOperator, Running
<1>2. PICK t : t = OperatorToken(scanAt)
  OBVIOUS
<1>3. PICK a : a = scanAt
  OBVIOUS
<1>4. PICK c : c = IF t = Refused THEN scanAt ELSE Advanced(a, t.to)
  OBVIOUS
<1>5. Emit(t, c)
  BY <1>2, <1>3, <1>4 DEF LexOperator
<1>6. a \in Cursors /\ CursorPlaced(input, tokens, a) /\ \E T : tokens \in Seq(T)
  BY <1>1, <1>3, ScanAtPlaced
<1>7. t # Refused => StartsAt(t, a)
  BY <1>1, <1>2, <1>3, <1>6, OperatorTokenIn
<1>8. LineOK(input, Append(tokens, t), Len(tokens) + 1, a.line, a.position)
  BY <1>6, PlacedThen
<1> QED BY <1>1, <1>3, <1>4, <1>5, <1>6, <1>7, <1>8, AdvancePlace

LEMMA LexUnknownPlace == ASSUME TileInv, PlaceInv, LexUnknown PROVE PlaceInv'
<1>1. TextOK /\ lexing = "running" /\ scanAt.position < Len(input)
  BY DEF TileInv, LexUnknown, Running
<1>2. PICK a : a = scanAt
  OBVIOUS
<1>3. /\ a \in Cursors /\ a.position \in Nat /\ CursorPlaced(input, tokens, a)
      /\ \E T : tokens \in Seq(T)
  BY <1>1, <1>2, ScanAtPlaced, CursorIn
<1>4. a.position + 1 \in a.position..Len(input)
  BY <1>1, <1>2, <1>3 DEF TextOK
<1>5. PICK past : past = Advanced(a, a.position + 1)
  OBVIOUS
<1>6. past.position = a.position + 1
  BY <1>1, <1>3, <1>4, <1>5, AdvancedIn
<1>7. PICK t : t = Token("UNKNOWN", peeked, scanAt, past.position)
  OBVIOUS
<1>8. Emit(t, past) /\ past = Advanced(a, t.to)
  BY <1>2, <1>5, <1>6, <1>7 DEF LexUnknown, Token
<1>9. StartsAt(t, a) /\ t # Refused
  BY <1>2, <1>4, <1>6, <1>7 DEF Token, StartsAt, Refused
<1>10. LineOK(input, Append(tokens, t), Len(tokens) + 1, a.line, a.position)
  BY <1>3, PlacedThen
<1> QED BY <1>1, <1>2, <1>3, <1>8, <1>9, <1>10, AdvancePlace

LEMMA LexEndPlace == ASSUME TileInv, PlaceInv, LexEnd PROVE PlaceInv'
<1>1. /\ lexing = "running" /\ lexing' = "done" /\ UNCHANGED <<input, import_infos>>
      /\ tokens' = Append(tokens, Token("EOF", "EOF", scanAt, scanAt.position))
  BY DEF LexEnd
<1>2. PICK a : a = scanAt
  OBVIOUS
<1>3. PICK t : t = Token("EOF", "EOF", scanAt, scanAt.position)
  OBVIOUS
<1>4. t.from = a.position /\ t.line = a.line /\ t.column = a.column
  BY <1>2, <1>3 DEF Token
<1>5. TokensPlaced(input, Append(tokens, t))
  BY <1>1, <1>2, <1>4, ScanAtPlaced, PlacedAt
<1> QED BY <1>1, <1>3, <1>5 DEF PlaceInv

LEMMA NLEmpty ==
  ASSUME NEW text, NEW a \in Nat, NEW p \in Nat, NEW q \in Nat, a <= p, p <= q,
         NL(text, a, q) = {}
  PROVE  Cardinality(NL(text, a, p)) = 0 /\ Cardinality(NL(text, p, q)) = 0
BY NLSplit, FS_EmptySet

\* The lines that are counted over the word "from" are those up to the next word.
LEMMA PastFromLine ==
  ASSUME TileInv, lexing = "running", AtFrom, NEW p, p = scanAt.position
  PROVE  /\ Moves(input, scanAt, Advanced(scanAt, p + 4))
         /\ Moves(input, Advanced(scanAt, p + 4), pastFrom)
         /\ Advanced(scanAt, p + 4) \in Cursors
         /\ Advanced(scanAt, p + 4).position = p + 4
         /\ NL(input, p, SpaceEnd(input, p + 4)) = {} => pastFrom.line = scanAt.line
<1>1. /\ TextOK /\ scanAt \in Cursors /\ p \in Nat
  BY ScanAtIn DEF TileInv
<1>2. PICK c \in Cursors : /\ c = Advanced(scanAt, p + 4) /\ c.position = p + 4
                         /\ pastFrom = Advanced(c, pastFrom.position)
                         /\ pastFrom.position = RunEnd(p + 4, Space)
  BY PastFromIn
<1>3. p + 4 \in p..Len(input)
  BY <1>1, AheadInside DEF AtFrom, TextOK
<1>4. PICK e : e = RunEnd(p + 4, Space)
  OBVIOUS
<1>5. e \in (p + 4)..Len(input) /\ e \in Nat /\ p + 4 <= e /\ p + 4 \in Nat
  <2>1. p + 4 \in 0..Len(input)
    BY <1>1, <1>3 DEF TextOK
  <2> QED BY <2>1, <1>1, <1>4, RunEndIn DEF TextOK
<1>6. Moves(input, scanAt, c)
  BY <1>1, <1>2, <1>3, AdvancedMoves
<1>7. pastFrom = Advanced(c, e) /\ Moves(input, c, pastFrom)
  <2>1. pastFrom = Advanced(c, e)
    BY <1>2, <1>4
  <2> QED BY <2>1, <1>1, <1>2, <1>5, AdvancedMoves
<1>8. SpaceEnd(input, p + 4) = e
  BY <1>4, AtIsChr DEF SpaceEnd, RunEnd, FirstOf, Rest
<1>9. ASSUME NL(input, p, e) = {} PROVE pastFrom.line = scanAt.line
  <2>1. PICK q : q = p + 4
    OBVIOUS
  <2>2. p \in Nat /\ q \in Nat /\ e \in Nat /\ p <= q /\ q <= e
    BY <2>1, <1>1, <1>5
  <2>4. Cardinality(NL(input, p, q)) = 0 /\ Cardinality(NL(input, q, e)) = 0
    BY <2>2, <1>9, NLEmpty
  <2>5. c.line = scanAt.line + Cardinality(NL(input, p, q))
    BY <2>1, <1>2, <1>6 DEF Moves
  <2>6. pastFrom.line = c.line + Cardinality(NL(input, q, e))
    BY <2>1, <1>2, <1>4, <1>7 DEF Moves
  <2>7. scanAt.line \in Nat
    BY <1>1 DEF Cursors
  <2> QED BY <2>4, <2>5, <2>6, <2>7
<1> QED BY <1>2, <1>6, <1>7, <1>8, <1>9

LEMMA LexWordPlace == ASSUME TileInv, PlaceInv, LexWord PROVE PlaceInv'
<1>1. TextOK /\ lexing = "running"
  BY DEF TileInv, LexWord, Running
<1>2. PICK b : b = scanAt
  OBVIOUS
<1>3. /\ b \in Cursors /\ b.position \in Nat /\ \E T : tokens \in Seq(T)
      /\ CursorPlaced(input, tokens, b)
  BY <1>1, <1>2, ScanAtPlaced, CursorIn
<1>4. PICK a : a = [scanAt EXCEPT !.line = IF AtFrom THEN pastFrom.line ELSE @]
  OBVIOUS
<1>5. /\ a \in Cursors /\ a.position = b.position /\ a.column = b.column
      /\ a.line = IF AtFrom THEN pastFrom.line ELSE b.line
  <2>1. AtFrom => pastFrom \in Cursors
    BY <1>1, PastFromIn
  <2> QED BY <2>1, <1>2, <1>3, <1>4 DEF Cursors
<1>6. PICK t : t = WordToken(a)
  OBVIOUS
<1>7. StartsAt(t, a) /\ t # Refused /\ t.kind \notin {"IMPORT", "UNKNOWN"}
  <2>1. StartsAt(t, a) /\ t.kind \in Keywords \union {"IDENTIFIER"}
    BY <1>1, <1>5, <1>6, WordTokenIn
  <2>2. t.kind # "REFUSED" /\ t.kind \notin {"IMPORT", "UNKNOWN"}
    BY Zenon, <2>1 DEF Keywords
  <2> QED BY <2>1, <2>2 DEF Refused
<1>8. PICK n, us : n = Len(tokens) /\ us = Append(tokens, t)
  OBVIOUS
<1>9. n \in Nat /\ us[n + 1] = t
  BY <1>3, <1>8
<1>10. LineOK(input, us, n + 1, a.line, a.position)
  <2>1. CASE a.line = b.line
    <3>1. LineOK(input, us, n + 1, b.line, b.position)
      BY <1>3, <1>8, PlacedThen
    <3> QED BY <2>1, <3>1, <1>5
  <2>2. CASE a.line # b.line
    <3>1. AtFrom /\ pastFrom.line # scanAt.line
      BY <2>2, <1>2, <1>5
    <3>2. PICK p : p = scanAt.position
      OBVIOUS
    <3>3. NL(input, p, SpaceEnd(input, p + 4)) # {}
      BY <3>1, <3>2, <1>1, PastFromLine
    <3>4. p + 4 <= Len(input) /\ SubSeq(input, p + 1, p + 4) \in {"from"}
      BY Zenon, <3>1, <3>2 DEF AtFrom, Ahead, Substr
    <3>5. t.from = p
      BY <3>2, <1>2, <1>5, <1>7 DEF StartsAt
    <3>6. Drifts(input, t)
      BY Zenon, <3>3, <3>4, <3>5, <1>7 DEF Drifts
    <3>7. n + 1 \in 1..(n + 1)
      BY <1>9
    <3> QED BY <3>6, <3>7, <1>9 DEF LineOK
  <2> QED BY <2>1, <2>2
<1>11. PICK c : c = Advanced(a, t.to)
  OBVIOUS
<1>12. Emit(t, c)
  BY <1>4, <1>6, <1>11 DEF LexWord
<1>13. LineOK(input, Append(tokens, t), Len(tokens) + 1, a.line, a.position)
  BY <1>8, <1>10
<1> QED BY <1>1, <1>2, <1>5, <1>7, <1>11, <1>12, <1>13, AdvancePlace

------------------------------------------------------------------------------
(* Import statements.                                                          *)

\* Advancing counts the line breaks that it crosses.
LEMMA LevelAdvanced ==
  ASSUME TextOK, NEW a \in Cursors, NEW c \in Cursors, a.position <= c.position,
         Level(input, a, c), NEW q \in c.position..Len(input)
  PROVE  Level(input, a, Advanced(c, q))
<1>1. PICK d : d = Advanced(c, q)
  OBVIOUS
<1>2. d \in Cursors /\ Moves(input, c, d)
  BY <1>1, AdvancedIn, AdvancedMoves
<1>3. a.position \in Nat /\ c.position \in Nat /\ c.line \in Nat /\ d.position \in Nat
  BY <1>2, CursorIn
<1> QED BY <1>1, <1>2, <1>3, LevelMoves

LEMMA LevelSkip ==
  ASSUME TextOK, NEW a \in Cursors, NEW c \in Cursors, a.position <= c.position,
         Level(input, a, c)
  PROVE  Level(input, a, Skip(c))
<1>1. PICK q : q = Skip(c).position
  OBVIOUS
<1>2. q \in c.position..Len(input) /\ Skip(c) = Advanced(c, q)
  BY <1>1, SkipIn
<1> QED BY <1>2, LevelAdvanced

LEMMA ImportPathPlace ==
  ASSUME TileInv, lexing = "running", AtImport, NEW path, path = StringToken(pastFrom),
         path # Refused,
         NEW rest, rest = Skip(OverString(pastFrom, path.to))
  PROVE  /\ Level(input, scanAt, rest)
         /\ \E q \in scanAt.position..(rest.position - 1) : Chr(input, q) \in Quote
<1>1. TextOK /\ AtFrom /\ At(pastFrom.position) \in Quote
  BY DEF TileInv, AtImport, Quote
<1>2. /\ StartsAt(path, pastFrom) /\ path.to > pastFrom.position
      /\ OverString(pastFrom, path.to) \in Cursors /\ rest \in Cursors
      /\ rest.position >= path.to /\ rest.position >= scanAt.position
      /\ pastFrom.position >= scanAt.position /\ path.to \in Nat
  BY ImportPathIn
<1>3. PICK a, p : a = scanAt /\ p = a.position
  OBVIOUS
<1>4. PICK b : b = Advanced(scanAt, p + 4)
  OBVIOUS
<1>5. /\ b \in Cursors /\ b.position = p + 4 /\ Moves(input, a, b) /\ Moves(input, b, pastFrom)
  BY <1>1, <1>3, <1>4, PastFromLine
<1>6. PICK f : f = pastFrom
  OBVIOUS
<1>7. PICK o : o = OverString(f, path.to)
  OBVIOUS
<1>8. /\ a \in Cursors /\ f \in Cursors /\ o \in Cursors
      /\ a.position \in Nat /\ a.line \in Nat /\ b.position \in Nat /\ b.line \in Nat
      /\ f.position \in Nat /\ f.line \in Nat /\ o.position \in Nat /\ rest.position \in Nat
  BY <1>1, <1>2, <1>3, <1>5, <1>6, <1>7, ScanAtIn, PastFromIn, CursorIn
<1>9. Level(input, a, a)
  BY DEF Level
<1>10. Level(input, a, b)
  BY <1>5, <1>8, <1>9, LevelMoves
<1>11. a.position <= b.position
  BY <1>3, <1>5, <1>8
<1>12. Level(input, a, f)
  BY <1>5, <1>6, <1>8, <1>10, <1>11, LevelMoves
<1>13. o.position = path.to /\ o.line = f.line
  <2>1. path.to \in 0..Len(input)
    BY <1>1, <1>2, <1>6, <1>8 DEF StartsAt, TextOK
  <2> QED BY <2>1, <1>1, <1>7, <1>8, OverStringIn
<1>14. a.position <= f.position /\ f.position <= o.position /\ a.position <= o.position
  BY <1>2, <1>3, <1>6, <1>8, <1>13
<1>15. Level(input, a, o)
  BY <1>8, <1>12, <1>13, <1>14, LevelMoves
<1>16. Level(input, a, rest)
  BY <1>1, <1>6, <1>7, <1>8, <1>14, <1>15, LevelSkip
<1>17. f.position \in a.position..(rest.position - 1) /\ Chr(input, f.position) \in Quote
  <2>1. f.position \in a.position..(rest.position - 1)
    BY <1>2, <1>6, <1>8, <1>14
  <2> QED BY <2>1, <1>1, <1>6, AtIsChr
<1> QED BY <1>3, <1>16, <1>17

LEMMA LexImportPlace == ASSUME TileInv, PlaceInv, LexImport PROVE PlaceInv'
<1>1. TextOK /\ lexing = "running" /\ AtImport
  BY DEF TileInv, LexImport, Running
<1>2. PICK a : a = scanAt
  OBVIOUS
<1>3. /\ a \in Cursors /\ a.position \in Nat /\ TokensPlaced(input, tokens)
      /\ CursorPlaced(input, tokens, a) /\ \E T : tokens \in Seq(T)
  BY <1>1, <1>2, ScanAtPlaced, CursorIn
<1>4. PICK path : path = StringToken(pastFrom)
  OBVIOUS
<1>5. PICK rest : rest = Skip(OverString(pastFrom, path.to))
  OBVIOUS
<1>6. CASE path = Refused
  <2>1. Throw
    BY <1>4, <1>6 DEF LexImport
  <2> QED BY <2>1 DEF Throw, PlaceInv
<1>7. path # Refused => /\ rest \in Cursors /\ rest.position >= a.position
                        /\ rest.position \in Nat /\ Level(input, a, rest)
                        /\ \E q \in a.position..(rest.position - 1) : Chr(input, q) \in Quote
  BY <1>1, <1>2, <1>4, <1>5, ImportPathIn, ImportPathPlace, CursorIn
<1>8. CASE path # Refused /\ ~Ahead(rest.position, 6, {"import"})
  <2>1. PICK t : t = Token("UNKNOWN", path.lexeme, scanAt, rest.position)
    OBVIOUS
  <2>2. Emit(t, rest)
    BY <1>4, <1>5, <1>8, <2>1 DEF LexImport
  <2>3. /\ t.from = a.position /\ t.to = rest.position /\ t.kind = "UNKNOWN"
        /\ t.line = a.line /\ t.column = a.column
    BY <2>1, <1>2 DEF Token
  <2>4. Holds(input, t)
    BY <2>3, <1>7, <1>8 DEF Holds
  <2>5. /\ t.from \in Nat /\ t.to \in Nat /\ t.from <= t.to
    BY <2>3, <1>3, <1>7, <1>8
  <2>6. CursorPlaced(input, Append(tokens, t), rest)
    BY <2>3, <2>4, <2>5, <1>3, <1>7, <1>8, PlacedBehind
  <2>7. PICK n : n = Len(tokens)
    OBVIOUS
  <2>8. /\ LineOK(input, Append(tokens, t), n + 1, a.line, a.position)
        /\ ColumnOK(input, tokens, n, a.column, a.position)
    BY <2>7, <1>3, PlacedThen
  <2>9. /\ LineOK(input, Append(tokens, t), n + 1, t.line, t.from)
        /\ ColumnOK(input, tokens, n, t.column, t.from)
    BY <2>3, <2>8
  <2> QED BY <2>2, <2>6, <2>7, <2>9, <1>1, EmitPlace
<1>9. CASE path # Refused /\ Ahead(rest.position, 6, {"import"})
  <2>1. rest.position + 6 \in rest.position..Len(input)
    BY <1>1, <1>7, <1>9, AheadInside DEF TextOK
  <2>2. PICK c : c = Advanced(rest, rest.position + 6)
    OBVIOUS
  <2>3. c \in Cursors /\ c.position = rest.position + 6 /\ Level(input, a, c)
    BY <2>1, <2>2, <1>1, <1>3, <1>7, <1>9, AdvancedIn, LevelAdvanced
  <2>4. /\ lexing' = "importing" /\ cursor' = Skip(c)
        /\ importing' = [path |-> path.lexeme, at |-> scanAt, items |-> << >>]
        /\ UNCHANGED <<input, tokens, import_infos>>
    BY <1>4, <1>5, <1>9, <2>2 DEF LexImport
  <2>5. PICK d : d = Skip(c)
    OBVIOUS
  <2>6. a.position <= c.position /\ c.position \in Nat
    BY <2>3, <1>3, <1>7, <1>9
  <2>7. /\ d \in Cursors /\ d.position \in c.position..Len(input) /\ Level(input, a, d)
    BY <2>3, <2>5, <2>6, <1>1, <1>3, SkipIn, LevelSkip
  <2>8. \E q \in a.position..(d.position - 1) : Chr(input, q) \in Quote
    <3>1. PICK q \in a.position..(rest.position - 1) : Chr(input, q) \in Quote
      BY <1>7, <1>9
    <3>2. q \in a.position..(d.position - 1)
      BY <2>3, <2>7, <1>1, <1>3, <1>7, <1>9 DEF TextOK
    <3> QED BY <3>1, <3>2
  <2>9. importing'.at = a /\ cursor' = d
    BY <2>4, <2>5, <1>2
  <2> QED BY <2>4, <2>7, <2>8, <2>9, <1>3 DEF PlaceInv
<1> QED BY <1>6, <1>8, <1>9

LEMMA EndImportPlace ==
  ASSUME TileInv, PlaceInv, lexing = "importing", NEW items, NEW c \in Cursors,
         NEW malformed, c.position >= cursor.position, Level(input, importing.at, c),
         EndImport(items, c, malformed)
  PROVE  PlaceInv'
<1>1. PICK a : a = importing.at
  OBVIOUS
<1>2. /\ TextOK /\ a \in Cursors /\ a.position \in Nat /\ cursor.position \in Nat
      /\ c.position \in Nat /\ a.position <= cursor.position /\ a.position <= c.position
      /\ cursor.position <= c.position /\ \E T : tokens \in Seq(T)
      /\ TokensPlaced(input, tokens) /\ CursorPlaced(input, tokens, a) /\ Level(input, a, c)
  <2>1. /\ TextOK /\ a \in Cursors /\ cursor \in Cursors /\ a.position <= cursor.position
        /\ \E T : tokens \in Seq(T)
    BY <1>1 DEF TileInv, Tiling
  <2>2. a.position \in Nat /\ cursor.position \in Nat /\ c.position \in Nat
    BY <2>1, CursorIn
  <2>3. TokensPlaced(input, tokens) /\ CursorPlaced(input, tokens, a)
    BY <1>1 DEF PlaceInv
  <2> QED BY <2>1, <2>2, <2>3, <1>1
<1>3. PICK end \in Cursors :
           /\ end.position \in c.position..Len(input)
           /\ \/ end = Skip(c)
              \/ end = Advanced(Skip(c), Skip(c).position + 1)
           /\ cursor' = end /\ importing' = NoImport /\ lexing' = "running"
           /\ UNCHANGED input
           /\ tokens' = tokens
                \o (IF malformed
                    THEN <<Token("UNKNOWN", importing.path, importing.at, c.position)>>
                    ELSE << >>)
                \o <<Token("IMPORT", importing.path, importing.at, end.position)>>
  BY Zenon, <1>2, EndImportTokens
<1>4. PICK u : u = Token("UNKNOWN", importing.path, importing.at, c.position)
  OBVIOUS
<1>5. PICK t : t = Token("IMPORT", importing.path, importing.at, end.position)
  OBVIOUS
<1>6. /\ u.from = a.position /\ u.line = a.line /\ u.column = a.column
      /\ t.from = a.position /\ t.line = a.line /\ t.column = a.column
      /\ t.to = end.position /\ t.kind = "IMPORT"
  BY <1>1, <1>4, <1>5 DEF Token
<1>7. end.position \in Nat /\ c.position <= end.position
  BY <1>2, <1>3 DEF TextOK
<1>8. Level(input, a, end)
  <2>1. PICK r : r = Skip(c)
    OBVIOUS
  <2>2. r \in Cursors /\ r.position \in c.position..Len(input) /\ Moves(input, c, r)
    BY <2>1, <1>2, SkipIn, SkipMoves
  <2>3. Level(input, a, r)
    BY <2>1, <1>2, LevelSkip
  <2>4. r.position \in Nat /\ a.position <= r.position
    BY <2>2, <1>2 DEF TextOK
  <2>5. CASE end = r
    BY <2>3, <2>5
  <2>6. CASE end = Advanced(r, r.position + 1) /\ r.position + 1 <= Len(input)
    <3>1. r.position + 1 \in r.position..Len(input)
      BY <2>4, <2>6, <1>2 DEF TextOK
    <3> QED BY <3>1, <2>2, <2>3, <2>4, <2>6, <1>2, LevelAdvanced
  <2>7. CASE end = Advanced(r, r.position + 1) /\ ~(r.position + 1 <= Len(input))
    <3>1. end.position = r.position + 1
      BY <2>7 DEF Advanced
    <3> QED BY <3>1, <2>4, <2>7, <1>2, <1>3 DEF TextOK
  <2> QED BY <2>1, <2>5, <2>6, <2>7, <1>3
<1>9. Holds(input, t)
  <2>1. PICK q \in a.position..(cursor.position - 1) : Chr(input, q) \in Quote
    BY <1>1 DEF PlaceInv
  <2>2. q \in t.from..(t.to - 1)
    BY <2>1, <1>2, <1>6, <1>7
  <2> QED BY <2>1, <2>2, <1>6 DEF Holds
<1>10. PICK T : tokens \in Seq(T)
  BY <1>2
\* Either way the IMPORT token is appended to placed tokens.
<1>11. PICK us : /\ tokens' = Append(us, t) /\ \E U : us \in Seq(U)
                 /\ TokensPlaced(input, us) /\ CursorPlaced(input, us, a)
  <2>1. CASE malformed
    <3>1. PICK us : us = Append(tokens, u)
      OBVIOUS
    <3>2. us \in Seq(T \union {u})
      BY <3>1, <1>10
    <3>3. TokensPlaced(input, us) /\ CursorPlaced(input, us, a)
      BY <3>1, <1>2, <1>6, PlacedAt
    <3>4. tokens' = Append(us, t)
      <4>1. tokens' = tokens \o <<u>> \o <<t>>
        BY <2>1, <1>3, <1>4, <1>5
      <4>2. tokens \o <<u>> = us
        BY <3>1, <1>10
      <4>3. tokens' = us \o <<t>>
        BY <4>1, <4>2
      <4> QED BY <4>3, <3>2
    <3> QED BY <3>2, <3>3, <3>4
  <2>2. CASE ~malformed
    <3>1. tokens' = Append(tokens, t)
      <4>1. tokens' = tokens \o << >> \o <<t>>
        BY <2>2, <1>3, <1>5
      <4>2. tokens \o << >> = tokens
        BY <1>10
      <4> QED BY <4>1, <4>2, <1>10
    <3> QED BY <3>1, <1>2
  <2> QED BY <2>1, <2>2
<1>12. TokensPlaced(input, Append(us, t))
  BY <1>6, <1>11, PlacedAt
<1>13. CursorPlaced(input, Append(us, t), end)
  <2>1. t.from \in Nat /\ t.to \in Nat /\ t.from <= t.to /\ end.position = t.to
        /\ a.position = t.from
    BY <1>2, <1>6, <1>7
  <2> QED BY <2>1, <1>8, <1>9, <1>11, PlacedBehind
<1> QED BY <1>3, <1>11, <1>12, <1>13 DEF PlaceInv

LEMMA LexImportEndPlace == ASSUME TileInv, PlaceInv, LexImportEnd PROVE PlaceInv'
<1>1. PICK c : c = cursor
  OBVIOUS
<1>2. lexing = "importing" /\ EndImport(importing.items, c, FALSE)
  BY <1>1 DEF LexImportEnd
<1>3. c \in Cursors /\ c.position >= cursor.position /\ Level(input, importing.at, c)
  BY <1>1, <1>2 DEF TileInv, PlaceInv, Cursors, TextOK
<1> QED BY <1>2, <1>3, EndImportPlace

\* No part of an item crosses a line break uncounted.
LEMMA ItemLevel ==
  ASSUME TextOK, cursor \in Cursors, NEW a \in Cursors, a.position <= cursor.position,
         Level(input, a, cursor)
  PROVE  /\ Level(input, a, pastName) /\ Level(input, a, afterItem)
         /\ HasAlias => Level(input, a, pastAlias)
<1>1. PICK c, n, s : c = cursor /\ n = pastName /\ s = afterName
  OBVIOUS
<1>2. /\ c \in Cursors /\ n \in Cursors /\ s \in Cursors
      /\ c.position <= n.position /\ n.position <= s.position
  <2>1. /\ pastName \in Cursors /\ pastName.position >= cursor.position
        /\ afterName \in Cursors /\ afterName.position >= pastName.position
    BY ItemIn
  <2>2. cursor.position \in Nat /\ pastName.position \in Nat /\ afterName.position \in Nat
    BY <2>1, CursorIn
  <2> QED BY <2>1, <2>2, <1>1
<1>3. /\ a.position \in Nat /\ c.position \in Nat /\ n.position \in Nat /\ s.position \in Nat
      /\ a.position <= c.position /\ a.position <= n.position /\ a.position <= s.position
  <2>1. /\ a.position \in Nat /\ c.position \in Nat /\ n.position \in Nat /\ s.position \in Nat
    BY <1>2, CursorIn
  <2> QED BY <2>1, <1>1, <1>2
<1>4. Level(input, a, n)
  <2>1. PICK t : t = itemName
    OBVIOUS
  <2>2. t.to \in c.position..Len(input)
    BY <2>1, <1>1, WordTokenIn DEF itemName, StartsAt
  <2>3. n = Advanced(c, t.to)
    BY <2>1, <1>1 DEF pastName
  <2> QED BY <2>2, <2>3, <1>1, <1>2, <1>3, LevelAdvanced
<1>5. Level(input, a, s)
  <2>1. s = Skip(n)
    BY <1>1 DEF afterName
  <2> QED BY <2>1, <1>2, <1>3, <1>4, LevelSkip
<1>6. ASSUME HasAlias PROVE Level(input, a, pastAlias) /\ Level(input, a, Skip(pastAlias))
  <2>1. s.position + 2 \in s.position..Len(input)
    BY <1>1, <1>3, <1>6, AheadInside DEF HasAlias, TextOK
  <2>2. PICK b : b = Advanced(s, s.position + 2)
    OBVIOUS
  <2>3. b \in Cursors /\ b.position = s.position + 2 /\ Level(input, a, b)
    BY <2>1, <2>2, <1>2, <1>3, <1>5, AdvancedIn, LevelAdvanced
  <2>4. b.position \in Nat /\ a.position <= b.position
    BY <2>3, <1>3
  <2>5. PICK e : e = aliasAt
    OBVIOUS
  <2>6. e = Skip(b)
    BY <2>2, <2>5, <1>1 DEF aliasAt
  <2>7. e \in Cursors /\ e.position \in b.position..Len(input) /\ Level(input, a, e)
    BY <2>3, <2>4, <2>6, SkipIn, LevelSkip
  <2>8. e.position \in Nat /\ a.position <= e.position
    BY <2>4, <2>7, <1>3 DEF TextOK
  <2>9. PICK t : t = itemAlias
    OBVIOUS
  <2>10. t.to \in e.position..Len(input)
    BY <2>5, <2>7, <2>9, WordTokenIn DEF itemAlias, StartsAt
  <2>11. PICK d : d = pastAlias
    OBVIOUS
  <2>12. d = Advanced(e, t.to)
    BY <2>5, <2>9, <2>11 DEF pastAlias
  <2>13. d \in Cursors /\ d.position = t.to /\ Level(input, a, d)
    BY <2>7, <2>8, <2>10, <2>12, AdvancedIn, LevelAdvanced
  <2>14. a.position <= d.position
    BY <2>8, <2>10, <2>13, <1>3 DEF TextOK
  <2>15. Level(input, a, Skip(d))
    BY <2>13, <2>14, LevelSkip
  <2> QED BY <2>11, <2>13, <2>15
<1>7. afterItem = IF HasAlias THEN Skip(pastAlias) ELSE s
  BY <1>1 DEF afterItem
<1> QED BY <1>1, <1>4, <1>5, <1>6, <1>7

LEMMA LexImportItemPlace == ASSUME TileInv, PlaceInv, LexImportItem PROVE PlaceInv'
<1>1. /\ TextOK /\ lexing = "importing" /\ cursor \in Cursors /\ importing.at \in Cursors
      /\ importing.at.position <= cursor.position /\ Level(input, importing.at, cursor)
  BY DEF TileInv, PlaceInv, LexImportItem
<1>a. PICK a : a = importing.at
  OBVIOUS
<1>2. CASE itemName.kind # "IDENTIFIER"
  <2>1. PICK c : c = pastName
    OBVIOUS
  <2>2. EndImport(importing.items, c, TRUE)
    BY <1>2, <2>1 DEF LexImportItem
  <2>3. c \in Cursors /\ c.position >= cursor.position /\ Level(input, a, c)
    BY <1>1, <1>a, <2>1, ItemIn, ItemLevel
  <2> QED BY <1>1, <1>a, <2>2, <2>3, EndImportPlace
<1>3. CASE itemName.kind = "IDENTIFIER" /\ HasAlias /\ itemAlias.kind # "IDENTIFIER"
  <2>1. PICK c : c = pastAlias
    OBVIOUS
  <2>2. EndImport(importing.items, c, TRUE)
    BY <1>3, <2>1 DEF LexImportItem
  <2>3. c \in Cursors /\ c.position >= cursor.position /\ Level(input, a, c)
    BY <1>1, <1>3, <1>a, <2>1, PastAliasIn, ItemLevel
  <2> QED BY <1>1, <1>a, <2>2, <2>3, EndImportPlace
<1>4. CASE /\ itemName.kind = "IDENTIFIER" /\ ~(HasAlias /\ itemAlias.kind # "IDENTIFIER")
  <2>1. PICK c : c = afterItem
    OBVIOUS
  <2>2. c \in Cursors /\ c.position >= cursor.position /\ Level(input, a, c)
    BY <1>1, <1>a, <2>1, AfterItemIn, ItemLevel
  <2>3. PICK items : items = itemsRead
    OBVIOUS
  <2>4. CASE EndImport(items, c, TRUE)
    BY <1>1, <1>a, <2>2, <2>4, EndImportPlace
  <2>5. CASE /\ importing' = [path |-> importing.path, at |-> importing.at,
                                items |-> itemsRead]
             /\ cursor' = IF At(c.position) = ","
                          THEN Skip(Advanced(c, c.position + 1)) ELSE c
             /\ UNCHANGED <<input, tokens, import_infos, lexing>>
    <3>0. /\ a.position \in Nat /\ cursor.position \in Nat /\ c.position \in Nat
          /\ a.position <= c.position /\ a \in Cursors
      <4>1. a.position \in Nat /\ cursor.position \in Nat /\ c.position \in Nat
        BY <1>1, <1>a, <2>2, CursorIn
      <4> QED BY <4>1, <1>1, <1>a, <2>2
    <3>1. PICK d : d = IF At(c.position) = ","
                       THEN Skip(Advanced(c, c.position + 1)) ELSE c
      OBVIOUS
    <3>2. d.position \in Nat /\ c.position <= d.position /\ Level(input, a, d)
      <4>1. CASE At(c.position) = ","
        <5>1. c.position < Len(input)
          BY Zenon, <4>1, AtInside
        <5>2. c.position + 1 \in c.position..Len(input)
          BY <5>1, <3>0, <1>1 DEF TextOK
        <5>3. PICK b : b = Advanced(c, c.position + 1)
          OBVIOUS
        <5>4. b \in Cursors /\ b.position = c.position + 1 /\ Level(input, a, b)
          BY <5>2, <5>3, <3>0, <2>2, <1>1, AdvancedIn, LevelAdvanced
        <5>5. b.position \in Nat /\ a.position <= b.position
          BY <5>4, <3>0
        <5>6. d = Skip(b)
          BY <4>1, <3>1, <5>3
        <5>7. Skip(b) \in Cursors /\ Skip(b).position \in b.position..Len(input)
              /\ Level(input, a, Skip(b))
          BY <5>4, <5>5, <3>0, <1>1, SkipIn, LevelSkip
        <5> QED BY <5>4, <5>5, <5>6, <5>7, <3>0, <1>1 DEF TextOK
      <4>2. CASE At(c.position) # ","
        <5>1. d = c
          BY Zenon, <4>2, <3>1
        <5>2. c.position <= c.position
          BY <3>0
        <5> QED BY Zenon, <5>1, <5>2, <3>0, <2>2
      <4> QED BY <4>1, <4>2
    <3>3. importing'.at = a /\ cursor' = d
      BY <2>5, <3>1, <1>a
    <3>4. \E q \in a.position..(d.position - 1) : Chr(input, q) \in Quote
      <4>1. PICK q \in a.position..(cursor.position - 1) : Chr(input, q) \in Quote
        BY <1>1, <1>a DEF PlaceInv
      <4>2. q \in a.position..(d.position - 1)
        BY <4>1, <3>0, <3>2, <2>2
      <4> QED BY <4>1, <4>2
    <3>5. TokensPlaced(input, tokens) /\ CursorPlaced(input, tokens, a)
      BY <1>1, <1>a DEF PlaceInv
    <3> QED BY <1>1, <2>5, <3>2, <3>3, <3>4, <3>5 DEF PlaceInv
  <2>6. \/ EndImport(items, c, TRUE)
        \/ /\ importing' = [path |-> importing.path, at |-> importing.at,
                                items |-> itemsRead]
           /\ cursor' = IF At(c.position) = ","
                        THEN Skip(Advanced(c, c.position + 1)) ELSE c
           /\ UNCHANGED <<input, tokens, import_infos, lexing>>
    BY Zenon, <1>4, <2>1, <2>3 DEF LexImportItem
  <2> QED BY <2>4, <2>5, <2>6
<1> QED BY <1>2, <1>3, <1>4

------------------------------------------------------------------------------

LEMMA InitPlace == ASSUME NEW text, Len(text) \in Nat, LexerInit(text) PROVE PlaceInv
<1>1. /\ input = text /\ tokens = << >> /\ lexing = "running"
      /\ cursor = [position |-> 0, line |-> 1, column |-> 1]
  BY DEF LexerInit
<1>2. NL(input, 0, 0) = {} /\ Cardinality(NL(input, 0, 0)) = 0
  <2>1. NL(input, 0, 0) \in SUBSET (0..(0 - 1))
    BY NLFinite
  <2>2. NL(input, 0, 0) = {}
    BY <2>1
  <2> QED BY <2>2, FS_EmptySet
<1>3. Start(input, 0) = -1
  BY <1>2, StartIn
<1>4. CursorPlaced(input, tokens, cursor)
  BY <1>1, <1>2, <1>3 DEF CursorPlaced, LineOK, ColumnOK
<1>5. TokensPlaced(input, tokens)
  BY <1>1 DEF TokensPlaced
<1> QED BY <1>1, <1>4, <1>5 DEF PlaceInv

LEMMA NextPlace == TileInv /\ PlaceInv /\ [LexerNext]_lexerVars => PlaceInv'
<1> SUFFICES ASSUME TileInv, PlaceInv, [LexerNext]_lexerVars PROVE PlaceInv'
  OBVIOUS
<1>1. CASE UNCHANGED lexerVars
  BY <1>1 DEF PlaceInv, lexerVars
<1>2. CASE LexerNext
  BY <1>2, SkipCommentPlace, LexStringPlace, LexImportPlace, LexImportItemPlace,
     LexImportEndPlace, LexWordPlace, LexNumberPlace, LexOperatorPlace, LexUnknownPlace,
     LexEndPlace DEF LexerNext
<1> QED BY <1>1, <1>2

LEMMA DriftsIsLineDrift ==
  ASSUME NEW t
  PROVE  (Drifts(input, t) => LineDrift(t)) /\ (Holds(input, t) => HoldsString(t))
<1>1. Holds(input, t) => HoldsString(t)
  BY AtIsChr DEF Holds, HoldsString
<1>2. ASSUME t.kind \notin {"IMPORT", "UNKNOWN"}, t.from + 4 <= Len(input),
             SubSeq(input, t.from + 1, t.from + 4) \in {"from"},
             NL(input, t.from, SpaceEnd(input, t.from + 4)) # {}
      PROVE  LineDrift(t)
  <2>1. Ahead(t.from, 4, {"from"})
    BY Zenon, <1>2 DEF Ahead, Substr
  <2>2. SpaceEnd(input, t.from + 4) = RunEnd(t.from + 4, Space)
    BY AtIsChr DEF SpaceEnd, RunEnd, FirstOf, Rest
  <2>3. Newlines(t.from, RunEnd(t.from + 4, Space)) # {}
    BY <1>2, <2>2, NewlinesIsNL
  <2> QED BY Zenon, <1>2, <2>1, <2>3 DEF LineDrift
<1>3. ASSUME Holds(input, t), NL(input, t.from, t.to) # {} PROVE LineDrift(t)
  <2>1. Newlines(t.from, t.to) # {}
    BY <1>3, NewlinesIsNL
  <2> QED BY Zenon, <1>1, <1>3, <2>1 DEF LineDrift
<1> QED BY Zenon, <1>1, <1>2, <1>3 DEF Drifts

LEMMA PlaceInvPlaces == TileInv /\ PlaceInv => PositionsTrue
<1> SUFFICES ASSUME TileInv, PlaceInv, lexing = "done", NEW k \in DOMAIN tokens
             PROVE  /\ \/ tokens[k].line = 1 + Cardinality(Newlines(0, tokens[k].from))
                       \/ \E j \in 1..k : LineDrift(tokens[j])
                    /\ \/ tokens[k].column
                            = tokens[k].from - Max({-1} \union Newlines(0, tokens[k].from))
                       \/ \E j \in 1..(k - 1) :
                             /\ HoldsString(tokens[j])
                             /\ tokens[j].to > Max({-1} \union Newlines(0, tokens[k].from))
  BY DEF PositionsTrue
<1>1. k \in 1..Len(tokens) /\ TokensPlaced(input, tokens)
  BY DEF TileInv, PlaceInv, Tiling
<1>2. /\ LineOK(input, tokens, k, tokens[k].line, tokens[k].from)
      /\ ColumnOK(input, tokens, k - 1, tokens[k].column, tokens[k].from)
  BY <1>1 DEF TokensPlaced
<1>3. PICK p : p = tokens[k].from
  OBVIOUS
<1>4. /\ Newlines(0, p) = NL(input, 0, p)
      /\ Max({-1} \union Newlines(0, p)) = Start(input, p)
  BY NewlinesIsNL DEF Start
<1>5. \/ tokens[k].line = 1 + Cardinality(Newlines(0, p))
      \/ \E j \in 1..k : LineDrift(tokens[j])
  BY <1>2, <1>3, <1>4, DriftsIsLineDrift DEF LineOK
<1>6. \/ tokens[k].column = p - Start(input, p)
      \/ \E j \in 1..(k - 1) : HoldsString(tokens[j]) /\ tokens[j].to > Start(input, p)
  BY <1>2, <1>3, DriftsIsLineDrift DEF ColumnOK
<1> QED BY <1>3, <1>4, <1>5, <1>6

\* For every text, the line and the column of a token are those of the text, up to
\* the places at which tokenize() is known to lose count.
THEOREM LexerPositions ==
  ASSUME NEW text, Len(text) \in Nat
  PROVE  LexerSpec(text) => []PositionsTrue
<1>1. LexerInit(text) => TileInv /\ PlaceInv
  BY InitTile, InitPlace
<1>2. TileInv /\ PlaceInv /\ [LexerNext]_lexerVars => TileInv' /\ PlaceInv'
  BY NextTile, NextPlace
<1> QED BY <1>1, <1>2, PlaceInvPlaces, PTL DEF LexerSpec
==============================================================================
