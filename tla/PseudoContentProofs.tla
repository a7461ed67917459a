------------------------- MODULE PseudoContentProofs -------------------------
(***************************************************************************)
(* Proofs about PseudoContent for every document.                           *)
(*                                                                         *)
(* parseContent is a loop over the text that Content writes; what the loop  *)
(* makes of each token and the space after it is found lexeme by lexeme,    *)
(* by induction over the text, so it has back the tokens but for control    *)
(* characters (ParsesWhatWasWritten).                                       *)
(*                                                                         *)
(* The walk is always inside elements that are cloned (NothingIgnored), and *)
(* each step changes the set of the elements around it (Around) by one      *)
(* element or not at all; the counters change in step with that set         *)
(* (ScopesInv).  What each of them holds is the initial value of its        *)
(* element and all that the places before have added in its scope, and the  *)
(* depth is the sum of the marks before (WalkInv): so the loop over the     *)
(* tokens of a place shows what the walk reads of the document (PlaceShown),*)
(* and for counters that it can follow that is what CSS says                *)
(* (ReadAsReference).                                                       *)
(***************************************************************************)
EXTENDS PseudoContent, FiniteSetTheorems, SequenceTheorems, WellFoundedInduction, TLAPS

-----------------------------------------------------------------------------
(***************************************************************************)
(* Recursive functions.                                                     *)
(***************************************************************************)

\* A set of numbers that is not empty has a least element: induction over Nat.
LEMMA LeastNumber ==
  ASSUME NEW S \in SUBSET Nat, S # {}
  PROVE  \E x \in S : \A y \in S : x <= y
<1>1. \E x \in S : \A y \in S : ~(<<y, x>> \in OpToRel(<, Nat))
  BY WFMin, NatLessThanWellFounded
<1>2. \A x, y \in Nat : <<y, x>> \in OpToRel(<, Nat) <=> y < x
  BY DEF OpToRel
<1>3. \A x, y \in Nat : ~(y < x) <=> x <= y
  OBVIOUS
<1>4. QED
  BY <1>1, <1>2, <1>3

\* What holds at 0 and passes from each number to the next holds at all up to n.
LEMMA UpTo ==
  ASSUME NEW n \in Nat, NEW Good, 0 \in Good, \A i \in 1..n : i - 1 \in Good => i \in Good
  PROVE  \A i \in 0..n : i \in Good
<1> DEFINE Bad == {i \in 0..n : i \notin Good}
<1>1. SUFFICES ASSUME Bad # {} PROVE FALSE
  OBVIOUS
<1>2. PICK m \in Bad : \A y \in Bad : m <= y
  <2>1. Bad \in SUBSET Nat
    OBVIOUS
  <2>2. QED
    BY <1>1, <2>1, LeastNumber
<1>3. m \in 1..n /\ m - 1 \in 0..n /\ ~(m <= m - 1)
  BY <1>2
<1>4. QED
  BY <1>2, <1>3

\* A function that is given at 0, and at i by its value at i - 1.
Iterates(f, n, S, start, next) ==
  f \in [0..n -> S] /\ f[0] = start /\ \A i \in 1..n : f[i] = next[<<i, f[i - 1]>>]

\* There is such a function.
LEMMA IteratesExists ==
  ASSUME NEW n \in Nat, NEW S, NEW start \in S, NEW next \in [(1..n) \X S -> S]
  PROVE  \E f : Iterates(f, n, S, start, next)
<1> DEFINE Good == {m \in 0..n : \E f : Iterates(f, m, S, start, next)}
<1>1. 0 \in Good
  <2> DEFINE f == [i \in 0..0 |-> start]
  <2>1. Iterates(f, 0, S, start, next)
    BY DEF Iterates
  <2>2. QED
    BY <2>1
<1>2. ASSUME NEW m \in 1..n, m - 1 \in Good PROVE m \in Good
  <2>1. PICK g : Iterates(g, m - 1, S, start, next)
    BY <1>2
  <2>2. m - 1 \in 0..(m - 1) /\ g[m - 1] \in S
    BY <2>1 DEF Iterates
  <2> DEFINE last == next[<<m, g[m - 1]>>]
             f == [i \in 0..m |-> IF i < m THEN g[i] ELSE last]
  <2>3. last \in S
    <3>1. <<m, g[m - 1]>> \in (1..n) \X S
      BY <2>2
    <3>2. QED
      BY <3>1
  <2> HIDE DEF last
  <2>4. \A i \in 0..(m - 1) : f[i] = g[i] /\ g[i] \in S
    BY <2>1 DEF Iterates
  <2>5. f \in [0..m -> S] /\ f[m] = last
    BY <2>3, <2>4
  <2> HIDE DEF f
  <2>6. ASSUME NEW i \in 1..m PROVE f[i] = next[<<i, f[i - 1]>>]
    <3>1. CASE i = m
      BY <2>2, <2>4, <2>5, <3>1 DEF last
    <3>2. CASE i # m
      <4>1. i \in 1..(m - 1) /\ i \in 0..(m - 1) /\ i - 1 \in 0..(m - 1)
        BY <3>2
      <4>2. QED
        BY <2>1, <2>4, <4>1 DEF Iterates
    <3>3. QED
      BY <3>1, <3>2
  <2>7. f[0] = start
    BY <2>1, <2>4 DEF Iterates
  <2>8. Iterates(f, m, S, start, next)
    BY <2>5, <2>6, <2>7 DEF Iterates
  <2>9. QED
    BY <2>8
<1> HIDE DEF Good
<1>3. \A m \in 0..n : m \in Good
  BY <1>1, <1>2, UpTo
<1>4. QED
  BY <1>3 DEF Good

-----------------------------------------------------------------------------
(***************************************************************************)
(* The loop of parseContent.                                                *)
(***************************************************************************)
\* What texts are made of.
Lexemes == STRING \cup {"'", "\"", "\\", "(", ")", ",", " ", "attr", "url", "counter", "counters",
                        "open-quote", "close-quote", "9", "a", "c", "d"}

\* The states of the loop, before the first lexeme of the text and after each.
LexingStates(s, text, n, f) == f = [i \in 0..n |-> IF i = 0 THEN s ELSE Lexeme(f[i - 1], text[i])]

\* There are such states,
LEMMA LexingExists ==
  ASSUME NEW s, NEW text, NEW n \in Nat
  PROVE  \E f : LexingStates(s, text, n, f)
<1> DEFINE Good == {m \in 0..n : \E f : LexingStates(s, text, m, f)}
<1>1. 0 \in Good
  <2> DEFINE f == [i \in 0..0 |-> s]
  <2>1. f = [i \in 0..0 |-> IF i = 0 THEN s ELSE Lexeme(f[i - 1], text[i])]
    <3>1. \A i \in 0..0 : i = 0
      OBVIOUS
    <3>2. QED
      BY <3>1
  <2>2. LexingStates(s, text, 0, f)
    BY <2>1 DEF LexingStates
  <2>3. QED
    BY <2>2
<1>2. ASSUME NEW m \in 1..n, m - 1 \in Good PROVE m \in Good
  <2>1. PICK g : LexingStates(s, text, m - 1, g)
    BY <1>2
  <2>2. \A i \in 0..(m - 1) : g[i] = IF i = 0 THEN s ELSE Lexeme(g[i - 1], text[i])
    BY <2>1 DEF LexingStates
  <2> DEFINE last == Lexeme(g[m - 1], text[m])
             f == [i \in 0..m |-> IF i < m THEN g[i] ELSE last]
  <2> HIDE DEF last
  <2>3. \A i \in 0..(m - 1) : f[i] = g[i]
    OBVIOUS
  <2>4. f[m] = last /\ m \in 0..m
    OBVIOUS
  <2>5. f = [i \in 0..m |-> f[i]]
    OBVIOUS
  <2> HIDE DEF f
  <2>6. ASSUME NEW i \in 0..m
        PROVE  f[i] = IF i = 0 THEN s ELSE Lexeme(f[i - 1], text[i])
    <3>1. CASE i = m
      <4>1. f[m - 1] = g[m - 1] /\ m # 0
        BY <2>3
      <4>2. QED
        BY <2>4, <3>1, <4>1 DEF last
    <3>2. CASE i # m
      <4>1. i \in 0..(m - 1) /\ (i # 0 => i - 1 \in 0..(m - 1))
        BY <3>2
      <4>2. f[i] = g[i] /\ (i # 0 => f[i - 1] = g[i - 1])
        BY <2>3, <4>1
      <4>3. g[i] = IF i = 0 THEN s ELSE Lexeme(g[i - 1], text[i])
        BY <2>2, <4>1
      <4>4. QED
        BY <4>2, <4>3
    <3>3. QED
      BY <3>1, <3>2
  <2>7. LexingStates(s, text, m, f)
    BY <2>5, <2>6 DEF LexingStates
  <2>8. QED
    BY <2>7
<1> HIDE DEF Good
<1>3. \A m \in 0..n : m \in Good
  BY <1>1, <1>2, UpTo
<1>4. QED
  BY <1>3 DEF Good

\* and Lexed is the last of them.
LEMMA LexedSteps ==
  ASSUME NEW s, NEW text \in Seq(Lexemes)
  PROVE  \E f : /\ f[0] = s /\ \A i \in 1..Len(text) : f[i] = Lexeme(f[i - 1], text[i])
                /\ Lexed(s, text) = f[Len(text)]
<1> DEFINE f == CHOOSE g : LexingStates(s, text, Len(text), g)
<1>1. Len(text) \in Nat
  OBVIOUS
<1>2. LexingStates(s, text, Len(text), f)
  BY <1>1, LexingExists
<1>3. Lexed(s, text) = f[Len(text)]
  BY DEF Lexed, LexingStates
<1> HIDE DEF f
<1>4. f[0] = s /\ \A i \in 1..Len(text) : f[i] = Lexeme(f[i - 1], text[i])
  <2>1. 0 \in 0..Len(text) /\ \A i \in 1..Len(text) : i \in 0..Len(text) /\ i # 0
    BY <1>1
  <2>2. QED
    BY <1>2, <2>1 DEF LexingStates
<1>5. QED
  BY <1>3, <1>4

\* No other states come one from another like these.
LEMMA LexedOnly ==
  ASSUME NEW s, NEW text \in Seq(Lexemes), NEW g, g[0] = s,
         \A i \in 1..Len(text) : g[i] = Lexeme(g[i - 1], text[i])
  PROVE  Lexed(s, text) = g[Len(text)]
<1>1. PICK f : /\ f[0] = s /\ \A i \in 1..Len(text) : f[i] = Lexeme(f[i - 1], text[i])
               /\ Lexed(s, text) = f[Len(text)]
  BY LexedSteps
<1> DEFINE Good == {i \in 0..Len(text) : f[i] = g[i]}
<1>2. Len(text) \in Nat /\ Len(text) \in 0..Len(text)
  OBVIOUS
<1>3. 0 \in Good /\ \A i \in 1..Len(text) : i - 1 \in Good => i \in Good
  BY <1>1, <1>2
<1> HIDE DEF Good
<1>4. \A i \in 0..Len(text) : i \in Good
  BY <1>2, <1>3, UpTo
<1>5. QED
  BY <1>1, <1>2, <1>4 DEF Good

\* One text after another.
LEMMA LexedConcat ==
  ASSUME NEW s, NEW a \in Seq(Lexemes), NEW b \in Seq(Lexemes)
  PROVE  Lexed(s, a \o b) = Lexed(Lexed(s, a), b)
<1>1. PICK f : /\ f[0] = s /\ \A i \in 1..Len(a) : f[i] = Lexeme(f[i - 1], a[i])
               /\ Lexed(s, a) = f[Len(a)]
  BY LexedSteps
<1>2. PICK h : /\ h[0] = Lexed(s, a) /\ \A i \in 1..Len(b) : h[i] = Lexeme(h[i - 1], b[i])
               /\ Lexed(Lexed(s, a), b) = h[Len(b)]
  BY LexedSteps
<1> DEFINE r == a \o b
           l == Len(a)
           m == Len(b)
<1>3. /\ r \in Seq(Lexemes) /\ l \in Nat /\ m \in Nat /\ Len(r) = l + m
      /\ \A i \in 1..(l + m) : r[i] = IF i <= l THEN a[i] ELSE b[i - l]
  BY ConcatProperties
<1> HIDE DEF r, l, m
<1> DEFINE g == [i \in 0..(l + m) |-> IF i <= l THEN f[i] ELSE h[i - l]]
<1>4. g[0] = s /\ g[l + m] = h[m]
  <2>1. 0 \in 0..(l + m) /\ 0 <= l /\ l + m \in 0..(l + m) /\ (l + m <= l => m = 0 /\ l + m = l)
        /\ (l + m) - l = m
    BY <1>3
  <2>2. QED
    BY <1>1, <1>2, <2>1 DEF l
<1>5. ASSUME NEW i \in 1..(l + m) PROVE g[i] = Lexeme(g[i - 1], r[i])
  <2>1. i \in 0..(l + m) /\ i - 1 \in 0..(l + m)
    BY <1>3
  <2>2. CASE i <= l
    <3>1. i \in 1..Len(a) /\ i - 1 <= l
      BY <1>3, <2>2 DEF l
    <3>2. QED
      BY <1>1, <1>3, <2>1, <2>2, <3>1
  <2>3. CASE ~(i <= l)
    <3>1. i - l \in 1..Len(b) /\ (i - 1 <= l => i - 1 = l /\ (i - l) - 1 = 0) /\ (i - 1) - l = (i - l) - 1
      BY <1>3, <2>3 DEF m
    <3>2. g[i] = h[i - l] /\ r[i] = b[i - l]
      BY <1>3, <2>1, <2>3
    <3>3. g[i - 1] = h[(i - l) - 1]
      <4>1. CASE i - 1 <= l
        BY <1>1, <1>2, <2>1, <3>1, <4>1 DEF l
      <4>2. CASE ~(i - 1 <= l)
        BY <2>1, <3>1, <4>2
      <4>3. QED
        BY <4>1, <4>2
    <3>4. QED
      BY <1>2, <3>1, <3>2, <3>3
  <2>4. QED
    BY <2>2, <2>3
<1> HIDE DEF g
<1>6. Lexed(s, r) = g[Len(r)]
  BY <1>3, <1>4, <1>5, LexedOnly
<1>7. QED
  BY <1>2, <1>3, <1>4, <1>6 DEF r, m

\* Short texts.
LEMMA LexedShort ==
  /\ \A s : Lexed(s, <<>>) = s
  /\ \A s : \A c \in Lexemes : Lexed(s, <<c>>) = Lexeme(s, c)
  /\ \A s : \A c, d \in Lexemes : Lexed(s, <<c, d>>) = Lexeme(Lexeme(s, c), d)
  /\ \A s : \A c, d, e \in Lexemes : Lexed(s, <<c, d, e>>) = Lexeme(Lexeme(Lexeme(s, c), d), e)
<1>1. ASSUME NEW s PROVE Lexed(s, <<>>) = s
  <2>1. <<>> \in Seq(Lexemes) /\ Len(<<>>) = 0
    OBVIOUS
  <2>2. PICK f : /\ f[0] = s /\ \A i \in 1..Len(<<>>) : f[i] = Lexeme(f[i - 1], <<>>[i])
                 /\ Lexed(s, <<>>) = f[Len(<<>>)]
    BY <2>1, LexedSteps
  <2>3. QED
    BY <2>1, <2>2
<1>2. ASSUME NEW s, NEW c \in Lexemes PROVE Lexed(s, <<c>>) = Lexeme(s, c)
  <2>1. <<c>> \in Seq(Lexemes) /\ Len(<<c>>) = 1 /\ <<c>>[1] = c
    OBVIOUS
  <2>2. PICK f : f[0] = s /\ f[1] = Lexeme(f[1 - 1], c) /\ Lexed(s, <<c>>) = f[1]
    BY <2>1, LexedSteps
  <2>3. QED
    BY <2>2
<1>3. ASSUME NEW s, NEW c \in Lexemes, NEW d \in Lexemes
      PROVE  Lexed(s, <<c, d>>) = Lexeme(Lexeme(s, c), d)
  <2>1. <<c, d>> = <<c>> \o <<d>> /\ <<c>> \in Seq(Lexemes) /\ <<d>> \in Seq(Lexemes)
    <3>1. <<c>> \in Seq(Lexemes) /\ <<d>> \in Seq(Lexemes)
      OBVIOUS
    <3>2. <<c, d>> = Append(<<c>>, d)
      OBVIOUS
    <3>3. Append(<<c>>, d) = <<c>> \o <<d>>
      BY <3>1, AppendIsConcat
    <3>4. QED
      BY <3>1, <3>2, <3>3
  <2>2. Lexed(s, <<c>> \o <<d>>) = Lexed(Lexed(s, <<c>>), <<d>>)
    BY <2>1, LexedConcat
  <2>3. QED
    BY <1>2, <2>1, <2>2
<1>4. ASSUME NEW s, NEW c \in Lexemes, NEW d \in Lexemes, NEW e \in Lexemes
      PROVE  Lexed(s, <<c, d, e>>) = Lexeme(Lexeme(Lexeme(s, c), d), e)
  <2>1. <<c, d, e>> = <<c, d>> \o <<e>> /\ <<c, d>> \in Seq(Lexemes) /\ <<e>> \in Seq(Lexemes)
    OBVIOUS
  <2>2. Lexed(s, <<c, d>> \o <<e>>) = Lexed(Lexed(s, <<c, d>>), <<e>>)
    BY <2>1, LexedConcat
  <2>3. QED
    BY <1>2, <1>3, <2>1, <2>2
<1>5. QED
  BY <1>1, <1>2, <1>3, <1>4

\* A state of the loop.
State(tokens, str, isString, isEscaped, isFunction, functionName, args) ==
  [tokens |-> tokens, str |-> str, isString |-> isString, isEscaped |-> isEscaped,
   isFunction |-> isFunction, functionName |-> functionName, args |-> args]

\* Lexemes outside strings.
\* Lexemes that have no meaning of their own outside strings.
PlainLexemes == {c \in Lexemes : c \notin {"'", "\"", "\\", "(", ")", ",", " ", "\t"}}
WordRead(k, s, n, a, c) ==
  /\ Lexeme(State(k, s, FALSE, FALSE, FALSE, n, a), c) = State(k, Append(s, c), FALSE, FALSE, FALSE, n, a)
  /\ Lexeme(State(k, s, FALSE, FALSE, TRUE, n, a), c) = State(k, Append(s, c), FALSE, FALSE, TRUE, n, a)
LEMMA WordOutside ==
  ASSUME NEW k, NEW s, NEW n, NEW a, NEW c \in PlainLexemes
  PROVE  WordRead(k, s, n, a, c)
<1>1. c \notin {"'", "\"", "\\", "(", ")", ",", " ", "\t"}
  BY DEF PlainLexemes
<1>2. QED
  BY <1>1 DEF WordRead, Lexeme, Keep, State

\* A quotation mark outside of strings.
LEMMA MarkOutside ==
  ASSUME NEW k, NEW s, NEW f \in BOOLEAN, NEW n, NEW a
  PROVE  Lexeme(State(k, s, FALSE, FALSE, f, n, a), "\"") = State(k, s, TRUE, FALSE, f, n, a)
BY DEF Lexeme, Mark, State

OpenBracketRead(k, s, n, a) ==
  Lexeme(State(k, s, FALSE, FALSE, FALSE, n, a), "(") = State(k, <<>>, FALSE, FALSE, TRUE, s, <<>>)

\* An opening bracket.
LEMMA OpenBracketOutside ==
  ASSUME NEW k, NEW s, NEW n, NEW a
  PROVE  OpenBracketRead(k, s, n, a)
BY DEF OpenBracketRead, Lexeme, OpenBracket, State

CommaRead(k, s, n, a) ==
  Lexeme(State(k, s, FALSE, FALSE, TRUE, n, a), ",")
    = State(k, <<>>, FALSE, FALSE, TRUE, n, Append(a, s))
LEMMA CommaOutside ==
  ASSUME NEW k, NEW s, NEW n, NEW a
  PROVE  CommaRead(k, s, n, a)
BY DEF CommaRead, Lexeme, Comma, State

\* A space ends a word, and there may be none.
WithWord(k, s) == IF s # <<>> THEN addOtherToken(k, s) ELSE k
SpaceRead(k, s, n, a) ==
  /\ Lexeme(State(k, s, FALSE, FALSE, FALSE, n, a), " ")
       = State(WithWord(k, s), <<>>, FALSE, FALSE, FALSE, n, a)
  /\ Lexeme(State(k, <<>>, FALSE, FALSE, TRUE, n, a), " ") = State(k, <<>>, FALSE, FALSE, TRUE, n, a)
LEMMA SpaceOutside ==
  ASSUME NEW k, NEW s, NEW n, NEW a
  PROVE  SpaceRead(k, s, n, a)
<1>1. CASE s # <<>>
  <2>1. WithWord(k, s) = addOtherToken(k, s)
    BY <1>1 DEF WithWord
  <2>2. QED
    BY <1>1, <2>1 DEF SpaceRead, Lexeme, Space, State
<1>2. CASE s = <<>>
  <2>1. WithWord(k, s) = k
    BY <1>2 DEF WithWord
  <2>2. QED
    BY <1>2, <2>1 DEF SpaceRead, Lexeme, Space, State
<1>3. QED
  BY <1>1, <1>2

\* The arguments of a function that ends.
WithLast(a, s) == IF s # <<>> THEN Append(a, s) ELSE a
CloseBracketRead(k, s, n, a) ==
  Lexeme(State(k, s, FALSE, FALSE, TRUE, n, a), ")")
    = State(k \o functionTokens(n, WithLast(a, s)), <<>>, FALSE, FALSE, FALSE, n, WithLast(a, s))
LEMMA CloseBracketOutside ==
  ASSUME NEW k, NEW s, NEW n, NEW a
  PROVE  CloseBracketRead(k, s, n, a)
<1>1. CASE s # <<>>
  <2>1. WithLast(a, s) = Append(a, s)
    BY <1>1 DEF WithLast
  <2>2. QED
    BY <1>1, <2>1 DEF CloseBracketRead, Lexeme, CloseBracket, State
<1>2. CASE s = <<>>
  <2>1. WithLast(a, s) = a
    BY <1>2 DEF WithLast
  <2>2. QED
    BY <1>2, <2>1 DEF CloseBracketRead, Lexeme, CloseBracket, State
<1>3. QED
  BY <1>1, <1>2

\* Lexemes in strings.
Writable == {c \in Lexemes : c # "'"}
\* What c adds to a string whose text so far is s.
EscapedRead(k, s, f, n, a, c) ==
  Lexed(State(k, s, TRUE, FALSE, f, n, a), Escaped(c))
    = State(k, s \o KeptLexeme(c), TRUE, FALSE, f, n, a)
LEMMA EscapedInside ==
  ASSUME NEW k, NEW s \in Seq(Lexemes), NEW f \in BOOLEAN, NEW n, NEW a, NEW c \in Writable
  PROVE  EscapedRead(k, s, f, n, a, c)
<1>1. c \in Lexemes /\ "\\" \in Lexemes /\ " " \in Lexemes /\ c # "'"
  BY DEF Lexemes, Writable
<1>2. "\"" \notin Controls /\ "\\" \notin Controls
  BY DEF Controls
<1>3. Lexeme(State(k, s, TRUE, FALSE, f, n, a), "\\") = State(k, s, TRUE, TRUE, f, n, a)
  BY DEF Lexeme, State
<1>4. CASE c \in {"\"", "\\"}
  <2>1. Escaped(c) = <<"\\", c>> /\ KeptLexeme(c) = <<c>>
    BY <1>2, <1>4 DEF Escaped, KeptLexeme
  <2>2. Lexed(State(k, s, TRUE, FALSE, f, n, a), <<"\\", c>>)
          = Lexeme(Lexeme(State(k, s, TRUE, FALSE, f, n, a), "\\"), c)
    BY <1>1, LexedShort
  <2>3. Lexeme(State(k, s, TRUE, TRUE, f, n, a), c) = State(k, Append(s, c), TRUE, FALSE, f, n, a)
    <3>1. CASE c = "\""
      BY <3>1 DEF Lexeme, Mark, Keep, State
    <3>2. CASE c = "\\"
      BY <3>2 DEF Lexeme, Keep, State
    <3>3. QED
      BY <1>4, <3>1, <3>2
  <2>4. Append(s, c) = s \o <<c>>
    BY <1>1, AppendIsConcat
  <2>5. QED
    BY <1>3, <2>1, <2>2, <2>3, <2>4 DEF EscapedRead
<1>5. CASE c \in Controls
  <2> DEFINE h == Hex(c)
             w == " "
  <2>1. h \in {"9", "a", "c", "d"}
    BY <1>5 DEF Controls, Hex
  <2>2. h \in Lexemes /\ w \in Lexemes
    BY <2>1 DEF Lexemes
  <2>3. Escaped(c) = <<"\\", h, w>> /\ KeptLexeme(c) = <<h, w>>
    BY <1>2, <1>5 DEF Escaped, KeptLexeme
  <2>4. Lexeme(State(k, s, TRUE, TRUE, f, n, a), h) = State(k, Append(s, h), TRUE, FALSE, f, n, a)
    <3> HIDE DEF h
    <3>1. QED
      BY <2>1 DEF Lexeme, Keep, State
  <2>5. Lexeme(State(k, Append(s, h), TRUE, FALSE, f, n, a), w)
          = State(k, Append(Append(s, h), w), TRUE, FALSE, f, n, a)
    <3> HIDE DEF h
    <3>1. QED
      BY DEF Lexeme, Keep, State
  <2> HIDE DEF h, w
  <2>6. Lexed(State(k, s, TRUE, FALSE, f, n, a), <<"\\", h, w>>)
          = Lexeme(Lexeme(Lexeme(State(k, s, TRUE, FALSE, f, n, a), "\\"), h), w)
    <3> DEFINE b == "\\"
               x == State(k, s, TRUE, FALSE, f, n, a)
    <3>1. b \in Lexemes
      BY <1>1
    <3> HIDE DEF b, x
    <3>2. Lexed(x, <<b, h, w>>) = Lexeme(Lexeme(Lexeme(x, b), h), w)
      BY <2>2, <3>1, LexedShort
    <3>3. QED
      BY <3>2 DEF b, x
  <2>7. Append(Append(s, h), w) = s \o <<h, w>>
    BY <2>2
  <2>8. QED
    BY <1>3, <2>3, <2>4, <2>5, <2>6, <2>7 DEF EscapedRead
<1>6. CASE c \notin {"\"", "\\"} /\ c \notin Controls
  <2>1. Escaped(c) = <<c>> /\ KeptLexeme(c) = <<c>>
    BY <1>6 DEF Escaped, KeptLexeme
  <2>2. Lexed(State(k, s, TRUE, FALSE, f, n, a), <<c>>) = Lexeme(State(k, s, TRUE, FALSE, f, n, a), c)
    BY <1>1, LexedShort
  <2>3. Lexeme(State(k, s, TRUE, FALSE, f, n, a), c) = State(k, Append(s, c), TRUE, FALSE, f, n, a)
    BY <1>1, <1>6 DEF Lexeme, Keep, State
  <2>4. Append(s, c) = s \o <<c>>
    BY <1>1, AppendIsConcat
  <2>5. QED
    BY <2>1, <2>2, <2>3, <2>4 DEF EscapedRead
<1>7. QED
  BY <1>4, <1>5, <1>6

LEMMA MarkInside ==
  ASSUME NEW k, NEW s, NEW n, NEW a
  PROVE  /\ Lexeme(State(k, s, TRUE, FALSE, TRUE, n, a), "\"") = State(k, s, FALSE, FALSE, TRUE, n, a)
         /\ Lexeme(State(k, s, TRUE, FALSE, FALSE, n, a), "\"")
              = State(Append(k, [type |-> "string", value |-> s]), <<>>, FALSE, FALSE, FALSE, n, a)
BY DEF Lexeme, Mark, State

\* A text of texts, and its beginnings.
JoinedBy(texts, between, n, S, j) ==
  /\ j \in [0..n -> Seq(S)] /\ j[0] = <<>> /\ Joined(texts, between) = j[n]
  /\ \A i \in 1..n : j[i] = (j[i - 1] \o (IF i = 1 THEN <<>> ELSE between)) \o texts[i]
LEMMA JoinedSteps ==
  ASSUME NEW n \in Nat, NEW S, NEW texts, Len(texts) = n, \A i \in 1..n : texts[i] \in Seq(S),
         NEW between \in Seq(S)
  PROVE  \E j : JoinedBy(texts, between, n, S, j)
<1> DEFINE Step(i, t) == (t \o (IF i = 1 THEN <<>> ELSE between)) \o texts[i]
           next == [p \in (1..n) \X Seq(S) |-> Step(p[1], p[2])]
           Is(g) == g = [i \in 0..n |-> IF i = 0 THEN <<>> ELSE Step(i, g[i - 1])]
           j == CHOOSE g : Is(g)
<1>1. \A i \in 1..n : \A t \in Seq(S) : Step(i, t) \in Seq(S)
  <2> SUFFICES ASSUME NEW i \in 1..n, NEW t \in Seq(S) PROVE Step(i, t) \in Seq(S)
    OBVIOUS
  <2> DEFINE b == IF i = 1 THEN <<>> ELSE between
  <2>1. b \in Seq(S)
    <3>1. <<>> \in Seq(S)
      OBVIOUS
    <3>2. QED
      BY <3>1
  <2> HIDE DEF b
  <2>2. t \o b \in Seq(S)
    BY <2>1, ConcatProperties
  <2>3. (t \o b) \o texts[i] \in Seq(S)
    BY <2>2, ConcatProperties
  <2>4. QED
    BY <2>3 DEF b
<1> HIDE DEF Step
<1>2. next \in [(1..n) \X Seq(S) -> Seq(S)] /\ <<>> \in Seq(S)
  BY <1>1
<1>3. PICK f : Iterates(f, n, Seq(S), <<>>, next)
  BY <1>2, IteratesExists
<1>4. f \in [0..n -> Seq(S)] /\ f[0] = <<>> /\ \A i \in 1..n : f[i] = Step(i, f[i - 1])
  <2>1. f \in [0..n -> Seq(S)] /\ f[0] = <<>> /\ \A i \in 1..n : f[i] = next[<<i, f[i - 1]>>]
    BY <1>3 DEF Iterates
  <2>2. \A i \in 1..n : <<i, f[i - 1]>> \in (1..n) \X Seq(S)
    BY <2>1
  <2>3. QED
    BY <2>1, <2>2
<1>5. Is(f)
  <2>1. \A i \in 0..n : i = 0 \/ i \in 1..n
    OBVIOUS
  <2>2. QED
    BY <1>4, <2>1
<1>6. Is(j)
  BY <1>5
<1>7. Joined(texts, between) = j[n]
  BY DEF Joined, Step
<1> HIDE DEF j
<1>8. j[0] = <<>> /\ \A i \in 1..n : j[i] = Step(i, j[i - 1])
  <2>1. 0 \in 0..n /\ \A i \in 1..n : i \in 0..n /\ i # 0
    OBVIOUS
  <2>2. QED
    BY <1>6, <2>1
<1>9. \A i \in 0..n : j[i] \in Seq(S)
  <2> DEFINE Good == {i \in 0..n : j[i] \in Seq(S)}
  <2>1. 0 \in Good
    <3>1. 0 \in 0..n
      OBVIOUS
    <3>2. j[0] \in Seq(S)
      BY <1>2, <1>8
    <3>3. QED
      BY <3>1, <3>2
  <2>2. \A i \in 1..n : i - 1 \in Good => i \in Good
    BY <1>1, <1>8
  <2> HIDE DEF Good
  <2>3. \A i \in 0..n : i \in Good
    BY <2>1, <2>2, UpTo
  <2>4. QED
    BY <2>3 DEF Good
<1>10. j \in [0..n -> Seq(S)]
  BY <1>6, <1>9
<1>11. JoinedBy(texts, between, n, S, j)
  BY <1>7, <1>8, <1>10 DEF Step, JoinedBy
<1>12. QED
  BY <1>11

\* The beginnings of a sequence.
LEMMA Beginnings ==
  ASSUME NEW S, NEW q \in Seq(S)
  PROVE  /\ SubSeq(q, 1, 0) = <<>> /\ SubSeq(q, 1, Len(q)) = q
         /\ \A i \in 1..Len(q) : SubSeq(q, 1, i) = Append(SubSeq(q, 1, i - 1), q[i])
         /\ \A i \in 0..Len(q) : SubSeq(q, 1, i) \in Seq(S)
<1>1. SubSeq(q, 1, 0) = <<>>
  OBVIOUS
<1>2. SubSeq(q, 1, Len(q)) = q
  OBVIOUS
<1>3. ASSUME NEW i \in 0..Len(q)
      PROVE  /\ SubSeq(q, 1, i) \in Seq(S) /\ Len(SubSeq(q, 1, i)) = i
             /\ \A j \in 1..i : SubSeq(q, 1, i)[j] = q[j]
  <2>1. \A j \in 1..i : q[j] \in S
    OBVIOUS
  <2>2. QED
    BY <2>1
<1>4. ASSUME NEW i \in 1..Len(q) PROVE SubSeq(q, 1, i) = Append(SubSeq(q, 1, i - 1), q[i])
  <2> DEFINE a == SubSeq(q, 1, i)
             b == SubSeq(q, 1, i - 1)
  <2>1. /\ a \in Seq(S) /\ Len(a) = i /\ \A j \in 1..i : a[j] = q[j]
        /\ b \in Seq(S) /\ Len(b) = i - 1 /\ \A j \in 1..(i - 1) : b[j] = q[j]
        /\ q[i] \in S
    BY <1>3
  <2> HIDE DEF a, b
  <2>2. Append(b, q[i]) \in Seq(S) /\ Len(Append(b, q[i])) = i
        /\ \A j \in 1..i : Append(b, q[i])[j] = q[j]
    BY <2>1
  <2> DEFINE c == Append(b, q[i])
  <2> HIDE DEF c
  <2>3. a = c
    <3>1. c \in Seq(S) /\ Len(c) = i /\ \A j \in 1..i : c[j] = q[j]
      BY <2>2 DEF c
    <3>2. Len(a) = Len(c) /\ \A j \in 1..Len(a) : a[j] = c[j]
      BY <2>1, <3>1
    <3>3. QED
      BY <2>1, <3>1, <3>2, SeqEqual
  <2>4. QED
    BY <2>3 DEF a, b, c
<1>5. QED
  BY <1>1, <1>2, <1>3, <1>4

\* What lexemes are.
LEMMA LexemesAre ==
  /\ \A c \in STRING : c \in Lexemes
  /\ \A c \in Words : c \in Lexemes
  /\ {"'", "\"", "\\", "(", ")", ",", " ", "attr", "url", "counter", "counters", "open-quote",
      "close-quote"} \subseteq Lexemes
<1>1. \A c \in STRING : c \in Lexemes
  BY DEF Lexemes
<1>2. \A c \in Words : c \in Lexemes
  BY DEF Lexemes, Words
<1>3. {"'", "\"", "\\", "(", ")", ",", " ", "attr", "url", "counter", "counters", "open-quote",
       "close-quote"} \subseteq Lexemes
  BY DEF Lexemes
<1>4. QED
  BY <1>1, <1>2, <1>3

\* Texts of up to three lexemes.
LEMMA ShortTexts ==
  /\ \A X : \A c \in X : <<c>> \in Seq(X)
  /\ \A X : \A c, d \in X : <<c, d>> \in Seq(X)
  /\ \A X : \A c, d, e \in X : <<c, d, e>> \in Seq(X)
OBVIOUS

\* Texts one after another.
InARow(texts, n, S, j) ==
  /\ j[0] = <<>> /\ Joined(texts, <<>>) = j[n]
  /\ \A i \in 0..n : j[i] \in Seq(S)
  /\ \A i \in 1..n : j[i] = j[i - 1] \o texts[i]
LEMMA InARowExists ==
  ASSUME NEW n \in Nat, NEW S, NEW texts, Len(texts) = n, \A i \in 1..n : texts[i] \in Seq(S)
  PROVE  \E j : InARow(texts, n, S, j)
<1> DEFINE none == <<>>
<1>1. none \in Seq(S)
  OBVIOUS
<1> HIDE DEF none
<1>2. PICK j : JoinedBy(texts, none, n, S, j)
  BY <1>1, JoinedSteps
<1>3. /\ j \in [0..n -> Seq(S)] /\ j[0] = <<>> /\ Joined(texts, <<>>) = j[n]
      /\ \A i \in 1..n : j[i] = (j[i - 1] \o (IF i = 1 THEN <<>> ELSE <<>>)) \o texts[i]
  BY <1>2 DEF JoinedBy, none
<1>4. \A i \in 0..n : j[i] \in Seq(S)
  BY <1>3
<1>5. ASSUME NEW i \in 1..n PROVE j[i] = j[i - 1] \o texts[i]
  <2>1. i - 1 \in 0..n
    OBVIOUS
  <2>2. j[i - 1] \in Seq(S)
    BY <1>4, <2>1
  <2>3. j[i - 1] \o <<>> = j[i - 1]
    BY <2>2
  <2>4. j[i] = (j[i - 1] \o <<>>) \o texts[i]
    BY <1>3
  <2>5. QED
    BY <2>3, <2>4
<1>6. QED
  BY <1>3, <1>4, <1>5 DEF InARow

\* What is kept of a value: the text after each of its lexemes.
KeptBy(value, j) ==
  /\ j[0] = <<>> /\ Kept(value) = j[Len(value)]
  /\ \A i \in 0..Len(value) : j[i] \in Seq(Lexemes)
  /\ \A i \in 1..Len(value) : j[i] = j[i - 1] \o KeptLexeme(value[i])
LEMMA KeptIs ==
  ASSUME NEW value \in Values
  PROVE  /\ Len(value) \in Nat /\ DOMAIN value = 1..Len(value)
         /\ \A i \in 1..Len(value) : value[i] \in Writable
         /\ \E j : KeptBy(value, j)
<1> DEFINE texts == [i \in DOMAIN value |-> KeptLexeme(value[i])]
           m == Len(value)
<1>1. /\ m \in Nat /\ DOMAIN value = 1..m /\ Len(texts) = m
      /\ \A i \in 1..m : value[i] \in Writable
  <2>1. value \in Seq(STRING \ {"'"})
    BY DEF Values
  <2>2. m \in Nat /\ DOMAIN value = 1..m /\ \A i \in 1..m : value[i] \in STRING \ {"'"}
    BY <2>1
  <2>3. \A c \in STRING \ {"'"} : c \in Writable
    BY LexemesAre DEF Writable
  <2>4. Len(texts) = m
    BY <2>2
  <2> HIDE DEF m, texts
  <2>5. QED
    BY <2>2, <2>3, <2>4
<1>2. ASSUME NEW i \in 1..m PROVE texts[i] = KeptLexeme(value[i]) /\ texts[i] \in Seq(Lexemes)
  <2>1. texts[i] = KeptLexeme(value[i]) /\ value[i] \in Lexemes
    BY <1>1 DEF Writable
  <2> DEFINE c == value[i]
             h == Hex(c)
             w == " "
  <2>2. CASE c \in Controls
    <3>1. h \in {"9", "a", "c", "d"} /\ KeptLexeme(c) = <<h, w>>
      BY <2>2 DEF Controls, Hex, KeptLexeme
    <3>2. h \in Lexemes /\ w \in Lexemes
      BY <3>1 DEF Lexemes
    <3> HIDE DEF h, w, c, texts, m
    <3>3. <<h, w>> \in Seq(Lexemes)
      BY <3>2
    <3>4. QED
      BY <2>1, <3>1, <3>3 DEF c
  <2>3. CASE c \notin Controls
    <3>1. KeptLexeme(c) = <<c>>
      BY <2>3 DEF KeptLexeme
    <3> HIDE DEF c, texts, m
    <3>2. <<c>> \in Seq(Lexemes)
      BY <2>1 DEF c
    <3>3. QED
      BY <2>1, <3>1, <3>2 DEF c
  <2>4. QED
    BY <2>2, <2>3
<1>3. Kept(value) = Joined(texts, <<>>)
  BY DEF Kept
<1> HIDE DEF texts, m
<1>4. PICK j : InARow(texts, m, Lexemes, j)
  BY <1>1, <1>2, InARowExists
<1>5. KeptBy(value, j)
  BY <1>2, <1>3, <1>4 DEF InARow, KeptBy, m
<1>6. QED
  BY <1>1, <1>5 DEF m

\* One lexeme after another is the text of them.
LEMMA Singletons ==
  ASSUME NEW S, NEW v \in Seq(S), NEW texts, Len(texts) = Len(v),
         \A i \in 1..Len(v) : texts[i] = <<v[i]>>
  PROVE  Joined(texts, <<>>) = v
<1> DEFINE m == Len(v)
<1>1. m \in Nat /\ \A i \in 1..m : texts[i] = <<v[i]>> /\ v[i] \in S
  OBVIOUS
<1>2. /\ SubSeq(v, 1, 0) = <<>> /\ SubSeq(v, 1, m) = v
      /\ \A i \in 1..m : SubSeq(v, 1, i) = Append(SubSeq(v, 1, i - 1), v[i])
      /\ \A i \in 0..m : SubSeq(v, 1, i) \in Seq(S)
  BY Beginnings
<1>3. \A i \in 1..m : texts[i] \in Seq(S)
  <2> HIDE DEF m
  <2>1. QED
    BY <1>1, ShortTexts
<1> HIDE DEF m
<1>4. PICK j : InARow(texts, m, S, j)
  BY <1>1, <1>3, InARowExists DEF m
<1> DEFINE Good == {i \in 0..m : j[i] = SubSeq(v, 1, i)}
<1>5. 0 \in Good
  <2>1. j[0] = <<>> /\ 0 \in 0..m
    BY <1>1, <1>4 DEF InARow
  <2>2. QED
    BY <1>2, <2>1
<1>6. ASSUME NEW i \in 1..m, i - 1 \in Good PROVE i \in Good
  <2> DEFINE b == SubSeq(v, 1, i - 1)
             c == v[i]
  <2>1. j[i] = j[i - 1] \o <<c>> /\ j[i - 1] = b
    BY <1>1, <1>4, <1>6 DEF InARow
  <2>2. i \in 0..m /\ i - 1 \in 0..m
    BY <1>1
  <2>3. b \in Seq(S) /\ c \in S
    BY <1>1, <1>2, <2>2
  <2>4. SubSeq(v, 1, i) = Append(b, c)
    BY <1>2
  <2> HIDE DEF b, c
  <2>5. Append(b, c) = b \o <<c>>
    BY <2>3, AppendIsConcat
  <2>6. QED
    BY <2>1, <2>2, <2>4, <2>5
<1> HIDE DEF Good
<1>7. m \in Good
  <2>1. \A i \in 0..m : i \in Good
    BY <1>1, <1>5, <1>6, UpTo
  <2>2. QED
    BY <1>1, <2>1
<1>8. QED
  BY <1>2, <1>4, <1>7 DEF Good, InARow

\* The whole of a value without control characters.
LEMMA KeptWhole ==
  ASSUME NEW value \in ReadableValues
  PROVE  value \in Values /\ Kept(value) = value
<1> DEFINE S == STRING \ ({"'"} \cup Controls)
           texts == [i \in DOMAIN value |-> KeptLexeme(value[i])]
<1>1. value \in Seq(S)
  BY DEF ReadableValues
<1>2. value \in Values
  BY <1>1 DEF Values
<1>3. Len(value) \in Nat /\ DOMAIN value = 1..Len(value)
      /\ \A i \in 1..Len(value) : value[i] \notin Controls
  BY <1>1
<1>4. Len(texts) = Len(value) /\ \A i \in 1..Len(value) : texts[i] = <<value[i]>>
  <2>1. \A i \in 1..Len(value) : KeptLexeme(value[i]) = <<value[i]>>
    BY <1>3 DEF KeptLexeme
  <2>2. texts = [i \in 1..Len(value) |-> KeptLexeme(value[i])]
    BY <1>3
  <2> HIDE DEF texts
  <2>3. Len(texts) = Len(value)
    BY <1>3, <2>2
  <2>4. \A i \in 1..Len(value) : texts[i] = KeptLexeme(value[i])
    BY <2>2
  <2>5. QED
    BY <2>1, <2>3, <2>4
<1>5. Kept(value) = Joined(texts, <<>>)
  BY DEF Kept
<1> HIDE DEF S, texts
<1>6. QED
  BY <1>1, <1>2, <1>4, <1>5, Singletons

\* And something of a value that is not empty.
LEMMA KeptNotEmpty ==
  ASSUME NEW value \in Values, value # <<>>
  PROVE  Kept(value) # <<>>
<1> DEFINE m == Len(value)
<1>1. PICK j : KeptBy(value, j)
  BY KeptIs
<1>2. m \in Nat /\ m # 0
  <2>1. value \in Seq(STRING \ {"'"})
    BY DEF Values
  <2>2. QED
    BY <2>1, EmptySeq
<1> DEFINE b == j[m - 1]
           c == KeptLexeme(value[m])
<1>3. Kept(value) = b \o c /\ b \in Seq(Lexemes) /\ Kept(value) \in Seq(Lexemes)
  <2>1. /\ Kept(value) = j[m] /\ \A i \in 0..m : j[i] \in Seq(Lexemes)
        /\ \A i \in 1..m : j[i] = j[i - 1] \o KeptLexeme(value[i])
    BY <1>1 DEF KeptBy
  <2> HIDE DEF m
  <2>2. m \in 1..m /\ m \in 0..m /\ m - 1 \in 0..m
    BY <1>2
  <2>3. QED
    BY <2>1, <2>2
<1>4. c = <<Hex(value[m]), " ">> \/ c = <<value[m]>>
  BY DEF KeptLexeme
<1>5. Len(c) \in {1, 2}
  <2>1. CASE c = <<Hex(value[m]), " ">>
    <3> DEFINE h == Hex(value[m])
    <3> HIDE DEF h, c
    <3>1. c = <<h, " ">>
      BY <2>1 DEF h
    <3>2. QED
      BY <3>1
  <2>2. CASE c = <<value[m]>>
    <3> HIDE DEF c
    <3>1. QED
      BY <2>2
  <2>3. QED
    BY <1>4, <2>1, <2>2
<1>6. c \in Seq({Hex(value[m]), " ", value[m]})
  <2> DEFINE h == Hex(value[m])
             v == value[m]
  <2> HIDE DEF c, h, v
  <2>1. <<h, " ">> \in Seq({h, " ", v}) /\ <<v>> \in Seq({h, " ", v})
    BY ShortTexts
  <2>2. QED
    BY <1>4, <2>1 DEF h, v
<1> HIDE DEF b, c, m
<1>7. PICK S : c \in Seq(S)
  BY <1>6
<1>8. Len(b \o c) = Len(b) + Len(c)
  <2>1. b \in Seq(Lexemes \cup S) /\ c \in Seq(Lexemes \cup S)
    BY <1>3, <1>7
  <2> DEFINE X == Lexemes \cup S
  <2> HIDE DEF X
  <2>2. b \in Seq(X) /\ c \in Seq(X)
    BY <2>1 DEF X
  <2>3. QED
    BY <2>2, ConcatProperties
<1>9. Len(b \o c) # 0
  BY <1>3, <1>5, <1>8
<1>10. b \o c # <<>>
  <2>1. Len(<<>>) = 0
    OBVIOUS
  <2>2. QED
    BY <1>9, <2>1
<1>11. QED
  BY <1>3, <1>10

StringRead(value, k, f, n, a, t) ==
  /\ Quoted(value) = (<<"\"">> \o t) \o <<"\"">>
  /\ Lexed(State(k, <<>>, FALSE, FALSE, f, n, a), <<"\"">> \o t)
       = State(k, Kept(value), TRUE, FALSE, f, n, a)
\* A string is read up to its closing mark.
LEMMA StringIs ==
  ASSUME NEW value \in Values, NEW k, NEW f \in BOOLEAN, NEW n, NEW a
  PROVE  \E t \in Seq(Lexemes) : StringRead(value, k, f, n, a, t)
<1> DEFINE texts == [i \in DOMAIN value |-> Escaped(value[i])]
           m == Len(value)
           start == State(k, <<>>, FALSE, FALSE, f, n, a)
<1>1. m \in Nat /\ DOMAIN value = 1..m /\ \A i \in 1..m : value[i] \in Writable
  BY KeptIs
<1>2. ASSUME NEW i \in 1..m PROVE texts[i] \in Seq(Lexemes) /\ texts[i] = Escaped(value[i])
  <2> DEFINE c == value[i]
             b == "\\"
             h == Hex(c)
             w == " "
  <2>1. texts[i] = Escaped(c)
    BY <1>1
  <2>2. c \in Lexemes /\ b \in Lexemes /\ w \in Lexemes
    BY <1>1, LexemesAre DEF Writable
  <2>3. c \in Controls => h \in Lexemes
    BY DEF Controls, Hex, Lexemes
  <2>4. Escaped(c) = <<b, c>> \/ (c \in Controls /\ Escaped(c) = <<b, h, w>>) \/ Escaped(c) = <<c>>
    BY DEF Escaped
  <2> HIDE DEF texts, m, c, b, h, w
  <2>5. <<c>> \in Seq(Lexemes) /\ <<b, c>> \in Seq(Lexemes)
    BY <2>2
  <2>6. c \in Controls => <<b, h, w>> \in Seq(Lexemes)
    BY <2>2, <2>3
  <2>7. QED
    BY <2>1, <2>4, <2>5, <2>6 DEF c
<1>3. Len(texts) = m
  BY <1>1
<1>4. <<"\"">> \in Seq(Lexemes)
  BY LexemesAre, ShortTexts
<1>5. Quoted(value) = (<<"\"">> \o Joined(texts, <<>>)) \o <<"\"">>
  BY DEF Quoted
<1> HIDE DEF texts, m
<1>6. PICK j : InARow(texts, m, Lexemes, j)
  BY <1>1, <1>2, <1>3, InARowExists
<1>7. PICK kept : KeptBy(value, kept)
  BY KeptIs
<1> DEFINE Inside(i) == State(k, kept[i], TRUE, FALSE, f, n, a)
<1>8. Lexed(start, <<"\"">>) = Inside(0)
  <2>1. Lexed(start, <<"\"">>) = Lexeme(start, "\"")
    BY LexedShort, LexemesAre
  <2>2. Lexeme(start, "\"") = State(k, <<>>, TRUE, FALSE, f, n, a)
    BY MarkOutside
  <2>3. kept[0] = <<>>
    BY <1>7 DEF KeptBy
  <2>4. QED
    BY <2>1, <2>2, <2>3
<1> HIDE DEF start
<1> DEFINE Good == {i \in 0..m : Lexed(Inside(0), j[i]) = Inside(i)}
<1>9. 0 \in Good
  <2>1. Lexed(Inside(0), <<>>) = Inside(0)
    BY LexedShort
  <2>2. 0 \in 0..m /\ j[0] = <<>>
    BY <1>1, <1>6 DEF InARow
  <2> HIDE DEF Inside
  <2>3. QED
    BY <2>1, <2>2
<1>10. ASSUME NEW i \in 1..m, i - 1 \in Good PROVE i \in Good
  <2> DEFINE c == value[i]
             s == kept[i - 1]
  <2>1. /\ Lexed(Inside(0), j[i - 1]) = Inside(i - 1) /\ j[i - 1] \in Seq(Lexemes)
        /\ texts[i] \in Seq(Lexemes) /\ texts[i] = Escaped(c) /\ j[i] = j[i - 1] \o texts[i]
    <3>1. i - 1 \in 0..m
      BY <1>1
    <3> HIDE DEF Inside
    <3>2. QED
      BY <1>2, <1>6, <1>10, <3>1 DEF InARow
  <2>2. c \in Writable /\ s \in Seq(Lexemes) /\ kept[i] = s \o KeptLexeme(c)
    BY <1>1, <1>7 DEF KeptBy, m
  <2>3. EscapedRead(k, s, f, n, a, c)
    <3> HIDE DEF c, s
    <3>1. QED
      BY <2>2, EscapedInside
  <2>4. Lexed(Inside(i - 1), Escaped(c)) = Inside(i)
    BY <2>2, <2>3 DEF EscapedRead
  <2> HIDE DEF Inside, c
  <2>5. Lexed(Inside(0), j[i - 1] \o texts[i]) = Lexed(Inside(i - 1), texts[i])
    BY <2>1, LexedConcat
  <2>6. Lexed(Inside(0), j[i]) = Inside(i)
    BY <2>1, <2>4, <2>5
  <2>7. i \in 0..m
    BY <1>1
  <2>8. QED
    BY <2>6, <2>7
<1> HIDE DEF Good
<1>11. m \in Good
  <2>1. \A i \in 0..m : i \in Good
    BY <1>1, <1>9, <1>10, UpTo
  <2>2. QED
    BY <1>1, <2>1
<1>12. Inside(m) = State(k, Kept(value), TRUE, FALSE, f, n, a)
  BY <1>7 DEF KeptBy, m
<1> HIDE DEF Inside
<1>13. j[m] \in Seq(Lexemes) /\ Lexed(start, <<"\"">> \o j[m]) = State(k, Kept(value), TRUE, FALSE, f, n, a)
  <2>1. j[m] \in Seq(Lexemes)
    BY <1>1, <1>6 DEF InARow
  <2>2. Lexed(start, <<"\"">> \o j[m]) = Lexed(Lexed(start, <<"\"">>), j[m])
    BY <1>4, <2>1, LexedConcat
  <2>3. QED
    BY <1>8, <1>11, <1>12, <2>1, <2>2 DEF Good
<1>14. QED
  BY <1>5, <1>6, <1>13 DEF start, StringRead, InARow

\* A string in a call, and one that is a token.
QuotedRead(value, k, n, a) ==
  /\ Lexed(State(k, <<>>, FALSE, FALSE, TRUE, n, a), Quoted(value))
       = State(k, Kept(value), FALSE, FALSE, TRUE, n, a)
  /\ Lexed(State(k, <<>>, FALSE, FALSE, FALSE, n, a), Quoted(value))
       = State(Append(k, [type |-> "string", value |-> Kept(value)]), <<>>, FALSE, FALSE, FALSE, n, a)
LEMMA QuotedIs ==
  ASSUME NEW value \in Values, NEW k, NEW n, NEW a
  PROVE  Quoted(value) \in Seq(Lexemes) /\ QuotedRead(value, k, n, a)
<1>1. <<"\"">> \in Seq(Lexemes) /\ "\"" \in Lexemes
  <2>1. "\"" \in Lexemes
    BY LexemesAre
  <2>2. QED
    BY <2>1, ShortTexts
<1>2. ASSUME NEW f \in BOOLEAN
      PROVE  /\ Quoted(value) \in Seq(Lexemes)
             /\ Lexed(State(k, <<>>, FALSE, FALSE, f, n, a), Quoted(value))
                  = Lexeme(State(k, Kept(value), TRUE, FALSE, f, n, a), "\"")
  <2> DEFINE start == State(k, <<>>, FALSE, FALSE, f, n, a)
  <2>a. PICK t \in Seq(Lexemes) : StringRead(value, k, f, n, a, t)
    BY StringIs
  <2>1. /\ Quoted(value) = (<<"\"">> \o t) \o <<"\"">>
        /\ Lexed(start, <<"\"">> \o t) = State(k, Kept(value), TRUE, FALSE, f, n, a)
    BY <2>a DEF StringRead
  <2> HIDE DEF start
  <2>2. <<"\"">> \o t \in Seq(Lexemes)
    BY <1>1, ConcatProperties
  <2>3. (<<"\"">> \o t) \o <<"\"">> \in Seq(Lexemes)
    BY <1>1, <2>2, ConcatProperties
  <2>4. Lexed(start, (<<"\"">> \o t) \o <<"\"">>) = Lexed(Lexed(start, <<"\"">> \o t), <<"\"">>)
    BY <1>1, <2>2, LexedConcat
  <2>5. Lexed(Lexed(start, <<"\"">> \o t), <<"\"">>) = Lexeme(Lexed(start, <<"\"">> \o t), "\"")
    BY <1>1, LexedShort
  <2>6. QED
    BY <2>1, <2>3, <2>4, <2>5 DEF start
<1>3. QED
  BY <1>2, MarkInside DEF QuotedRead

\* The words that parseContent knows, and those of the author.
LEMMA PlainAre ==
  /\ \A c \in Words : c \in PlainLexemes
  /\ {"attr", "url", "counter", "counters", "open-quote", "close-quote"} \subseteq PlainLexemes
<1>1. \A c \in Words : c \in PlainLexemes
  BY LexemesAre DEF PlainLexemes, Words, Controls
<1>2. {"attr", "url", "counter", "counters", "open-quote", "close-quote"} \subseteq Lexemes
  BY LexemesAre
<1>3. QED
  BY <1>1, <1>2 DEF PlainLexemes

\* Short sequences.
LEMMA PairsAndOne ==
  ASSUME NEW X, NEW c \in X, NEW d \in X, NEW e \in X
  PROVE  <<c, d>> \o <<e>> = <<c, d, e>>
<1>1. <<c, d, e>> = <<c, d>> \o <<e>>
  OBVIOUS
<1>2. QED
  BY <1>1

LEMMA OnlyOne ==
  ASSUME NEW X, NEW q \in Seq(X), q # <<>>, Len(q) <= 1
  PROVE  \E w \in X : q = <<w>>
<1>1. Len(q) = 1 /\ q[1] \in X
  <2>1. Len(q) # 0 /\ Len(q) \in Nat
    BY EmptySeq
  <2>2. QED
    BY <2>1
<1>2. q = <<q[1]>>
  BY <1>1
<1>3. QED
  BY <1>1, <1>2

\* The beginning of a function.
CallRead(k, n, a, w) ==
  Lexed(State(k, <<>>, FALSE, FALSE, FALSE, n, a), <<w, "(">>)
    = State(k, <<>>, FALSE, FALSE, TRUE, <<w>>, <<>>)
LEMMA CallIs ==
  ASSUME NEW k, NEW n, NEW a, NEW w \in PlainLexemes
  PROVE  CallRead(k, n, a, w)
<1> DEFINE start == State(k, <<>>, FALSE, FALSE, FALSE, n, a)
<1>1. w \in Lexemes /\ "(" \in Lexemes
  BY LexemesAre DEF PlainLexemes
<1>2. Lexeme(start, w) = State(k, Append(<<>>, w), FALSE, FALSE, FALSE, n, a)
  <2>1. WordRead(k, <<>>, n, a, w)
    BY WordOutside
  <2>2. QED
    BY <2>1 DEF WordRead
<1>3. Lexeme(State(k, Append(<<>>, w), FALSE, FALSE, FALSE, n, a), "(")
        = State(k, <<>>, FALSE, FALSE, TRUE, Append(<<>>, w), <<>>)
  <2>1. OpenBracketRead(k, Append(<<>>, w), n, a)
    BY OpenBracketOutside
  <2>2. QED
    BY <2>1 DEF OpenBracketRead
<1>4. Append(<<>>, w) = <<w>>
  OBVIOUS
<1>5. Lexed(start, <<w, "(">>) = Lexeme(Lexeme(start, w), "(")
  BY <1>1, LexedShort
<1>6. QED
  BY <1>2, <1>3, <1>4, <1>5 DEF CallRead

\* A further argument in front of which is a comma.
LEMMA FurtherIs ==
  ASSUME NEW format \in Formats
  PROVE  Further(format) \in Seq(Lexemes)
<1>1. CASE format = <<>>
  BY <1>1, EmptySeq DEF Further
<1>2. CASE format # <<>>
  <2>1. PICK w \in Words : format = <<w>>
    <3>1. format \in Seq(Words) /\ Len(format) <= 1
      BY DEF Formats
    <3>2. QED
      BY <1>2, <3>1, OnlyOne
  <2>2. w \in Lexemes /\ "," \in Lexemes /\ " " \in Lexemes
    BY LexemesAre
  <2>3. <<",", " ">> \in Seq(Lexemes) /\ <<w>> \in Seq(Lexemes)
    BY <2>2, ShortTexts
  <2>4. <<",", " ">> \o <<w>> \in Seq(Lexemes)
    BY <2>3, ConcatProperties
  <2>5. QED
    BY <1>2, <2>1, <2>4 DEF Further
<1>3. QED
  BY <1>1, <1>2

\* The arguments of a function whose last is s, or that has a format after it.
Arguments(a, s, format) ==
  IF format # <<>> THEN Append(Append(a, s), format) ELSE WithLast(a, s)
EndRead(k, s, n, a, format) ==
  Lexed(State(k, s, FALSE, FALSE, TRUE, n, a), Further(format) \o <<")">>)
    = State(k \o functionTokens(n, Arguments(a, s, format)), <<>>, FALSE, FALSE, FALSE, n,
            Arguments(a, s, format))
LEMMA EndIs ==
  ASSUME NEW k, NEW s, NEW n, NEW a, NEW format \in Formats
  PROVE  EndRead(k, s, n, a, format) /\ Further(format) \o <<")">> \in Seq(Lexemes)
<1> DEFINE start == State(k, s, FALSE, FALSE, TRUE, n, a)
<1>1. ")" \in Lexemes /\ "," \in Lexemes /\ " " \in Lexemes /\ <<")">> \in Seq(Lexemes)
  <2>1. ")" \in Lexemes /\ "," \in Lexemes /\ " " \in Lexemes
    BY LexemesAre
  <2>2. QED
    BY <2>1, ShortTexts
<1>2. CASE format = <<>>
  <2>1. Further(format) \o <<")">> = <<")">>
    BY <1>2 DEF Further
  <2>2. Lexed(start, <<")">>) = Lexeme(start, ")")
    BY <1>1, LexedShort
  <2>3. Arguments(a, s, format) = WithLast(a, s)
    BY <1>2 DEF Arguments
  <2>4. Lexeme(start, ")") = State(k \o functionTokens(n, Arguments(a, s, format)), <<>>, FALSE, FALSE,
                                    FALSE, n, Arguments(a, s, format))
    <3>1. CloseBracketRead(k, s, n, a)
      BY CloseBracketOutside
    <3>2. QED
      BY <2>3, <3>1 DEF CloseBracketRead
  <2>5. QED
    BY <1>1, <2>1, <2>2, <2>4 DEF EndRead
<1>3. CASE format # <<>>
  <2>1. PICK w \in Words : format = <<w>>
    <3>1. format \in Seq(Words) /\ Len(format) <= 1
      BY DEF Formats
    <3>2. QED
      BY <1>3, <3>1, OnlyOne
  <2>2. w \in PlainLexemes /\ w \in Lexemes
    BY LexemesAre, PlainAre
  <2>3. Further(format) \o <<")">> = <<",", " ", w>> \o <<")">>
    <3>1. Further(format) = <<",", " ">> \o <<w>>
      BY <1>3, <2>1 DEF Further
    <3>2. <<",", " ">> \o <<w>> = <<",", " ", w>>
      BY <1>1, <2>2, PairsAndOne
    <3>3. QED
      BY <3>1, <3>2
  <2>4. <<",", " ", w>> \in Seq(Lexemes)
    BY <1>1, <2>2, ShortTexts
  <2>5. Lexed(start, <<",", " ", w>> \o <<")">>) = Lexed(Lexed(start, <<",", " ", w>>), <<")">>)
    BY <1>1, <2>4, LexedConcat
  <2>6. Lexed(start, <<",", " ", w>>) = Lexeme(Lexeme(Lexeme(start, ","), " "), w)
    <3> DEFINE c == ","
               d == " "
    <3>1. c \in Lexemes /\ d \in Lexemes /\ w \in Lexemes
      BY <1>1, <2>2
    <3> HIDE DEF start, c, d
    <3>2. Lexed(start, <<c, d, w>>) = Lexeme(Lexeme(Lexeme(start, c), d), w)
      BY <3>1, LexedShort
    <3>3. QED
      BY <3>2 DEF c, d
  <2> DEFINE mid == State(k, <<>>, FALSE, FALSE, TRUE, n, Append(a, s))
             end == State(k, <<w>>, FALSE, FALSE, TRUE, n, Append(a, s))
  <2>7. Lexeme(start, ",") = mid
    <3>1. CommaRead(k, s, n, a)
      BY CommaOutside
    <3>2. QED
      BY <3>1 DEF CommaRead
  <2>8. Lexeme(mid, " ") = mid
    <3>1. SpaceRead(k, <<>>, n, Append(a, s))
      BY SpaceOutside
    <3>2. QED
      BY <3>1 DEF SpaceRead
  <2>9. Lexeme(mid, w) = end
    <3>1. Append(<<>>, w) = <<w>>
      OBVIOUS
    <3>2. WordRead(k, <<>>, n, Append(a, s), w)
      BY <2>2, WordOutside
    <3>3. QED
      BY <3>1, <3>2 DEF WordRead
  <2>10. Lexed(end, <<")">>) = Lexeme(end, ")")
    BY <1>1, LexedShort
  <2>11. Arguments(a, s, format) = Append(Append(a, s), <<w>>) /\ <<w>> # <<>>
    BY <1>3, <2>1 DEF Arguments
  <2>12. Lexeme(end, ")") = State(k \o functionTokens(n, Arguments(a, s, format)), <<>>, FALSE, FALSE,
                                   FALSE, n, Arguments(a, s, format))
    <3>1. WithLast(Append(a, s), <<w>>) = Arguments(a, s, format)
      BY <2>11 DEF WithLast
    <3>2. CloseBracketRead(k, <<w>>, n, Append(a, s))
      BY CloseBracketOutside
    <3>3. QED
      BY <3>1, <3>2 DEF CloseBracketRead
  <2> HIDE DEF start, mid, end
  <2>13. Lexed(start, Further(format) \o <<")">>)
           = State(k \o functionTokens(n, Arguments(a, s, format)), <<>>, FALSE, FALSE,
                                   FALSE, n, Arguments(a, s, format))
    BY <2>3, <2>5, <2>6, <2>7, <2>8, <2>9, <2>10, <2>12
  <2>14. <<",", " ", w>> \o <<")">> \in Seq(Lexemes)
    BY <1>1, <2>4, ConcatProperties
  <2>15. QED
    BY <2>3, <2>13, <2>14 DEF EndRead, start
<1>4. QED
  BY <1>2, <1>3

\* What the functions mean.
LEMMA FunctionsAre ==
  ASSUME NEW name, NEW format \in Formats, NEW value, NEW glue
  PROVE  /\ functionTokens(<<"attr">>, <<<<name>>>>) = <<[type |-> "attr", name |-> name]>>
         /\ functionTokens(<<"url">>, <<value>>) = <<[type |-> "url", value |-> value]>>
         /\ functionTokens(<<"counter">>, Arguments(<<>>, <<name>>, format))
              = <<[type |-> "counter", name |-> name, format |-> format]>>
         /\ functionTokens(<<"counters">>, Arguments(<<<<name>>>>, glue, format))
              = <<[type |-> "counters", name |-> name, glue |-> glue, format |-> format]>>
<1>1. /\ <<"attr">> # <<"url">> /\ <<"attr">> # <<"counter">> /\ <<"attr">> # <<"counters">>
      /\ <<"url">> # <<"counter">> /\ <<"url">> # <<"counters">> /\ <<"counter">> # <<"counters">>
  OBVIOUS
<1>2. functionTokens(<<"attr">>, <<<<name>>>>) = <<[type |-> "attr", name |-> name]>>
  BY <1>1 DEF functionTokens, Word
<1>3. functionTokens(<<"url">>, <<value>>) = <<[type |-> "url", value |-> value]>>
  BY <1>1 DEF functionTokens, Word
<1> DEFINE args == Arguments(<<>>, <<name>>, format)
           argss == Arguments(<<<<name>>>>, glue, format)
<1>4. args # <<>> /\ args[1] = <<name>> /\ Argument(args, 2) = format
  BY DEF Arguments, Argument, WithLast
<1>5. argss # <<>> /\ argss[1] = <<name>> /\ Argument(argss, 2) = glue /\ Argument(argss, 3) = format
  BY DEF Arguments, Argument, WithLast
<1> HIDE DEF args, argss
<1>6. functionTokens(<<"counter">>, args) = <<[type |-> "counter", name |-> name, format |-> format]>>
  BY <1>1, <1>4 DEF functionTokens, Word
<1>7. functionTokens(<<"counters">>, argss)
        = <<[type |-> "counters", name |-> name, glue |-> glue, format |-> format]>>
  BY <1>1, <1>5 DEF functionTokens, Word
<1>8. QED
  BY <1>2, <1>3, <1>6, <1>7 DEF args, argss

\* The loop after x, the arguments of a call of w but for the format.
ArgumentsRead(k, w, x, s, a) ==
  Lexed(State(k, <<>>, FALSE, FALSE, TRUE, <<w>>, <<>>), x) = State(k, s, FALSE, FALSE, TRUE, <<w>>, a)
\* The loop after a whole call, that began with no text left.
WholeRead(k, n, b, w, text, args) ==
  Lexed(State(k, <<>>, FALSE, FALSE, FALSE, n, b), Call(w, text))
    = State(k \o functionTokens(<<w>>, args), <<>>, FALSE, FALSE, FALSE, <<w>>, args)
LEMMA WholeIs ==
  ASSUME NEW k, NEW n, NEW b, NEW w \in PlainLexemes, NEW x \in Seq(Lexemes), NEW s, NEW a,
         NEW format \in Formats, ArgumentsRead(k, w, x, s, a)
  PROVE  /\ WholeRead(k, n, b, w, x \o Further(format), Arguments(a, s, format))
         /\ Call(w, x \o Further(format)) \in Seq(Lexemes)
<1> DEFINE start == State(k, <<>>, FALSE, FALSE, FALSE, n, b)
           begun == State(k, <<>>, FALSE, FALSE, TRUE, <<w>>, <<>>)
           mid == State(k, s, FALSE, FALSE, TRUE, <<w>>, a)
           end == State(k \o functionTokens(<<w>>, Arguments(a, s, format)), <<>>, FALSE, FALSE, FALSE,
                        <<w>>, Arguments(a, s, format))
           f == Further(format)
           c == <<")">>
           o == <<w, "(">>
<1>1. c \in Seq(Lexemes) /\ o \in Seq(Lexemes)
  <2>1. ")" \in Lexemes /\ "(" \in Lexemes /\ w \in Lexemes
    BY LexemesAre DEF PlainLexemes
  <2>2. QED
    BY <2>1, ShortTexts
<1>2. f \in Seq(Lexemes)
  BY FurtherIs
<1>3. Lexed(start, o) = begun
  <2>1. CallRead(k, n, b, w)
    BY CallIs
  <2>2. QED
    BY <2>1 DEF CallRead
<1>4. Lexed(begun, x) = mid
  BY DEF ArgumentsRead
<1>5. Lexed(mid, f \o c) = end
  <2>1. EndRead(k, s, <<w>>, a, format)
    BY EndIs
  <2>2. QED
    BY <2>1 DEF EndRead
<1>6. Call(w, x \o f) = (o \o (x \o f)) \o c
  BY DEF Call
<1> HIDE DEF start, begun, mid, end, f, c, o
<1>7. x \o f \in Seq(Lexemes) /\ o \o (x \o f) \in Seq(Lexemes) /\ (o \o (x \o f)) \o c \in Seq(Lexemes)
  <2>1. x \o f \in Seq(Lexemes)
    BY <1>2, ConcatProperties
  <2>2. o \o (x \o f) \in Seq(Lexemes)
    BY <1>1, <2>1, ConcatProperties
  <2>3. QED
    BY <1>1, <2>1, <2>2, ConcatProperties
<1>8. Lexed(start, (o \o (x \o f)) \o c) = end
  <2>1. Lexed(start, (o \o (x \o f)) \o c) = Lexed(Lexed(start, o \o (x \o f)), c)
    BY <1>1, <1>7, LexedConcat
  <2>2. Lexed(start, o \o (x \o f)) = Lexed(begun, x \o f)
    <3> DEFINE y == x \o f
    <3>1. y \in Seq(Lexemes)
      BY <1>7
    <3> HIDE DEF y
    <3>2. Lexed(start, o \o y) = Lexed(Lexed(start, o), y)
      BY <1>1, <3>1, LexedConcat
    <3>3. QED
      BY <1>3, <3>2 DEF y
  <2>3. Lexed(begun, x \o f) = Lexed(mid, f)
    BY <1>2, <1>4, LexedConcat
  <2>4. Lexed(mid, f \o c) = Lexed(Lexed(mid, f), c)
    BY <1>1, <1>2, LexedConcat
  <2>5. QED
    BY <1>5, <2>1, <2>2, <2>3, <2>4
<1>9. QED
  BY <1>6, <1>7, <1>8 DEF start, end, f, WholeRead

\* The loop has all of k, but for a word that it has not come to the end of.
Finished(r, k) ==
  \E p, s, n, a : r = State(p, s, FALSE, FALSE, FALSE, n, a) /\ k = WithWord(p, s)
WrittenRead(k, n, a, t) ==
  /\ Written(t) \in Seq(Lexemes)
  /\ Finished(Lexed(State(k, <<>>, FALSE, FALSE, FALSE, n, a), Written(t)), Append(k, KeptToken(t)))
KeptTokens == {KeptToken(t) : t \in Tokens}

\* A call that makes the one token t.
LEMMA CallFinished ==
  ASSUME NEW k \in Seq(KeptTokens), NEW n, NEW b, NEW w, NEW text, NEW args, NEW t \in Tokens,
         WholeRead(k, n, b, w, text, args), functionTokens(<<w>>, args) = <<KeptToken(t)>>,
         Written(t) = Call(w, text), Call(w, text) \in Seq(Lexemes)
  PROVE  WrittenRead(k, n, b, t)
<1> DEFINE m == k \o functionTokens(<<w>>, args)
           u == KeptToken(t)
<1>1. m = Append(k, u)
  <2>1. u \in KeptTokens
    BY DEF KeptTokens
  <2> HIDE DEF u
  <2>2. k \o <<u>> = Append(k, u)
    BY <2>1, AppendIsConcat
  <2>3. QED
    BY <2>2 DEF u
<1> HIDE DEF m
<1>2. Lexed(State(k, <<>>, FALSE, FALSE, FALSE, n, b), Written(t))
        = State(m, <<>>, FALSE, FALSE, FALSE, <<w>>, args)
  BY DEF WholeRead, m
<1>3. WithWord(m, <<>>) = m
  BY DEF WithWord
<1>4. Finished(State(m, <<>>, FALSE, FALSE, FALSE, <<w>>, args), m)
  BY <1>3 DEF Finished
<1>5. QED
  BY <1>1, <1>2, <1>4 DEF WrittenRead

\* A string has its marks at least.
LEMMA QuotedNotEmpty ==
  ASSUME NEW value \in Values
  PROVE  Quoted(value) # <<>>
<1> DEFINE k == <<>>
           r == State(k, <<>>, FALSE, FALSE, TRUE, <<>>, <<>>)
<1>1. PICK t \in Seq(Lexemes) : StringRead(value, k, FALSE, k, k, t)
  BY StringIs
<1>2. Quoted(value) = (<<"\"">> \o t) \o <<"\"">>
  BY <1>1 DEF StringRead
<1>3. <<"\"">> \in Seq(Lexemes)
  BY LexemesAre, ShortTexts
<1>4. Len(<<"\"">>) = 1
  OBVIOUS
<1> DEFINE c == <<"\"">>
<1> HIDE DEF c
<1>5. (c \o t) \o c # <<>>
  <2>1. c \in Seq(Lexemes) /\ Len(c) = 1
    BY <1>3, <1>4 DEF c
  <2>2. c \o t \in Seq(Lexemes)
    BY <2>1, ConcatProperties
  <2> DEFINE d == c \o t
  <2> HIDE DEF d
  <2>3. d \in Seq(Lexemes)
    BY <2>2 DEF d
  <2>4. Len(d \o c) = Len(d) + Len(c) /\ Len(d) \in Nat
    BY <2>1, <2>3, ConcatProperties, LenProperties
  <2>5. Len(d \o c) # 0
    BY <2>1, <2>4
  <2>6. Len(<<>>) = 0
    OBVIOUS
  <2>7. d \o c # <<>>
    BY <2>5, <2>6
  <2>8. QED
    BY <2>7 DEF d
<1>6. QED
  BY <1>2, <1>5 DEF c

\* The name of an argument.
LEMMA NameRead ==
  ASSUME NEW k, NEW w, NEW name \in Words
  PROVE  <<name>> \in Seq(Lexemes) /\ ArgumentsRead(k, w, <<name>>, <<name>>, <<>>)
<1>1. name \in PlainLexemes /\ name \in Lexemes
  BY LexemesAre, PlainAre
<1>2. WordRead(k, <<>>, <<w>>, <<>>, name)
  BY <1>1, WordOutside
<1>3. Append(<<>>, name) = <<name>>
  OBVIOUS
<1> DEFINE start == State(k, <<>>, FALSE, FALSE, TRUE, <<w>>, <<>>)
<1>4. Lexeme(start, name) = State(k, <<name>>, FALSE, FALSE, TRUE, <<w>>, <<>>)
  BY <1>2, <1>3 DEF WordRead
<1>5. Lexed(start, <<name>>) = Lexeme(start, name)
  BY <1>1, LexedShort
<1>6. <<name>> \in Seq(Lexemes)
  BY <1>1, ShortTexts
<1>7. QED
  BY <1>4, <1>5, <1>6 DEF ArgumentsRead

\* A string as the argument of a function.
LEMMA StringArgument ==
  ASSUME NEW k, NEW w, NEW value \in Values
  PROVE  Quoted(value) \in Seq(Lexemes) /\ ArgumentsRead(k, w, Quoted(value), Kept(value), <<>>)
<1>1. Quoted(value) \in Seq(Lexemes) /\ QuotedRead(value, k, <<w>>, <<>>)
  BY QuotedIs
<1>2. QED
  BY <1>1 DEF ArgumentsRead, QuotedRead

\* The name and the glue of counters.
LEMMA GlueRead ==
  ASSUME NEW k, NEW w, NEW name \in Words, NEW glue \in Values
  PROVE  /\ <<name>> \o Further(Quoted(glue)) \in Seq(Lexemes)
         /\ ArgumentsRead(k, w, <<name>> \o Further(Quoted(glue)), Kept(glue), <<<<name>>>>)
<1> DEFINE q == Quoted(glue)
           o == <<",", " ">>
           x == <<name>>
           start == State(k, <<>>, FALSE, FALSE, TRUE, <<w>>, <<>>)
           named == State(k, <<name>>, FALSE, FALSE, TRUE, <<w>>, <<>>)
           mid == State(k, <<>>, FALSE, FALSE, TRUE, <<w>>, <<<<name>>>>)
           end == State(k, Kept(glue), FALSE, FALSE, TRUE, <<w>>, <<<<name>>>>)
<1>1. Lexed(start, x) = named /\ x \in Seq(Lexemes)
  BY NameRead DEF ArgumentsRead
<1>2. "," \in Lexemes /\ " " \in Lexemes /\ o \in Seq(Lexemes)
  <2>1. "," \in Lexemes /\ " " \in Lexemes
    BY LexemesAre
  <2>2. QED
    BY <2>1, ShortTexts
<1>3. Lexed(named, o) = mid
  <2>1. Lexed(named, o) = Lexeme(Lexeme(named, ","), " ")
    BY <1>2, LexedShort
  <2>2. CommaRead(k, <<name>>, <<w>>, <<>>)
    BY CommaOutside
  <2>3. Append(<<>>, <<name>>) = <<<<name>>>>
    OBVIOUS
  <2>4. Lexeme(named, ",") = mid
    BY <2>2, <2>3 DEF CommaRead
  <2>5. SpaceRead(k, <<>>, <<w>>, <<<<name>>>>)
    BY SpaceOutside
  <2>6. Lexeme(mid, " ") = mid
    BY <2>5 DEF SpaceRead
  <2>7. QED
    BY <2>1, <2>4, <2>6
<1>4. q \in Seq(Lexemes) /\ Lexed(mid, q) = end
  <2>1. q \in Seq(Lexemes) /\ QuotedRead(glue, k, <<w>>, <<<<name>>>>)
    BY QuotedIs
  <2>2. QED
    BY <2>1 DEF QuotedRead
<1>5. q # <<>> /\ Further(q) = o \o q
  <2>1. q # <<>>
    BY QuotedNotEmpty
  <2>2. QED
    BY <2>1 DEF Further
<1> HIDE DEF q, o, x, start, named, mid, end
<1>6. o \o q \in Seq(Lexemes) /\ x \o (o \o q) \in Seq(Lexemes)
  <2>1. o \o q \in Seq(Lexemes)
    BY <1>2, <1>4, ConcatProperties
  <2>2. QED
    BY <1>1, <2>1, ConcatProperties
<1>7. Lexed(start, x \o (o \o q)) = end
  <2> DEFINE y == o \o q
  <2>1. y \in Seq(Lexemes)
    BY <1>6
  <2>2. Lexed(named, y) = Lexed(Lexed(named, o), q)
    BY <1>2, <1>4, LexedConcat
  <2> HIDE DEF y
  <2>3. Lexed(start, x \o y) = Lexed(Lexed(start, x), y)
    BY <1>1, <2>1, LexedConcat
  <2>4. QED
    BY <1>1, <1>3, <1>4, <2>2, <2>3 DEF y
<1>8. QED
  BY <1>5, <1>6, <1>7 DEF q, x, start, end, ArgumentsRead

\* Each kind of token.
LEMMA StringWritten ==
  ASSUME NEW k, NEW n, NEW b, NEW value \in Values, NEW t, t = [type |-> "string", value |-> value]
  PROVE  WrittenRead(k, n, b, t)
<1>1. Quoted(value) \in Seq(Lexemes) /\ QuotedRead(value, k, n, b)
  BY QuotedIs
<1>2. Written(t) = Quoted(value) /\ KeptToken(t) = [type |-> "string", value |-> Kept(value)]
  BY DEF Written, KeptToken
<1> DEFINE m == Append(k, KeptToken(t))
           start == State(k, <<>>, FALSE, FALSE, FALSE, n, b)
<1>3. Lexed(start, Quoted(value)) = State(m, <<>>, FALSE, FALSE, FALSE, n, b)
  BY <1>1, <1>2 DEF QuotedRead
<1>4. WithWord(m, <<>>) = m
  BY DEF WithWord
<1>5. Finished(State(m, <<>>, FALSE, FALSE, FALSE, n, b), m)
  BY <1>4 DEF Finished
<1>6. QED
  BY <1>1, <1>2, <1>3, <1>5 DEF WrittenRead

\* open-quote and close-quote.
LEMMA MarkWritten ==
  ASSUME NEW k, NEW n, NEW b, NEW t, NEW w \in {"open-quote", "close-quote"},
         t = IF w = "open-quote" THEN [type |-> "open"] ELSE [type |-> "close"]
  PROVE  WrittenRead(k, n, b, t)
<1>1. Written(t) = <<w>>
  <2>1. CASE w = "open-quote"
    <3>1. t.type = "open"
      BY <2>1
    <3>2. QED
      BY <2>1, <3>1 DEF Written
  <2>2. CASE w = "close-quote"
    <3>1. t.type = "close"
      BY <2>2
    <3>2. QED
      BY <2>2, <3>1 DEF Written
  <2>3. QED
    BY <2>1, <2>2
<1>2. w \in PlainLexemes /\ w \in Lexemes /\ <<w>> \in Seq(Lexemes)
  <2>1. w \in PlainLexemes /\ w \in Lexemes
    BY PlainAre DEF PlainLexemes
  <2>2. QED
    BY <2>1, ShortTexts
<1>3. WordRead(k, <<>>, n, b, w)
  BY <1>2, WordOutside
<1>4. Append(<<>>, w) = <<w>>
  OBVIOUS
<1> DEFINE start == State(k, <<>>, FALSE, FALSE, FALSE, n, b)
           end == State(k, <<w>>, FALSE, FALSE, FALSE, n, b)
<1>5. Lexed(start, <<w>>) = end
  <2>1. Lexeme(start, w) = end
    BY <1>3, <1>4 DEF WordRead
  <2> HIDE DEF start, end
  <2>2. Lexed(start, <<w>>) = Lexeme(start, w)
    BY <1>2, LexedShort
  <2>3. QED
    BY <2>1, <2>2
<1>6. WithWord(k, <<w>>) = Append(k, t)
  <2>1. WithWord(k, <<w>>) = addOtherToken(k, <<w>>)
    BY DEF WithWord
  <2>2. CASE w = "open-quote"
    BY <2>1, <2>2 DEF addOtherToken
  <2>3. CASE w = "close-quote"
    <3>1. <<"close-quote">> # <<"open-quote">>
      OBVIOUS
    <3>2. QED
      BY <2>1, <2>3, <3>1 DEF addOtherToken
  <2>4. QED
    BY <2>2, <2>3
<1>7. Finished(end, Append(k, KeptToken(t)))
  <2>1. t.type \in {"open", "close"}
    OBVIOUS
  <2>2. KeptToken(t) = t
    BY <2>1 DEF KeptToken
  <2> HIDE DEF end
  <2>3. QED
    BY <1>6, <2>2 DEF Finished, end
<1>8. QED
  BY <1>1, <1>2, <1>5, <1>7 DEF WrittenRead

\* attr().
LEMMA AttrWritten ==
  ASSUME NEW k \in Seq(KeptTokens), NEW n, NEW b, NEW t \in Tokens, NEW name \in Words,
         t = [type |-> "attr", name |-> name]
  PROVE  WrittenRead(k, n, b, t)
<1>1. Written(t) = Call("attr", <<name>>)
  BY DEF Written
<1>2. <<name>> \in Seq(Lexemes) /\ ArgumentsRead(k, "attr", <<name>>, <<name>>, <<>>)
  BY NameRead
<1>3. <<>> \in Formats /\ Further(<<>>) = <<>> /\ <<name>> \o <<>> = <<name>> /\ "attr" \in PlainLexemes
  <2>1. <<>> \in Formats
    BY EmptySeq DEF Formats
  <2>2. Further(<<>>) = <<>>
    BY DEF Further
  <2>3. <<name>> \o <<>> = <<name>>
    BY <1>2, ConcatEmptySeq
  <2>4. QED
    BY <2>1, <2>2, <2>3, PlainAre
<1>4. Arguments(<<>>, <<name>>, <<>>) = <<<<name>>>>
  BY DEF Arguments, WithLast
<1>5. /\ WholeRead(k, n, b, "attr", <<name>> \o Further(<<>>), Arguments(<<>>, <<name>>, <<>>))
      /\ Call("attr", <<name>> \o Further(<<>>)) \in Seq(Lexemes)
  BY <1>2, <1>3, WholeIs
<1>6. functionTokens(<<"attr">>, <<<<name>>>>) = <<KeptToken(t)>>
  <2>1. KeptToken(t) = t
    BY DEF KeptToken
  <2>2. QED
    BY <1>3, <2>1, FunctionsAre
<1>7. /\ WholeRead(k, n, b, "attr", <<name>>, <<<<name>>>>)
      /\ Call("attr", <<name>>) \in Seq(Lexemes)
  BY <1>3, <1>4, <1>5
<1>8. QED
  BY <1>1, <1>6, <1>7, CallFinished

\* url().
LEMMA UrlWritten ==
  ASSUME NEW k \in Seq(KeptTokens), NEW n, NEW b, NEW t \in Tokens, NEW value \in Values \ {<<>>},
         t = [type |-> "url", value |-> value]
  PROVE  WrittenRead(k, n, b, t)
<1> DEFINE q == Quoted(value)
<1>1. Written(t) = Call("url", q)
  BY DEF Written
<1>2. q \in Seq(Lexemes) /\ ArgumentsRead(k, "url", q, Kept(value), <<>>)
  BY StringArgument
<1> HIDE DEF q
<1>3. <<>> \in Formats /\ Further(<<>>) = <<>> /\ q \o <<>> = q /\ "url" \in PlainLexemes
  <2>1. <<>> \in Formats
    BY EmptySeq DEF Formats
  <2>2. Further(<<>>) = <<>>
    BY DEF Further
  <2>3. q \o <<>> = q
    BY <1>2, ConcatEmptySeq
  <2>4. QED
    BY <2>1, <2>2, <2>3, PlainAre
<1>4. Arguments(<<>>, Kept(value), <<>>) = <<Kept(value)>>
  BY KeptNotEmpty DEF Arguments, WithLast
<1>5. /\ WholeRead(k, n, b, "url", q \o Further(<<>>), Arguments(<<>>, Kept(value), <<>>))
      /\ Call("url", q \o Further(<<>>)) \in Seq(Lexemes)
  BY <1>2, <1>3, WholeIs
<1>6. functionTokens(<<"url">>, <<Kept(value)>>) = <<KeptToken(t)>>
  <2>1. KeptToken(t) = [type |-> "url", value |-> Kept(value)]
    BY DEF KeptToken
  <2>2. QED
    BY <1>3, <2>1, FunctionsAre
<1>7. WholeRead(k, n, b, "url", q, <<Kept(value)>>) /\ Call("url", q) \in Seq(Lexemes)
  BY <1>3, <1>4, <1>5
<1>8. QED
  BY <1>1, <1>6, <1>7, CallFinished

\* counter().
LEMMA CounterWritten ==
  ASSUME NEW k \in Seq(KeptTokens), NEW n, NEW b, NEW t \in Tokens, NEW name \in Words,
         NEW format \in Formats, t = [type |-> "counter", name |-> name, format |-> format]
  PROVE  WrittenRead(k, n, b, t)
<1> DEFINE text == <<name>> \o Further(format)
           args == Arguments(<<>>, <<name>>, format)
<1>1. Written(t) = Call("counter", text)
  BY DEF Written
<1>2. <<name>> \in Seq(Lexemes) /\ ArgumentsRead(k, "counter", <<name>>, <<name>>, <<>>)
  BY NameRead
<1>3. "counter" \in PlainLexemes
  BY PlainAre
<1>4. WholeRead(k, n, b, "counter", text, args) /\ Call("counter", text) \in Seq(Lexemes)
  BY <1>2, <1>3, WholeIs
<1>5. functionTokens(<<"counter">>, args) = <<KeptToken(t)>>
  <2>1. KeptToken(t) = t
    BY DEF KeptToken
  <2> HIDE DEF text
  <2>2. functionTokens(<<"counter">>, args)
          = <<[type |-> "counter", name |-> name, format |-> format]>>
    BY FunctionsAre
  <2>3. QED
    BY <2>1, <2>2
<1> HIDE DEF text, args
<1>6. QED
  BY <1>1, <1>4, <1>5, CallFinished

\* counters().
LEMMA CountersWritten ==
  ASSUME NEW k \in Seq(KeptTokens), NEW n, NEW b, NEW t \in Tokens, NEW name \in Words,
         NEW glue \in Values, NEW format \in Formats,
         t = [type |-> "counters", name |-> name, glue |-> glue, format |-> format]
  PROVE  WrittenRead(k, n, b, t)
<1> DEFINE x == <<name>> \o Further(Quoted(glue))
           text == x \o Further(format)
           args == Arguments(<<<<name>>>>, Kept(glue), format)
<1>1. Written(t) = Call("counters", text)
  BY DEF Written
<1>2. x \in Seq(Lexemes) /\ ArgumentsRead(k, "counters", x, Kept(glue), <<<<name>>>>)
  BY GlueRead
<1>3. "counters" \in PlainLexemes
  BY PlainAre
<1> HIDE DEF x
<1>4. WholeRead(k, n, b, "counters", text, args) /\ Call("counters", text) \in Seq(Lexemes)
  BY <1>2, <1>3, WholeIs
<1>5. functionTokens(<<"counters">>, args) = <<KeptToken(t)>>
  <2>1. KeptToken(t)
          = [type |-> "counters", name |-> name, glue |-> Kept(glue), format |-> format]
    BY DEF KeptToken
  <2> DEFINE kept == Kept(glue)
  <2> HIDE DEF text, kept
  <2>2. functionTokens(<<"counters">>, Arguments(<<<<name>>>>, kept, format))
          = <<[type |-> "counters", name |-> name, glue |-> kept, format |-> format]>>
    BY FunctionsAre
  <2>3. QED
    BY <2>1, <2>2 DEF kept
<1> HIDE DEF text, args
<1>6. QED
  BY <1>1, <1>4, <1>5, CallFinished

\* Every token is read as it was written.
LEMMA WrittenIs ==
  ASSUME NEW k \in Seq(KeptTokens), NEW n, NEW b, NEW t \in Tokens
  PROVE  WrittenRead(k, n, b, t)
<1>1. CASE t \in [type : {"string"}, value : Values]
  <2>1. t.value \in Values /\ t = [type |-> "string", value |-> t.value]
    BY <1>1
  <2>2. QED
    BY <2>1, StringWritten
<1>2. CASE t \in [type : {"url"}, value : Values \ {<<>>}]
  <2>1. t.value \in Values \ {<<>>} /\ t = [type |-> "url", value |-> t.value]
    BY <1>2
  <2>2. QED
    BY <2>1, UrlWritten
<1>3. CASE t \in [type : {"attr"}, name : Words]
  <2>1. t.name \in Words /\ t = [type |-> "attr", name |-> t.name]
    BY <1>3
  <2>2. QED
    BY <2>1, AttrWritten
<1>4. CASE t \in [type : {"counter"}, name : Words, format : Formats]
  <2>1. /\ t.name \in Words /\ t.format \in Formats
        /\ t = [type |-> "counter", name |-> t.name, format |-> t.format]
    BY <1>4
  <2>2. QED
    BY <2>1, CounterWritten
<1>5. CASE t \in [type : {"counters"}, name : Words, glue : Values, format : Formats]
  <2>1. /\ t.name \in Words /\ t.glue \in Values /\ t.format \in Formats
        /\ t = [type |-> "counters", name |-> t.name, glue |-> t.glue, format |-> t.format]
    BY <1>5
  <2>2. QED
    BY <2>1, CountersWritten
<1>6. CASE t \in [type : {"open", "close"}]
  <2>1. t = [type |-> "open"] \/ t = [type |-> "close"]
    BY <1>6
  <2>2. CASE t = [type |-> "open"]
    <3> DEFINE w == "open-quote"
    <3>1. w \in {"open-quote", "close-quote"} /\ t = IF w = "open-quote" THEN [type |-> "open"] ELSE [type |-> "close"]
      BY <2>2
    <3> HIDE DEF w
    <3>2. QED
      BY <3>1, MarkWritten
  <2>3. CASE t = [type |-> "close"]
    <3> DEFINE w == "close-quote"
    <3>1. w \in {"open-quote", "close-quote"} /\ t = IF w = "open-quote" THEN [type |-> "open"] ELSE [type |-> "close"]
      BY <2>3
    <3> HIDE DEF w
    <3>2. QED
      BY <3>1, MarkWritten
  <2>4. QED
    BY <2>1, <2>2, <2>3
<1>7. QED
  BY <1>1, <1>2, <1>3, <1>4, <1>5, <1>6 DEF Tokens, TokensOver

\* The loop between two tokens.
Between(r, k) == \E n, a : r = State(k, <<>>, FALSE, FALSE, FALSE, n, a)
LEMMA SpaceFinishes ==
  ASSUME NEW r, NEW k, Finished(r, k)
  PROVE  Between(Lexeme(r, " "), k)
<1>1. PICK p, s, n, a : r = State(p, s, FALSE, FALSE, FALSE, n, a) /\ k = WithWord(p, s)
  BY DEF Finished
<1>2. SpaceRead(p, s, n, a)
  BY SpaceOutside
<1>3. Lexeme(r, " ") = State(k, <<>>, FALSE, FALSE, FALSE, n, a)
  BY <1>1, <1>2 DEF SpaceRead
<1>4. QED
  BY <1>3 DEF Between

\* Whatever an author writes in `content' without apostrophes in strings or an empty url,
\* parseContent has it back token by token: no bracket, comma, space or quotation mark in
\* a string is taken for its own.  Only of a control character it keeps the digits with
\* which the browser writes it, and the space after them.
THEOREM ParsesWhatWasWritten ==
  ASSUME NEW T \in Seq(Tokens)
  PROVE  parseContent(Content(T)) = [i \in DOMAIN T |-> KeptToken(T[i])]
<1> DEFINE texts == [i \in DOMAIN T |-> Written(T[i])]
           m == Len(T)
           sep == <<" ">>
           K == [i \in DOMAIN T |-> KeptToken(T[i])]
<1>1. m \in Nat /\ DOMAIN T = 1..m /\ (\A i \in 1..m : T[i] \in Tokens) /\ Len(texts) = m
  OBVIOUS
<1>0. /\ K \in Seq(KeptTokens) /\ Len(K) = m
      /\ \A i \in 1..m : K[i] = KeptToken(T[i]) /\ K[i] \in KeptTokens
  BY <1>1 DEF KeptTokens
<1>2. \A i \in 1..m : texts[i] = Written(T[i]) /\ texts[i] \in Seq(Lexemes)
  <2> SUFFICES ASSUME NEW i \in 1..m
               PROVE  texts[i] = Written(T[i]) /\ texts[i] \in Seq(Lexemes)
    OBVIOUS
  <2>1. texts[i] = Written(T[i])
    BY <1>1
  <2>2. T[i] \in Tokens
    BY <1>1
  <2>3. <<>> \in Seq(KeptTokens)
    BY EmptySeq
  <2>4. WrittenRead(<<>>, 0, 0, T[i])
    BY <2>2, <2>3, WrittenIs
  <2> HIDE DEF texts, m
  <2>5. QED
    BY <2>1, <2>4 DEF WrittenRead
<1>3. sep \in Seq(Lexemes) /\ <<>> \in Seq(Lexemes) /\ " " \in Lexemes
  <2>1. " " \in Lexemes
    BY LexemesAre
  <2>2. QED
    BY <2>1, ShortTexts, EmptySeq
<1>4. Content(T) = Joined(texts, sep)
  BY DEF Content
<1> HIDE DEF texts, m, K
<1>5. PICK j : JoinedBy(texts, sep, m, Lexemes, j)
  <2> HIDE DEF sep
  <2>1. QED
    BY <1>1, <1>2, <1>3, JoinedSteps
<1>6. /\ \A i \in 0..m : j[i] \in Seq(Lexemes)
      /\ j[0] = <<>> /\ Content(T) = j[m]
      /\ \A i \in 1..m : j[i] = (j[i - 1] \o (IF i = 1 THEN <<>> ELSE sep)) \o texts[i]
  BY <1>4, <1>5 DEF JoinedBy
<1> DEFINE Read(i) == SubSeq(K, 1, i)
           Good == {i \in 0..m : Finished(Lexed(Lexing, j[i]), Read(i))}
<1>7. /\ Read(0) = <<>> /\ Read(m) = K
      /\ \A i \in 1..m : Read(i) = Append(Read(i - 1), K[i])
      /\ \A i \in 0..m : Read(i) \in Seq(KeptTokens)
  BY <1>0, Beginnings
<1>8. Lexing = State(<<>>, <<>>, FALSE, FALSE, FALSE, <<>>, <<>>)
  BY DEF Lexing, State
<1>9. Lexed(Lexing, j[0]) = Lexing
  BY <1>6, LexedShort
<1> HIDE DEF Read
<1>10. 0 \in Good
  <2>1. WithWord(<<>>, <<>>) = <<>>
    BY DEF WithWord
  <2>2. Finished(Lexing, Read(0))
    BY <1>7, <1>8, <2>1 DEF Finished
  <2>3. 0 \in 0..m
    BY <1>1
  <2>4. QED
    BY <1>9, <2>2, <2>3
<1>11. ASSUME NEW i \in 1..m, i - 1 \in Good PROVE i \in Good
  <2> DEFINE s == IF i = 1 THEN <<>> ELSE sep
             before == j[i - 1] \o s
             k == Read(i - 1)
  <2>1. j[i - 1] \in Seq(Lexemes) /\ Finished(Lexed(Lexing, j[i - 1]), k) /\ k \in Seq(KeptTokens)
    <3>1. i - 1 \in 0..m
      BY <1>11
    <3>2. QED
      BY <1>6, <1>7, <1>11, <3>1
  <2> HIDE DEF k, Good
  <2>2. before \in Seq(Lexemes) /\ Between(Lexed(Lexing, before), k)
    <3>1. CASE i = 1
      <4>1. before = <<>>
        <5>1. before = <<>> \o <<>>
          <6>1. s = <<>> /\ i - 1 = 0
            BY <3>1
          <6>2. j[i - 1] = <<>>
            BY <1>6, <6>1
          <6> HIDE DEF s
          <6>3. QED
            BY <6>1, <6>2
        <5>2. <<>> \o <<>> = <<>>
          BY <1>3, ConcatEmptySeq
        <5>3. QED
          BY <5>1, <5>2
      <4>2. k = <<>>
        BY <1>7, <3>1 DEF k
      <4>3. Lexed(Lexing, before) = State(k, <<>>, FALSE, FALSE, FALSE, <<>>, <<>>)
        BY <1>6, <1>8, <1>9, <4>1, <4>2
      <4> HIDE DEF before
      <4>4. QED
        BY <1>3, <4>1, <4>3 DEF Between
    <3>2. CASE i # 1
      <4>1. before = j[i - 1] \o sep
        BY <3>2
      <4> HIDE DEF before
      <4>2. Lexed(Lexing, j[i - 1] \o sep) = Lexed(Lexed(Lexing, j[i - 1]), sep)
        <5> HIDE DEF sep
        <5>1. QED
          BY <1>3, <2>1, LexedConcat
      <4> DEFINE r == Lexed(Lexing, j[i - 1])
      <4> HIDE DEF r
      <4>3. Lexed(r, sep) = Lexeme(r, " ")
        BY <1>3, LexedShort
      <4>4. Between(Lexeme(r, " "), k)
        BY <2>1, SpaceFinishes DEF r
      <4>5. j[i - 1] \o sep \in Seq(Lexemes)
        <5> HIDE DEF sep
        <5>1. QED
          BY <1>3, <2>1, ConcatProperties
      <4> HIDE DEF sep
      <4>6. QED
        BY <4>1, <4>2, <4>3, <4>4, <4>5 DEF r
    <3>3. QED
      BY <3>1, <3>2
  <2>3. PICK n, a : Lexed(Lexing, before) = State(k, <<>>, FALSE, FALSE, FALSE, n, a)
    BY <2>2 DEF Between
  <2>4. j[i] = before \o texts[i]
    BY <1>6
  <2>5. texts[i] \in Seq(Lexemes) /\ texts[i] = Written(T[i]) /\ T[i] \in Tokens
    BY <1>1, <1>2
  <2> HIDE DEF before
  <2>6. Lexed(Lexing, before \o texts[i]) = Lexed(Lexed(Lexing, before), texts[i])
    BY <2>2, <2>5, LexedConcat
  <2>7. WrittenRead(k, n, a, T[i])
    BY <2>1, <2>5, WrittenIs
  <2>8. Finished(Lexed(Lexing, j[i]), Append(k, K[i]))
    BY <1>0, <2>3, <2>4, <2>5, <2>6, <2>7 DEF WrittenRead
  <2>9. Append(k, K[i]) = Read(i)
    BY <1>7 DEF k
  <2>10. QED
    BY <2>8, <2>9 DEF Good
<1> HIDE DEF Good
<1>12. \A i \in 0..m : i \in Good
  BY <1>1, <1>10, <1>11, UpTo
<1>13. Finished(Lexed(Lexing, Content(T)), K)
  <2>1. m \in Good
    BY <1>1, <1>12
  <2>2. QED
    BY <1>6, <1>7, <2>1 DEF Good
<1>14. PICK p, s, n, a : Lexed(Lexing, Content(T)) = State(p, s, FALSE, FALSE, FALSE, n, a) /\ K = WithWord(p, s)
  BY <1>13 DEF Finished
<1>15. parseContent(Content(T)) = IF s # <<>> THEN addOtherToken(p, s) ELSE p
  <2>1. Lexed(Lexing, Content(T)).str = s /\ Lexed(Lexing, Content(T)).tokens = p
    BY <1>14 DEF State
  <2> HIDE DEF sep
  <2>2. QED
    BY <2>1 DEF parseContent
<1>16. QED
  BY <1>14, <1>15 DEF WithWord, K

\* So it has the whole of what can be read.
LEMMA ReadableParsed ==
  ASSUME NEW T \in Seq(Readable)
  PROVE  T \in Seq(Tokens) /\ parseContent(Content(T)) = T
<1>1. ASSUME NEW t \in Readable PROVE t \in Tokens /\ KeptToken(t) = t
  <2>1. CASE t \in [type : {"string"}, value : ReadableValues]
    <3>1. t.value \in Values /\ Kept(t.value) = t.value /\ t.type = "string"
          /\ t = [type |-> "string", value |-> t.value]
      BY <2>1, KeptWhole
    <3>2. t \in [type : {"string"}, value : Values]
      BY <3>1
    <3>3. KeptToken(t) = t
      BY <3>1 DEF KeptToken
    <3>4. QED
      BY <3>2, <3>3 DEF Tokens, TokensOver
  <2>2. CASE t \in [type : {"url"}, value : ReadableValues \ {<<>>}]
    <3>1. t.value \in Values \ {<<>>} /\ Kept(t.value) = t.value /\ t.type = "url"
          /\ t = [type |-> "url", value |-> t.value]
      BY <2>2, KeptWhole
    <3>2. t \in [type : {"url"}, value : Values \ {<<>>}]
      BY <3>1
    <3>3. KeptToken(t) = t
      BY <3>1 DEF KeptToken
    <3>4. QED
      BY <3>2, <3>3 DEF Tokens, TokensOver
  <2>3. CASE t \in [type : {"attr"}, name : Words]
    BY <2>3 DEF Tokens, TokensOver, KeptToken
  <2>4. CASE t \in [type : {"counter"}, name : Words, format : Formats]
    BY <2>4 DEF Tokens, TokensOver, KeptToken
  <2>5. CASE t \in [type : {"counters"}, name : Words, glue : ReadableValues, format : Formats]
    <3>1. t.glue \in Values /\ Kept(t.glue) = t.glue /\ t.type = "counters"
          /\ t.name \in Words /\ t.format \in Formats
          /\ t = [type |-> "counters", name |-> t.name, glue |-> t.glue, format |-> t.format]
      BY <2>5, KeptWhole
    <3>2. t \in [type : {"counters"}, name : Words, glue : Values, format : Formats]
      BY <3>1
    <3>3. KeptToken(t) = t
      BY <3>1 DEF KeptToken
    <3>4. QED
      BY <3>2, <3>3 DEF Tokens, TokensOver
  <2>6. CASE t \in [type : {"open", "close"}]
    BY <2>6 DEF Tokens, TokensOver, KeptToken
  <2>7. QED
    BY <2>1, <2>2, <2>3, <2>4, <2>5, <2>6 DEF Readable, TokensOver
<1>2. T \in Seq(Tokens)
  BY <1>1
<1>3. parseContent(Content(T)) = [i \in DOMAIN T |-> KeptToken(T[i])]
  BY <1>2, ParsesWhatWasWritten
<1>4. \A i \in DOMAIN T : KeptToken(T[i]) = T[i]
  BY <1>1
<1>5. [i \in DOMAIN T |-> KeptToken(T[i])] = [i \in DOMAIN T |-> T[i]]
  BY <1>4
<1>6. [i \in DOMAIN T |-> T[i]] = T
  OBVIOUS
<1>7. QED
  BY <1>2, <1>3, <1>5, <1>6


-----------------------------------------------------------------------------
(***************************************************************************)
(* Positions.                                                               *)
(***************************************************************************)

\* There are as many positions as there are ends of elements, so no two share one.
LEMMA PositionsDiffer ==
  /\ \A m, n \in Nodes : Open[m] = Open[n] => m = n
  /\ \A m, n \in Nodes : Close[m] = Close[n] => m = n
  /\ \A m, n \in Nodes : Open[m] # Close[n]
<1> DEFINE Ends == Nodes \X {1, 2}
           Count == 2 * Cardinality(Nodes)
           end == [e \in Ends |-> IF e[2] = 1 THEN Open[e[1]] ELSE Close[e[1]]]
<1>1. IsFiniteSet(Nodes) /\ Cardinality(Nodes) \in Nat
  BY DocumentAssumption, FS_CardinalityType
<1>2. IsFiniteSet({1, 2}) /\ Cardinality({1, 2}) = 2
  <2>1. IsFiniteSet({1}) /\ Cardinality({1}) = 1
    BY FS_Singleton
  <2>2. {1, 2} = {1} \cup {2} /\ 2 \notin {1}
    OBVIOUS
  <2>3. IsFiniteSet({1} \cup {2}) /\ Cardinality({1} \cup {2}) = 1 + 1
    BY <2>1, <2>2, FS_AddElement
  <2>4. QED
    BY <2>2, <2>3
<1>3. IsFiniteSet(Ends) /\ Cardinality(Ends) = Count
  BY <1>1, <1>2, FS_Product
<1>4. Count \in Nat /\ Cardinality(1..Count) = Count
  <2>1. Count \in Nat
    BY <1>1
  <2>2. QED
    BY <2>1, FS_Interval
<1>5. {Open[n] : n \in Nodes} \cup {Close[n] : n \in Nodes} = 1..Count
  BY DocumentAssumption
<1> HIDE DEF Count
<1>6. end \in [Ends -> 1..Count]
  BY <1>5
<1>7. \A p \in 1..Count : \E e \in Ends : end[e] = p
  <2> SUFFICES ASSUME NEW p \in 1..Count PROVE \E e \in Ends : end[e] = p
    OBVIOUS
  <2>1. PICK n \in Nodes : p = Open[n] \/ p = Close[n]
    BY <1>5
  <2>2. /\ <<n, 1>> \in Ends /\ end[<<n, 1>>] = Open[n]
        /\ <<n, 2>> \in Ends /\ end[<<n, 2>>] = Close[n]
    OBVIOUS
  <2>3. QED
    BY <2>1, <2>2
<1>8. end \in Surjection(Ends, 1..Count)
  BY <1>6, <1>7 DEF Surjection
<1>9. end \in Injection(Ends, 1..Count)
  BY <1>3, <1>4, <1>8, FS_SurjSameCardinalityImpliesInj
<1>10. \A d, e \in Ends : end[d] = end[e] => d = e
  BY <1>9 DEF Injection, IsInjective
<1>11. \A n \in Nodes, i \in {1, 2} :
         /\ <<n, i>> \in Ends
         /\ end[<<n, i>>] = IF i = 1 THEN Open[n] ELSE Close[n]
  OBVIOUS
<1> HIDE DEF end, Ends
<1>12. \A m, n \in Nodes, i, j \in {1, 2} : end[<<m, i>>] = end[<<n, j>>] => m = n /\ i = j
  <2> SUFFICES ASSUME NEW m \in Nodes, NEW n \in Nodes, NEW i \in {1, 2}, NEW j \in {1, 2},
                      end[<<m, i>>] = end[<<n, j>>]
               PROVE  m = n /\ i = j
    OBVIOUS
  <2>1. <<m, i>> = <<n, j>>
    BY <1>10, <1>11
  <2>2. QED
    BY <2>1
<1>13. 1 \in {1, 2} /\ 2 \in {1, 2} /\ 1 # 2
  OBVIOUS
<1>14. ASSUME NEW m \in Nodes, NEW n \in Nodes
       PROVE  /\ Open[m] = Open[n] => m = n
              /\ Close[m] = Close[n] => m = n
              /\ Open[m] # Close[n]
  <2>1. /\ end[<<m, 1>>] = Open[m] /\ end[<<m, 2>>] = Close[m]
        /\ end[<<n, 1>>] = Open[n] /\ end[<<n, 2>>] = Close[n]
    BY <1>11, <1>13
  <2>2. QED
    BY <1>12, <1>13, <2>1
<1>15. QED
  BY <1>14

\* The elements that position p is inside of.
Around(p) == {m \in Nodes : Open[m] < p /\ p <= Close[m]}

\* Elements are opened before they are closed, and one within another.
LEMMA ElementsNest ==
  /\ \A n \in Nodes : Open[n] \in Nat /\ Close[n] \in Nat /\ Open[n] < Close[n]
  /\ \A m, n \in Nodes : Open[m] < Open[n] /\ Open[n] < Close[m] => Close[n] < Close[m]
BY DocumentAssumption

\* How the elements around change over the opening of n, over its end, and over all of n.
LEMMA AroundChanges ==
  ASSUME NEW n \in Nodes
  PROVE  /\ Around(Open[n] + 1) = Around(Open[n]) \cup {n} /\ n \notin Around(Open[n])
         /\ Around(Close[n] + 1) = Around(Close[n]) \ {n} /\ n \in Around(Close[n])
         /\ Around(Close[n] + 1) = Around(Open[n])
<1>1. ASSUME NEW m \in Nodes
      PROVE  /\ Open[m] < Open[n] + 1 /\ Open[n] + 1 <= Close[m]
                  <=> (Open[m] < Open[n] /\ Open[n] <= Close[m]) \/ m = n
             /\ Open[m] < Close[n] + 1 /\ Close[n] + 1 <= Close[m]
                  <=> (Open[m] < Close[n] /\ Close[n] <= Close[m]) /\ m # n
             /\ Open[m] < Close[n] + 1 /\ Close[n] + 1 <= Close[m]
                  <=> Open[m] < Open[n] /\ Open[n] <= Close[m]
  <2>1. /\ Open[m] \in Nat /\ Close[m] \in Nat /\ Open[m] < Close[m]
        /\ Open[n] \in Nat /\ Close[n] \in Nat /\ Open[n] < Close[n]
        /\ Open[m] < Open[n] /\ Open[n] < Close[m] => Close[n] < Close[m]
        /\ Open[n] < Open[m] /\ Open[m] < Close[n] => Close[m] < Close[n]
    BY ElementsNest
  <2>2. Open[m] # Close[n] /\ Open[n] # Close[m]
    BY PositionsDiffer
  <2>3. CASE m = n
    BY <2>1, <2>3
  <2>4. CASE m # n
    <3>1. Open[m] # Open[n] /\ Close[m] # Close[n]
      BY <2>4, PositionsDiffer
    <3>2. QED
      BY <2>1, <2>2, <2>4, <3>1
  <2>5. QED
    BY <2>3, <2>4
<1>2. Open[n] < Close[n] /\ ~(Open[n] < Open[n]) /\ Close[n] <= Close[n]
  BY ElementsNest
<1>3. QED
  BY <1>1, <1>2 DEF Around

\* The elements around the opening or the end of n contain n.
LEMMA AroundContain ==
  ASSUME NEW n \in Nodes, NEW m \in Nodes, Within(n, m)
  PROVE  /\ m # n => m \in Around(Open[n])
         /\ m \in Around(Close[n])
<1>1. /\ Open[m] \in Nat /\ Close[m] \in Nat /\ Open[m] <= Open[n] /\ Close[n] <= Close[m]
      /\ Open[n] \in Nat /\ Close[n] \in Nat /\ Open[n] < Close[n]
  BY ElementsNest DEF Within
<1>2. m # n => Open[m] # Open[n]
  BY PositionsDiffer
<1>3. QED
  BY <1>1, <1>2 DEF Around

\* Finitely many elements are around.
LEMMA AroundFinite == \A p : IsFiniteSet(Around(p)) /\ Around(p) \subseteq Nodes
BY DocumentAssumption, FS_Subset DEF Around

-----------------------------------------------------------------------------
(***************************************************************************)
(* The walk.                                                                *)
(***************************************************************************)
TypeInv == /\ \A n \in Nodes : style[n] \in Styles[n]
           /\ pos \in Nat
           /\ counters \in [Names -> Seq(Int)]
\* The walk is inside no element that is ignored.
NothingIgnored == \A m \in Around(pos) : ~style[m].ignored
Resetting(p, c) == {m \in Around(p) : Resets(m, c) # {}}
ScopesKept == ~thrown => \A c \in Names : Len(counters[c]) = Cardinality(Resetting(pos, c))
ScopesInv == TypeInv /\ NothingIgnored /\ ScopesKept

\* A reset gives a counter an integer.
LEMMA ResetsAreIntegers ==
  ASSUME TypeInv, NEW n \in Nodes, NEW c \in Names, Resets(n, c) # {}
  PROVE  InitialValue(n, c) \in Int
<1>1. (CHOOSE i \in Resets(n, c) : TRUE) \in Resets(n, c)
  OBVIOUS
<1>2. QED
  BY <1>1, StylesAssumption DEF TypeInv, InitialValue, Resets

\* An increment changes a value, never how many there are.
LEMMA IncrementKeeps ==
  ASSUME NEW cs \in [Names -> Seq(Int)], NEW names, NEW i, i # <<>> => i[2] \in Int
  PROVE  /\ Increment(cs, names, i) \in [Names -> Seq(Int)]
         /\ \A c \in Names : Len(Increment(cs, names, i)[c]) = Len(cs[c])
<1>1. CASE i = <<>> \/ i[1] \notin names \/ cs[i[1]] = <<>>
  BY <1>1 DEF Increment
<1>2. CASE ~(i = <<>> \/ i[1] \notin names \/ cs[i[1]] = <<>>)
  <2> DEFINE c == i[1]
             s == cs[c]
             r == [s EXCEPT ![Len(s)] = @ + i[2]]
  <2>1. Increment(cs, names, i) = [cs EXCEPT ![c] = r]
    BY <1>2 DEF Increment
  <2>2. CASE c \in Names
    <3>1. s \in Seq(Int) /\ s # <<>> /\ i[2] \in Int
      BY <1>2, <2>2
    <3> HIDE DEF s
    <3>2. Len(s) \in 1..Len(s) /\ s[Len(s)] + i[2] \in Int
      BY <3>1
    <3>3. r \in Seq(Int) /\ Len(r) = Len(s)
      BY <3>1, <3>2
    <3> HIDE DEF r, c
    <3>4. QED
      BY <2>1, <2>2, <3>3 DEF s
  <2>3. CASE c \notin Names
    <3>1. [cs EXCEPT ![c] = r] = cs
      BY <2>3
    <3>2. QED
      BY <2>1, <3>1
  <2>4. QED
    BY <2>2, <2>3
<1>3. QED
  BY <1>1, <1>2

\* Nor does what a pseudo-element shows change how many values there are.
LEMMA ContentKeeps ==
  ASSUME TypeInv, NEW n \in Nodes, NEW which \in {"before", "after"},
         NEW cs \in [Names -> Seq(Int)], NEW names
  PROVE  LET r == resolvePseudoContent(n, which, cs, names) IN
         /\ r.cs \in [Names -> Seq(Int)]
         /\ \A c \in Names : Len(r.cs[c]) = Len(cs[c])
<1> DEFINE incr == style[n][which].incr
<1>1. incr # <<>> => incr[2] \in Int
  <2>1. style[n] \in Styles[n]
    BY DEF TypeInv
  <2>2. incr \in {style[n].before.incr, style[n].after.incr}
    OBVIOUS
  <2>3. QED
    BY <2>1, <2>2, StylesAssumption
<1>2. \/ resolvePseudoContent(n, which, cs, names).cs = cs
      \/ resolvePseudoContent(n, which, cs, names).cs = Increment(cs, names, incr)
  BY DEF resolvePseudoContent
<1> HIDE DEF incr
<1>3. /\ Increment(cs, names, incr) \in [Names -> Seq(Int)]
      /\ \A c \in Names : Len(Increment(cs, names, incr)[c]) = Len(cs[c])
  BY <1>1, IncrementKeeps
<1> DEFINE r == resolvePseudoContent(n, which, cs, names)
<1> HIDE DEF r
<1>4. r.cs = cs \/ r.cs = Increment(cs, names, incr)
  BY <1>2 DEF r
<1>5. r.cs \in [Names -> Seq(Int)] /\ \A c \in Names : Len(r.cs[c]) = Len(cs[c])
  BY <1>3, <1>4
<1>6. QED
  BY <1>5 DEF r

\* No element is around the beginning.
LEMMA InitScopes == Init => ScopesInv
<1> SUFFICES ASSUME Init PROVE ScopesInv
  OBVIOUS
<1>1. \A n \in Nodes : Open[n] \in 1..(2 * Cardinality(Nodes))
  BY DocumentAssumption
<1>2. \A n \in Nodes : 1 <= Open[n] /\ Open[n] \in Nat
  BY <1>1, ElementsNest
<1>3. Around(1) = {}
  BY <1>2 DEF Around
<1>4. Len(<<>>) = 0 /\ <<>> \in Seq(Int)
  OBVIOUS
<1>5. \A c \in Names : Cardinality(Resetting(1, c)) = 0
  BY <1>3, FS_EmptySet DEF Resetting
<1>6. QED
  BY <1>3, <1>4, <1>5 DEF Init, ScopesInv, TypeInv, NothingIgnored, ScopesKept

\* One value more when an element that resets the counter is entered,
LEMMA EnterStep ==
  ASSUME ScopesInv, NEW n \in Nodes, Enter(n)
  PROVE  ScopesInv'
<1> DEFINE cs == parseCounterReset(n)
           names == known \cup {c \in Names : Resets(n, c) # {}}
           r == resolvePseudoContent(n, "before", cs, names)
<1>1. /\ pos = Open[n] /\ pos' = pos + 1 /\ style' = style /\ ~style[n].ignored /\ ~thrown
      /\ counters' = r.cs
  BY DEF Enter, Walking
<1>2. TypeInv /\ NothingIgnored /\ ScopesKept
  BY DEF ScopesInv
<1>3. Around(pos') = Around(pos) \cup {n} /\ n \notin Around(pos)
  BY <1>1, AroundChanges
<1>4. /\ cs \in [Names -> Seq(Int)]
      /\ \A c \in Names : Len(cs[c]) = Len(counters[c]) + (IF Resets(n, c) = {} THEN 0 ELSE 1)
  <2>1. ASSUME NEW c \in Names
        PROVE  /\ cs[c] \in Seq(Int)
               /\ Len(cs[c]) = Len(counters[c]) + (IF Resets(n, c) = {} THEN 0 ELSE 1)
    <3>1. cs[c] = IF Resets(n, c) = {} THEN counters[c] ELSE Append(counters[c], InitialValue(n, c))
      BY DEF parseCounterReset
    <3>2. counters[c] \in Seq(Int)
      BY <1>2 DEF TypeInv
    <3>3. Resets(n, c) # {} => InitialValue(n, c) \in Int
      BY <1>2, ResetsAreIntegers
    <3> DEFINE s == counters[c]
               v == InitialValue(n, c)
    <3>4. v \in Int => Append(s, v) \in Seq(Int) /\ Len(Append(s, v)) = Len(s) + 1
      BY <3>2
    <3>5. Len(s) = Len(s) + 0
      BY <3>2
    <3> HIDE DEF cs, s, v
    <3>6. QED
      BY <3>1, <3>2, <3>3, <3>4, <3>5 DEF s, v
  <2>2. cs = [c \in Names |-> cs[c]]
    BY DEF parseCounterReset
  <2>3. QED
    BY <2>1, <2>2
<1> HIDE DEF cs, names
<1>5. r.cs \in [Names -> Seq(Int)] /\ \A c \in Names : Len(r.cs[c]) = Len(cs[c])
  BY <1>2, <1>4, ContentKeeps
<1> HIDE DEF r
<1>6. TypeInv'
  BY <1>1, <1>2, <1>5 DEF TypeInv
<1>7. NothingIgnored'
  BY <1>1, <1>2, <1>3 DEF NothingIgnored, Around
<1>8. ScopesKept'
  <2> SUFFICES ASSUME NEW c \in Names
               PROVE  Len(counters'[c]) = Cardinality({m \in Around(pos') : Resets(m, c)' # {}})
    BY DEF ScopesKept, Resetting, Around
  <2> DEFINE after == {m \in Around(pos') : Resets(m, c)' # {}}
  <2>1. \A m : Resets(m, c)' = Resets(m, c)
    BY <1>1 DEF Resets
  <2>2. after =
          IF Resets(n, c) = {} THEN Resetting(pos, c) ELSE Resetting(pos, c) \cup {n}
    BY <1>3, <2>1 DEF Resetting
  <2>3. n \notin Resetting(pos, c) /\ IsFiniteSet(Resetting(pos, c))
    BY <1>3, AroundFinite, FS_Subset DEF Resetting
  <2>4. Cardinality(Resetting(pos, c)) \in Nat
    BY <2>3, FS_CardinalityType
  <2> HIDE DEF after
  <2>5. Cardinality(after) =
          Cardinality(Resetting(pos, c)) + (IF Resets(n, c) = {} THEN 0 ELSE 1)
    <3>1. Cardinality(Resetting(pos, c) \cup {n}) = Cardinality(Resetting(pos, c)) + 1
      BY <2>3, FS_AddElement
    <3>2. QED
      BY <2>2, <2>4, <3>1
  <2>6. Len(counters[c]) = Cardinality(Resetting(pos, c))
    BY <1>1, <1>2 DEF ScopesKept
  <2>7. QED
    BY <1>1, <1>4, <1>5, <2>5, <2>6 DEF after
<1>9. QED
  BY <1>6, <1>7, <1>8 DEF ScopesInv

\* as many as before when one is ignored,
LEMMA IgnoreStep ==
  ASSUME ScopesInv, NEW n \in Nodes, Ignore(n)
  PROVE  ScopesInv'
<1>1. /\ pos = Open[n] /\ pos' = Close[n] + 1 /\ style' = style /\ thrown' = thrown
      /\ counters' = counters
  BY DEF Ignore
<1>2. Around(pos') = Around(pos)
  BY <1>1, AroundChanges
<1>3. pos' \in Nat
  BY <1>1, ElementsNest
<1>4. QED
  BY <1>1, <1>2, <1>3
     DEF ScopesInv, TypeInv, NothingIgnored, ScopesKept, Resetting, Resets, Around

\* one less when it is left.
LEMMA LeaveStep ==
  ASSUME ScopesInv, NEW n \in Nodes, Leave(n)
  PROVE  ScopesInv'
<1> DEFINE r == resolvePseudoContent(n, "after", counters, known)
<1>1. /\ pos = Close[n] /\ pos' = pos + 1 /\ style' = style /\ ~thrown /\ thrown' = r.bad
      /\ counters' = IF r.bad THEN r.cs ELSE popCounters(n, r.cs)
  BY DEF Leave, Walking
<1>2. TypeInv /\ NothingIgnored /\ ScopesKept
  BY DEF ScopesInv
<1>3. Around(pos') = Around(pos) \ {n} /\ n \in Around(pos)
  BY <1>1, AroundChanges
<1>4. counters \in [Names -> Seq(Int)]
  BY <1>2 DEF TypeInv
<1>5. r.cs \in [Names -> Seq(Int)] /\ \A c \in Names : Len(r.cs[c]) = Len(counters[c])
  BY <1>2, <1>4, ContentKeeps
<1> HIDE DEF r
<1>6. ASSUME NEW c \in Names
      PROVE  /\ IsFiniteSet(Resetting(pos, c)) /\ Cardinality(Resetting(pos, c)) \in Nat
             /\ Len(r.cs[c]) = Cardinality(Resetting(pos, c))
             /\ n \in Resetting(pos, c) <=> Resets(n, c) # {}
             /\ Resets(n, c) # {} => Cardinality(Resetting(pos, c)) # 0
  <2>1. IsFiniteSet(Resetting(pos, c))
    BY AroundFinite, FS_Subset DEF Resetting
  <2>2. n \in Resetting(pos, c) <=> Resets(n, c) # {}
    BY <1>3 DEF Resetting
  <2>3. Len(r.cs[c]) = Cardinality(Resetting(pos, c))
    BY <1>1, <1>2, <1>5 DEF ScopesKept
  <2>4. QED
    BY <2>1, <2>2, <2>3, FS_CardinalityType, FS_EmptySet
<1>7. /\ popCounters(n, r.cs) \in [Names -> Seq(Int)]
      /\ \A c \in Names : Len(popCounters(n, r.cs)[c]) =
                            Len(r.cs[c]) - (IF Resets(n, c) = {} THEN 0 ELSE 1)
  <2> DEFINE popped == popCounters(n, r.cs)
  <2>1. ASSUME NEW c \in Names
        PROVE  /\ popped[c] \in Seq(Int)
               /\ Len(popped[c]) = Len(r.cs[c]) - (IF Resets(n, c) = {} THEN 0 ELSE 1)
    <3>1. popped[c] = IF Resets(n, c) = {} THEN r.cs[c] ELSE Front(r.cs[c])
      BY DEF popCounters
    <3> DEFINE s == r.cs[c]
    <3>2. s \in Seq(Int) /\ (Resets(n, c) # {} => Len(s) # 0)
      BY <1>5, <1>6
    <3> HIDE DEF s
    <3>3. Resets(n, c) # {} => Front(s) \in Seq(Int) /\ Len(Front(s)) = Len(s) - 1
      BY <3>2 DEF Front
    <3> HIDE DEF popped
    <3>4. QED
      BY <3>1, <3>2, <3>3 DEF s
  <2>2. popped = [c \in Names |-> popped[c]]
    BY DEF popCounters
  <2>3. QED
    BY <2>1, <2>2
<1>8. TypeInv'
  BY <1>1, <1>2, <1>5, <1>7 DEF TypeInv
<1>9. NothingIgnored'
  BY <1>1, <1>2, <1>3 DEF NothingIgnored, Around
<1>10. ScopesKept'
  <2> SUFFICES ASSUME ~thrown', NEW c \in Names
               PROVE  Len(counters'[c]) = Cardinality({m \in Around(pos') : Resets(m, c)' # {}})
    BY DEF ScopesKept, Resetting, Around
  <2> DEFINE after == {m \in Around(pos') : Resets(m, c)' # {}}
  <2>1. \A m : Resets(m, c)' = Resets(m, c)
    BY <1>1 DEF Resets
  <2>2. after =
          IF Resets(n, c) = {} THEN Resetting(pos, c) ELSE Resetting(pos, c) \ {n}
    BY <1>3, <2>1 DEF Resetting
  <2> HIDE DEF after
  <2>3. Cardinality(after) =
          Cardinality(Resetting(pos, c)) - (IF Resets(n, c) = {} THEN 0 ELSE 1)
    <3>1. Resets(n, c) # {} =>
            Cardinality(Resetting(pos, c) \ {n}) = Cardinality(Resetting(pos, c)) - 1
      BY <1>6, FS_RemoveElement
    <3>2. QED
      BY <1>6, <2>2, <3>1
  <2>4. counters' = popCounters(n, r.cs)
    BY <1>1
  <2>5. QED
    BY <1>6, <1>7, <2>3, <2>4 DEF after
<1>11. QED
  BY <1>8, <1>9, <1>10 DEF ScopesInv

\* So the scopes are kept.
LEMMA ScopesInvariant == Spec => []ScopesInv
<1>1. ASSUME ScopesInv, [Next]_vars PROVE ScopesInv'
  <2>1. ASSUME NEW n \in Nodes, Enter(n) PROVE ScopesInv'
    BY <1>1, <2>1, EnterStep
  <2>2. ASSUME NEW n \in Nodes, Ignore(n) PROVE ScopesInv'
    BY <1>1, <2>2, IgnoreStep
  <2>3. ASSUME NEW n \in Nodes, Leave(n) PROVE ScopesInv'
    BY <1>1, <2>3, LeaveStep
  <2>4. CASE UNCHANGED vars
    BY <1>1, <2>4
       DEF vars, ScopesInv, TypeInv, NothingIgnored, ScopesKept, Resetting, Resets, Around
  <2>5. QED
    BY <1>1, <2>1, <2>2, <2>3, <2>4 DEF Next
<1>2. QED
  BY <1>1, InitScopes, PTL DEF Spec

\* Whatever the document and its styles, the walk holds one value of a counter for each
\* element around it that resets it, first in its list, and none of those it has left.
THEOREM ScopesAreThePath == Spec => []ScopesMatchPath
<1>1. ASSUME ScopesInv PROVE ScopesMatchPath
  <2>1. ASSUME NEW n \in Around(pos) PROVE Cloned(n)
    <3> SUFFICES ASSUME NEW m \in Nodes, Within(n, m) PROVE ~style[m].ignored
      BY DEF Cloned
    <3>1. n \in Nodes /\ Open[n] < pos /\ pos <= Close[n] /\ Open[m] <= Open[n] /\ Close[n] <= Close[m]
      BY DEF Around, Within
    <3>2. Open[n] \in Nat /\ Close[n] \in Nat /\ Open[m] \in Nat /\ Close[m] \in Nat /\ pos \in Nat
      BY <1>1, <3>1, ElementsNest DEF ScopesInv, TypeInv
    <3>3. m \in Around(pos)
      BY <3>1, <3>2 DEF Around
    <3>4. QED
      BY <1>1, <3>3 DEF ScopesInv, NothingIgnored
  <2>2. ASSUME NEW c \in Names
        PROVE  {n \in Nodes : /\ Cloned(n) /\ Open[n] < pos /\ pos <= Close[n]
                              /\ Resets(n, c) # {}} = Resetting(pos, c)
    BY <2>1 DEF Resetting, Around
  <2>3. QED
    BY <1>1, <2>2 DEF ScopesInv, ScopesKept, ScopesMatchPath
<1>2. QED
  BY <1>1, ScopesInvariant, PTL

-----------------------------------------------------------------------------
(***************************************************************************)
(* Sums.                                                                    *)
(***************************************************************************)
\* s has the running totals of f.
RunningTotals(f, s) ==
  /\ s[0] = 0 /\ \A k \in 1..Len(f) : s[k] = s[k - 1] + f[k]
  /\ \A k \in 0..Len(f) : s[k] \in Int
LEMMA SumsAre ==
  ASSUME NEW f, Len(f) \in Nat, \A k \in 1..Len(f) : f[k] \in Int
  PROVE  RunningTotals(f, Sums(f))
<1> DEFINE n == Len(f)
           next == [p \in (1..n) \X Int |-> p[2] + f[p[1]]]
           Is(g) == g = [k \in 0..n |-> IF k = 0 THEN 0 ELSE g[k - 1] + f[k]]
           s == CHOOSE g : Is(g)
<1>1. n \in Nat /\ \A k \in 1..n : f[k] \in Int
  OBVIOUS
<1>2. Sums(f) = s
  BY DEF Sums
<1> HIDE DEF n
<1>3. next \in [(1..n) \X Int -> Int] /\ 0 \in Int
  BY <1>1
<1>4. PICK g : Iterates(g, n, Int, 0, next)
  <2> HIDE DEF next
  <2>1. QED
    BY <1>1, <1>3, IteratesExists
<1>5. g \in [0..n -> Int] /\ g[0] = 0 /\ \A k \in 1..n : g[k] = g[k - 1] + f[k]
  <2>1. g \in [0..n -> Int] /\ g[0] = 0 /\ \A k \in 1..n : g[k] = next[<<k, g[k - 1]>>]
    BY <1>4 DEF Iterates
  <2>2. \A k \in 1..n : <<k, g[k - 1]>> \in (1..n) \X Int
    BY <1>1, <2>1
  <2>3. QED
    BY <2>1, <2>2
<1>6. Is(g)
  <2>1. \A k \in 0..n : k = 0 \/ k \in 1..n
    OBVIOUS
  <2>2. QED
    BY <1>5, <2>1
<1>7. Is(s)
  BY <1>6
<1> HIDE DEF s
<1>8. s[0] = 0 /\ \A k \in 1..n : s[k] = s[k - 1] + f[k]
  <2>1. 0 \in 0..n /\ \A k \in 1..n : k \in 0..n /\ k # 0
    BY <1>1
  <2>2. QED
    BY <1>7, <2>1
<1> DEFINE Good == {k \in 0..n : s[k] \in Int}
<1>9. 0 \in Good
  BY <1>1, <1>8
<1>10. \A k \in 1..n : k - 1 \in Good => k \in Good
  BY <1>1, <1>8
<1> HIDE DEF Good
<1>11. \A k \in 0..n : k \in Good
  BY <1>1, <1>9, <1>10, UpTo
<1>12. \A k \in 0..n : s[k] \in Int
  BY <1>11 DEF Good
<1>13. QED
  BY <1>2, <1>8, <1>12 DEF RunningTotals, n

\* Where f adds nothing the total stays the same.
LEMMA SumsStay ==
  ASSUME NEW f, NEW s, RunningTotals(f, s), Len(f) \in Nat,
         NEW a \in Nat, NEW b \in Nat, a <= b, b <= Len(f), \A k \in (a + 1)..b : f[k] = 0
  PROVE  s[b] = s[a]
<1> DEFINE n == b - a
           Good == {i \in 0..n : s[a + i] = s[a]}
<1>1. n \in Nat /\ a + n = b
  OBVIOUS
<1>2. 0 \in Good
  BY <1>1
<1>3. ASSUME NEW i \in 1..n, i - 1 \in Good PROVE i \in Good
  <2>1. /\ a + i \in 1..Len(f) /\ a + i \in (a + 1)..b /\ a + (i - 1) = (a + i) - 1
        /\ (a + i) - 1 \in 0..Len(f)
    BY <1>1
  <2>2. s[a + i] = s[(a + i) - 1] + f[a + i] /\ s[(a + i) - 1] \in Int
    BY <2>1 DEF RunningTotals
  <2>3. f[a + i] = 0 /\ s[(a + i) - 1] = s[a]
    BY <1>3, <2>1
  <2>4. QED
    BY <2>2, <2>3
<1> HIDE DEF Good, n
<1>4. \A i \in 0..n : i \in Good
  BY <1>1, <1>2, <1>3, UpTo
<1>5. n \in Good
  BY <1>1, <1>4
<1>6. QED
  BY <1>1, <1>5 DEF Good

-----------------------------------------------------------------------------
(***************************************************************************)
(* Elements in the order in which they open.                                *)
(***************************************************************************)
LEMMA RankIs ==
  ASSUME NEW S \in SUBSET Nodes
  PROVE  /\ IsFiniteSet(S) /\ Cardinality(S) \in Nat
         /\ \A m \in S : Rank(S, m) \in 1..Cardinality(S)
         /\ \A m, n \in S : Open[m] < Open[n] => Rank(S, m) < Rank(S, n)
<1>1. IsFiniteSet(S) /\ Cardinality(S) \in Nat
  BY DocumentAssumption, FS_Subset, FS_CardinalityType
<1> DEFINE before(m) == {x \in S : Open[x] <= Open[m]}
<1>2. \A m \in S : IsFiniteSet(before(m)) /\ Cardinality(before(m)) \in Nat
                   /\ Cardinality(before(m)) <= Cardinality(S) /\ Rank(S, m) = Cardinality(before(m))
  <2> SUFFICES ASSUME NEW m \in S
               PROVE  IsFiniteSet(before(m)) /\ Cardinality(before(m)) \in Nat
                      /\ Cardinality(before(m)) <= Cardinality(S) /\ Rank(S, m) = Cardinality(before(m))
    OBVIOUS
  <2>1. before(m) \in SUBSET S
    OBVIOUS
  <2>2. Rank(S, m) = Cardinality(before(m))
    BY DEF Rank
  <2> HIDE DEF before
  <2>3. QED
    BY <1>1, <2>1, <2>2, FS_Subset, FS_CardinalityType
<1>3. ASSUME NEW m \in S PROVE m \in before(m)
  BY ElementsNest
<1>4. ASSUME NEW m \in S PROVE Rank(S, m) \in 1..Cardinality(S)
  <2>1. before(m) # {}
    BY <1>3
  <2> HIDE DEF before
  <2>2. Cardinality(before(m)) # 0
    BY <1>2, <2>1, FS_EmptySet
  <2>3. QED
    BY <1>1, <1>2, <2>2
<1>5. ASSUME NEW m \in S, NEW n \in S, Open[m] < Open[n] PROVE Rank(S, m) < Rank(S, n)
  <2>1. Open[m] \in Nat /\ Open[n] \in Nat /\ \A x \in S : Open[x] \in Nat
    BY ElementsNest
  <2>2. n \notin before(m) /\ before(m) \cup {n} \in SUBSET before(n)
    BY <1>5, <2>1
  <2> HIDE DEF before
  <2>3. Cardinality(before(m) \cup {n}) = Cardinality(before(m)) + 1
    BY <1>2, <2>2, FS_AddElement
  <2>4. Cardinality(before(m) \cup {n}) <= Cardinality(before(n))
    BY <1>2, <2>2, FS_Subset
  <2>5. QED
    BY <1>2, <2>3, <2>4
<1>6. QED
  BY <1>1, <1>4, <1>5

\* q has the elements of S, each at its rank.
InOrder(S, q) ==
  /\ Len(q) = Cardinality(S) /\ q \in Seq(S)
  /\ \A i \in 1..Cardinality(S) : q[i] \in S /\ Rank(S, q[i]) = i
  /\ \A m \in S : q[Rank(S, m)] = m
LEMMA NestedIs ==
  ASSUME NEW S \in SUBSET Nodes
  PROVE  InOrder(S, Nested(S))
<1> DEFINE k == Cardinality(S)
           rank == [m \in S |-> Rank(S, m)]
<1>1. /\ IsFiniteSet(S) /\ k \in Nat
      /\ \A m \in S : Rank(S, m) \in 1..k
      /\ \A m, n \in S : Open[m] < Open[n] => Rank(S, m) < Rank(S, n)
  BY RankIs
<1> HIDE DEF k
<1>2. ASSUME NEW m \in S, NEW n \in S, Rank(S, m) = Rank(S, n) PROVE m = n
  <2>1. Open[m] \in Nat /\ Open[n] \in Nat /\ Rank(S, m) \in Nat
    BY <1>1, ElementsNest
  <2>2. ~(Open[m] < Open[n]) /\ ~(Open[n] < Open[m])
    BY <1>1, <1>2, <2>1
  <2>3. Open[m] = Open[n]
    BY <2>1, <2>2
  <2>4. QED
    BY <2>3, PositionsDiffer
<1>3. rank \in Injection(S, 1..k)
  BY <1>1, <1>2 DEF Injection, IsInjective
<1>4. IsFiniteSet(1..k) /\ Cardinality(1..k) = k
  BY <1>1, FS_Interval
<1>5. rank \in Surjection(S, 1..k)
  <2> HIDE DEF rank
  <2>1. QED
    BY <1>3, <1>4, FS_Injection DEF k
<1>6. \A i \in 1..k : \E m \in S : Rank(S, m) = i
  BY <1>5 DEF Surjection
<1> DEFINE q == Nested(S)
<1>7. q = [i \in 1..k |-> CHOOSE m \in S : Rank(S, m) = i]
  BY DEF Nested, k
<1>8. \A i \in 1..k : q[i] \in S /\ Rank(S, q[i]) = i
  BY <1>6, <1>7
<1>9. Len(q) = k /\ q \in Seq(S)
  <2>1. q \in [1..k -> S]
    BY <1>7, <1>8
  <2> HIDE DEF q
  <2>2. QED
    BY <1>1, <2>1
<1> HIDE DEF q
<1>10. \A m \in S : q[Rank(S, m)] = m
  BY <1>1, <1>2, <1>8
<1>11. QED
  BY <1>8, <1>9, <1>10 DEF InOrder, k, q

\* An element that opens after all of S comes last.
LEMMA NestedAppend ==
  ASSUME NEW S \in SUBSET Nodes, NEW n \in Nodes, \A m \in S : Open[m] < Open[n]
  PROVE  Nested(S \cup {n}) = Append(Nested(S), n)
<1> DEFINE T == S \cup {n}
           k == Cardinality(S)
           q == Nested(S)
           r == Nested(T)
<1>1. T \in SUBSET Nodes /\ n \notin S /\ n \in T
  BY ElementsNest
<1>2. IsFiniteSet(S) /\ k \in Nat /\ Cardinality(T) = k + 1
  BY <1>1, RankIs, FS_AddElement
<1>3. InOrder(S, q) /\ InOrder(T, r)
  BY <1>1, NestedIs
<1>4. ASSUME NEW m \in S PROVE Rank(T, m) = Rank(S, m)
  <2>1. Open[m] \in Nat /\ Open[n] \in Nat /\ Open[m] < Open[n]
    BY ElementsNest
  <2>2. {x \in T : Open[x] <= Open[m]} = {x \in S : Open[x] <= Open[m]}
    BY <2>1
  <2>3. QED
    BY <2>2 DEF Rank
<1>5. Rank(T, n) = k + 1
  <2>1. {x \in T : Open[x] <= Open[n]} = T
    BY ElementsNest
  <2>2. QED
    BY <1>2, <2>1 DEF Rank
<1> HIDE DEF q, r
<1>6. /\ Len(q) = k /\ q \in Seq(S) /\ Len(r) = k + 1 /\ r \in Seq(T)
      /\ \A i \in 1..k : q[i] \in S /\ Rank(S, q[i]) = i
      /\ \A m \in T : r[Rank(T, m)] = m
  BY <1>2, <1>3 DEF InOrder
<1> HIDE DEF k, T
<1>7. \A i \in 1..k : r[i] = q[i]
  <2> SUFFICES ASSUME NEW i \in 1..k PROVE r[i] = q[i]
    OBVIOUS
  <2>1. q[i] \in S /\ Rank(S, q[i]) = i /\ q[i] \in T
    BY <1>6 DEF T
  <2>2. QED
    BY <1>4, <1>6, <2>1
<1>8. r[k + 1] = n
  BY <1>1, <1>5, <1>6
<1>9. q \in Seq(T) /\ Append(q, n) \in Seq(T) /\ Len(Append(q, n)) = k + 1
      /\ (\A i \in 1..k : Append(q, n)[i] = q[i]) /\ Append(q, n)[k + 1] = n
  <2>1. q \in Seq(T)
    BY <1>6 DEF T
  <2>2. QED
    BY <1>1, <1>2, <1>6, <2>1
<1> DEFINE a == Append(q, n)
<1> HIDE DEF a
<1>10. r = a
  <2>1. a \in Seq(T) /\ Len(a) = k + 1 /\ (\A i \in 1..k : a[i] = q[i]) /\ a[k + 1] = n
    BY <1>9 DEF a
  <2>2. \A i \in 1..(k + 1) : r[i] = a[i]
    BY <1>2, <1>7, <1>8, <2>1
  <2>3. QED
    BY <1>6, <2>1, <2>2, SeqEqual
<1>11. QED
  BY <1>10 DEF T, q, r, a

\* Every position has its place.
LEMMA PlacesAre ==
  ASSUME NEW p \in Places
  PROVE  At(p) \in Positions /\ PlaceAt(At(p)) = p
<1>1. PICK n \in Nodes, w \in {"before", "after"} : p = <<n, w>>
  BY DEF Places
<1>2. At(p) = IF w = "before" THEN Open[n] ELSE Close[n]
  BY <1>1 DEF At
<1>3. At(p) \in Positions
  BY <1>2, DocumentAssumption DEF Positions
<1>4. ASSUME NEW q \in Places, At(q) = At(p) PROVE q = p
  <2>1. PICK m \in Nodes, v \in {"before", "after"} : q = <<m, v>>
    BY DEF Places
  <2>2. At(q) = IF v = "before" THEN Open[m] ELSE Close[m]
    BY <2>1 DEF At
  <2>3. m = n /\ v = w
    BY <1>2, <1>4, <2>2, PositionsDiffer
  <2>4. QED
    BY <1>1, <2>1, <2>3
<1>5. PlaceAt(At(p)) \in Places /\ At(PlaceAt(At(p))) = At(p)
  BY DEF PlaceAt
<1>6. QED
  BY <1>3, <1>4, <1>5

-----------------------------------------------------------------------------
(***************************************************************************)
(* What the walk reads of the document.                                     *)
(***************************************************************************)
\* Its scopes are the elements around a place that reset the counter.
ReadScopes(n, c) == Nested({m \in Nodes : Within(n, m) /\ Resets(m, c) # {}})
IsReadScope(m, q, c) == LET s == ReadScopes(q[1], c) IN s # <<>> /\ m = Last(s)
ReadCounts(m, c) ==
  [i \in Positions |->
     LET q == PlaceAt(i) IN IF Cloned(q[1]) /\ IsReadScope(m, q, c) THEN Increments(q, c) ELSE 0]
ReadValue(m, c, p) == InitialValue(m, c) + Sums(ReadCounts(m, c))[At(p)]
ReadNumbers(p, c) == LET s == ReadScopes(p[1], c) IN [i \in DOMAIN s |-> ReadValue(s[i], c, p)]

\* It passes over a counter that nothing has reset, and shows one without its number
\* when all that have reset it have been left.
Shows(p, t) == t.type \in {"counter", "counters"} => ResetBefore(p, t.name)
ReadPart(p, i) ==
  LET t == TokensOf(p)[i]
      pairs == style[p[1]].quotes \div 2
      pair(depth) == IF depth < pairs THEN 2 * depth ELSE 2 * (pairs - 1)
      values == ReadNumbers(p, t.name)
  IN  CASE t.type = "counter" ->
             IF values = <<>> THEN [type |-> "missing", format |-> t.format]
             ELSE [type |-> "numbers", values |-> <<Last(values)>>, glue |-> <<>>,
                   format |-> t.format]
        [] t.type = "counters" ->
             [type |-> "numbers", values |-> values, glue |-> t.glue, format |-> t.format]
        [] t.type = "open" -> [type |-> "quote", index |-> IF pairs = 0 THEN 0 ELSE pair(DepthBefore(p, i))]
        [] t.type = "close" ->
             [type |-> "quote", index |-> IF pairs = 0 THEN 0 ELSE pair(DepthBefore(p, i) - 1) + 1]
        [] OTHER -> t
ReadShown(p, i) == IF Shows(p, TokensOf(p)[i]) THEN <<ReadPart(p, i)>> ELSE <<>>
ReadContent(p) == Joined([i \in DOMAIN TokensOf(p) |-> ReadShown(p, i)], <<>>)

-----------------------------------------------------------------------------
(***************************************************************************)
(* One token.                                                               *)
(***************************************************************************)
\* A state of the loop over the tokens, and one in which something could not be shown.
Loop(parts, depth, bad) == [parts |-> parts, depth |-> depth, bad |-> bad]
Stays(r) == \E parts, depth : r = Loop(parts, depth, TRUE)

\* Tokens by their kinds.
LEMMA TokenKinds ==
  ASSUME NEW t \in Tokens
  PROVE  t.type \in {"string", "url", "attr", "counter", "counters", "open", "close"}
<1>1. CASE t \in [type : {"string"}, value : Values] \cup [type : {"url"}, value : Values \ {<<>>}]
  BY <1>1
<1>2. CASE t \in [type : {"attr"}, name : Words]
  BY <1>2
<1>3. CASE t \in [type : {"counter"}, name : Words, format : Formats]
  BY <1>3
<1>4. CASE t \in [type : {"counters"}, name : Words, glue : Values, format : Formats]
  BY <1>4
<1>5. CASE t \in [type : {"open", "close"}]
  BY <1>5
<1>6. QED
  BY <1>1, <1>2, <1>3, <1>4, <1>5 DEF Tokens, TokensOver

\* What the loop does with each.
TextRead(P, d, t, cs, names, quotes) ==
  Token(Loop(P, d, FALSE), t, cs, names, quotes) = Loop(Append(P, t), d, FALSE)
LEMMA TextToken ==
  ASSUME NEW P, NEW d, NEW t, NEW cs, NEW names, NEW quotes,
         t.type \in {"string", "url", "attr"}
  PROVE  TextRead(P, d, t, cs, names, quotes)
BY DEF Token, Loop, TextRead

CounterPart(t, values) ==
  [type |-> "numbers", values |-> <<Last(values)>>, glue |-> <<>>, format |-> t.format]
MissingPart(t) == [type |-> "missing", format |-> t.format]
CounterRead(P, d, t, cs, names, quotes) ==
  /\ t.name \notin names => Token(Loop(P, d, FALSE), t, cs, names, quotes) = Loop(P, d, FALSE)
  /\ t.name \in names /\ cs[t.name] = <<>> /\ NeedsDigits(t) =>
       Token(Loop(P, d, FALSE), t, cs, names, quotes) = Loop(P, d, TRUE)
  /\ t.name \in names /\ cs[t.name] = <<>> /\ ~NeedsDigits(t) =>
       Token(Loop(P, d, FALSE), t, cs, names, quotes) = Loop(Append(P, MissingPart(t)), d, FALSE)
  /\ t.name \in names /\ cs[t.name] # <<>> =>
       Token(Loop(P, d, FALSE), t, cs, names, quotes)
         = Loop(Append(P, CounterPart(t, cs[t.name])), d, FALSE)
LEMMA CounterToken ==
  ASSUME NEW P, NEW d, NEW t, NEW cs, NEW names, NEW quotes,
         t.type = "counter"
  PROVE  CounterRead(P, d, t, cs, names, quotes)
<1>1. CASE t.name \notin names
  BY <1>1 DEF Token, Loop, CounterRead
<1>2. CASE t.name \in names /\ cs[t.name] = <<>>
  <2>1. CASE NeedsDigits(t)
    <3>1. Token(Loop(P, d, FALSE), t, cs, names, quotes) = Loop(P, d, TRUE)
      BY <1>2, <2>1 DEF Token, Loop
    <3>2. QED
      BY <1>2, <2>1, <3>1 DEF CounterRead
  <2>2. CASE ~NeedsDigits(t)
    <3>1. Token(Loop(P, d, FALSE), t, cs, names, quotes) = Loop(Append(P, MissingPart(t)), d, FALSE)
      BY <1>2, <2>2 DEF Token, Loop, MissingPart
    <3>2. QED
      BY <1>2, <2>2, <3>1 DEF CounterRead
  <2>3. QED
    BY <2>1, <2>2
<1>3. CASE t.name \in names /\ cs[t.name] # <<>>
  BY <1>3 DEF Token, Loop, CounterRead, CounterPart
<1>4. QED
  BY <1>1, <1>2, <1>3

CountersPart(t, values) ==
  [type |-> "numbers", values |-> values, glue |-> t.glue, format |-> t.format]
CountersRead(P, d, t, cs, names, quotes) ==
  /\ t.name \notin names => Token(Loop(P, d, FALSE), t, cs, names, quotes) = Loop(P, d, FALSE)
  /\ t.name \in names =>
       Token(Loop(P, d, FALSE), t, cs, names, quotes)
         = Loop(Append(P, CountersPart(t, cs[t.name])), d, FALSE)
LEMMA CountersToken ==
  ASSUME NEW P, NEW d, NEW t, NEW cs, NEW names, NEW quotes,
         t.type = "counters"
  PROVE  CountersRead(P, d, t, cs, names, quotes)
<1>1. CASE t.name \notin names
  BY <1>1 DEF Token, Loop, CountersRead
<1>2. CASE t.name \in names
  BY <1>2 DEF Token, Loop, CountersRead, CountersPart
<1>3. QED
  BY <1>1, <1>2

\* The mark that opens and the one that closes.
OpenIndex(quotes, d) == getQuote(quotes, TRUE, d)
CloseIndex(quotes, d) == getQuote(quotes, FALSE, d)
QuotePart(index) == [type |-> "quote", index |-> index]
MarkRead(r, P, d, i, quotes) ==
  /\ i \in 0..(quotes - 1) => r = Loop(Append(P, QuotePart(i)), d, FALSE)
  /\ i \notin 0..(quotes - 1) => r = Loop(Append(P, QuotePart(i)), d, TRUE)
MarksRead(P, d, t, cs, names, quotes) ==
  /\ t.type = "open" => MarkRead(Token(Loop(P, d, FALSE), t, cs, names, quotes),
                                P, d + 1, OpenIndex(quotes, d), quotes)
  /\ t.type = "close" => MarkRead(Token(Loop(P, d, FALSE), t, cs, names, quotes),
                                 P, d - 1, CloseIndex(quotes, d - 1), quotes)
LEMMA MarkToken ==
  ASSUME NEW P, NEW d, NEW t, NEW cs, NEW names, NEW quotes
  PROVE  MarksRead(P, d, t, cs, names, quotes)
<1> DEFINE r == Token(Loop(P, d, FALSE), t, cs, names, quotes)
<1>1. CASE t.type = "open"
  <2> DEFINE i == OpenIndex(quotes, d)
  <2> HIDE DEF i
  <2>1. CASE i \in 0..(quotes - 1)
    BY <1>1, <2>1 DEF Token, Loop, MarksRead, QuotePart, MarkRead, OpenIndex, CloseIndex, i
  <2>2. CASE i \notin 0..(quotes - 1)
    BY <1>1, <2>2 DEF Token, Loop, MarksRead, QuotePart, MarkRead, OpenIndex, CloseIndex, i
  <2>3. QED
    BY <1>1, <2>1, <2>2
<1>2. CASE t.type = "close"
  <2> DEFINE i == CloseIndex(quotes, d - 1)
  <2> HIDE DEF i
  <2>1. CASE i \in 0..(quotes - 1)
    BY <1>2, <2>1 DEF Token, Loop, MarksRead, QuotePart, MarkRead, OpenIndex, CloseIndex, i
  <2>2. CASE i \notin 0..(quotes - 1)
    BY <1>2, <2>2 DEF Token, Loop, MarksRead, QuotePart, MarkRead, OpenIndex, CloseIndex, i
  <2>3. QED
    BY <1>2, <2>1, <2>2
<1>3. QED
  BY <1>1, <1>2 DEF MarksRead

\* Once something could not be shown, the loop only comes to its end.
LEMMA TokenAfterwards ==
  ASSUME NEW P, NEW d, NEW t \in Tokens, NEW cs, NEW names, NEW quotes
  PROVE  Stays(Token(Loop(P, d, TRUE), t, cs, names, quotes))
<1> DEFINE r == Token(Loop(P, d, TRUE), t, cs, names, quotes)
<1>1. CASE t.type \in {"string", "url", "attr"}
  <2>1. r = Loop(Append(P, t), d, TRUE)
    BY <1>1 DEF Token, Loop
  <2>2. QED
    BY <2>1 DEF Stays
<1>2. CASE t.type = "counter"
  <2>1. \/ r = Loop(P, d, TRUE)
        \/ r = Loop(Append(P, CounterPart(t, cs[t.name])), d, TRUE)
        \/ r = Loop(Append(P, MissingPart(t)), d, TRUE)
    <3>1. CASE t.name \notin names
      BY <1>2, <3>1 DEF Token, Loop
    <3>2. CASE t.name \in names /\ cs[t.name] = <<>>
      <4>1. CASE NeedsDigits(t)
        BY <1>2, <3>2, <4>1 DEF Token, Loop
      <4>2. CASE ~NeedsDigits(t)
        BY <1>2, <3>2, <4>2 DEF Token, Loop, MissingPart
      <4>3. QED
        BY <4>1, <4>2
    <3>3. CASE t.name \in names /\ cs[t.name] # <<>>
      BY <1>2, <3>3 DEF Token, Loop, CounterPart
    <3>4. QED
      BY <3>1, <3>2, <3>3
  <2>2. QED
    BY <2>1 DEF Stays
<1>3. CASE t.type = "counters"
  <2>1. \/ r = Loop(P, d, TRUE)
        \/ r = Loop(Append(P, CountersPart(t, cs[t.name])), d, TRUE)
    <3>1. CASE t.name \notin names
      BY <1>3, <3>1 DEF Token, Loop
    <3>2. CASE t.name \in names
      BY <1>3, <3>2 DEF Token, Loop, CountersPart
    <3>3. QED
      BY <3>1, <3>2
  <2>2. QED
    BY <2>1 DEF Stays
<1>4. CASE t.type = "open"
  <2> DEFINE i == OpenIndex(quotes, d)
  <2>1. r = Loop(Append(P, QuotePart(i)), d + 1, TRUE)
    BY <1>4 DEF Token, Loop, QuotePart, OpenIndex, CloseIndex
  <2>2. QED
    BY <2>1 DEF Stays
<1>5. CASE t.type = "close"
  <2> DEFINE i == CloseIndex(quotes, d - 1)
  <2>1. r = Loop(Append(P, QuotePart(i)), d - 1, TRUE)
    BY <1>5 DEF Token, Loop, QuotePart, OpenIndex, CloseIndex
  <2>2. QED
    BY <2>1 DEF Stays
<1>6. QED
  BY <1>1, <1>2, <1>3, <1>4, <1>5, TokenKinds

\* Whether the walk throws at the i-th token of p.
FatalAt(p, i) ==
  LET t == TokensOf(p)[i] IN
    \/ t.type = "counter" /\ HasLeft(p, t.name) /\ NeedsDigits(t)
    \/ t.type = "close" /\ DepthBefore(p, i) <= 0
    \/ t.type = "close" /\ style[p[1]].quotes = 1 /\ DepthBefore(p, i) = 1
    \/ t.type = "open" /\ style[p[1]].quotes = 1 /\ DepthBefore(p, i) # 0

\* The names and counters with which p is shown.
NumbersKnown(p, cs, names) ==
  /\ \A c : c \in names <=> ResetBefore(p, c)
  /\ \A c \in names : cs[c] = ReadNumbers(p, c) /\ (cs[c] = <<>> <=> HasLeft(p, c))

\* The marks of a list of pairs, and of one mark.
PairsRead(quotes, d) ==
  LET pairs == quotes \div 2
      i == IF d < pairs THEN 2 * d ELSE 2 * (pairs - 1)
  IN  /\ pairs # 0
      /\ OpenIndex(quotes, d) = i /\ CloseIndex(quotes, d) = i + 1
      /\ i \in 0..(quotes - 1) /\ i + 1 \in 0..(quotes - 1)
LEMMA MarksOfPairs ==
  ASSUME NEW quotes \in Nat \ {0}, quotes % 2 = 0, NEW d \in Nat
  PROVE  PairsRead(quotes, d)
<1> DEFINE pairs == quotes \div 2
           i == IF d < pairs THEN 2 * d ELSE 2 * (pairs - 1)
<1>1. pairs \in Nat /\ pairs # 0 /\ quotes = 2 * pairs
  OBVIOUS
<1> HIDE DEF pairs
<1>2. i \in 0..(quotes - 1) /\ i + 1 \in 0..(quotes - 1)
  BY <1>1
<1>3. 2 * d >= quotes <=> ~(d < pairs)
  BY <1>1
<1>4. quotes - 2 = 2 * (pairs - 1)
  BY <1>1
<1>5. OpenIndex(quotes, d) = i /\ CloseIndex(quotes, d) = i + 1
  BY <1>3, <1>4 DEF OpenIndex, CloseIndex, getQuote
<1>6. QED
  BY <1>1, <1>2, <1>5 DEF pairs, PairsRead

OneRead(d) ==
  /\ d = 0 => OpenIndex(1, d) = 0 /\ CloseIndex(1, d) = 1
  /\ d # 0 => OpenIndex(1, d) = -1 /\ CloseIndex(1, d) = 0
LEMMA MarksOfOne ==
  ASSUME NEW d \in Nat
  PROVE  OneRead(d)
BY DEF OpenIndex, CloseIndex, getQuote, OneRead

FirstRead(quotes, d) == d = -1 => CloseIndex(quotes, d) = -1
LEMMA MarkBefore ==
  ASSUME NEW quotes \in Nat \ {0}, NEW d
  PROVE  FirstRead(quotes, d)
BY DEF OpenIndex, CloseIndex, getQuote, FirstRead

\* The i-th token of p adds the part that is read, or the walk throws at it.
TokenRead(r, p, i, P, d) ==
  /\ FatalAt(p, i) => Stays(r)
  /\ ~FatalAt(p, i) =>
       /\ r = Loop(P \o ReadShown(p, i), d + Nesting(TokensOf(p)[i]), FALSE)
       /\ d + Nesting(TokensOf(p)[i]) \in Nat

\* Counters, with what is known of them.
LEMMA NumbersShown ==
  ASSUME NEW p, NEW i, NEW S, NEW P \in Seq(S), NEW d \in Nat, NEW cs, NEW names, NEW quotes,
         NumbersKnown(p, cs, names), NEW t, t = TokensOf(p)[i], t.type \in {"counter", "counters"},
         ReadPart(p, i) \in S
  PROVE  TokenRead(Token(Loop(P, d, FALSE), t, cs, names, quotes), p, i, P, d)
<1> DEFINE r == Token(Loop(P, d, FALSE), t, cs, names, quotes)
           e == ReadPart(p, i)
<1>1. Nesting(t) = 0 /\ d + Nesting(t) = d
  BY DEF Nesting
<1>2. Append(P, e) = P \o <<e>> /\ P \o <<>> = P
  BY AppendIsConcat, ConcatEmptySeq
<1>3. Shows(p, t) <=> t.name \in names
  BY DEF Shows, NumbersKnown
<1>4. t.name \in names => cs[t.name] = ReadNumbers(p, t.name)
  BY DEF NumbersKnown
<1>5. /\ ~(t.name \in names) => ReadShown(p, i) = <<>>
      /\ t.name \in names => ReadShown(p, i) = <<e>>
  BY <1>3 DEF ReadShown
<1>6. CASE t.type = "counter"
  <2>1. FatalAt(p, i) <=> t.name \in names /\ cs[t.name] = <<>> /\ NeedsDigits(t)
    <3>1. HasLeft(p, t.name) => t.name \in names
      BY DEF HasLeft, NumbersKnown
    <3>2. t.name \in names => (cs[t.name] = <<>> <=> HasLeft(p, t.name))
      BY DEF NumbersKnown
    <3>3. FatalAt(p, i) <=> HasLeft(p, t.name) /\ NeedsDigits(t)
      BY <1>6 DEF FatalAt
    <3>4. QED
      BY <3>1, <3>2, <3>3
  <2>2. t.name \in names =>
          e = IF cs[t.name] = <<>> THEN MissingPart(t) ELSE CounterPart(t, cs[t.name])
    BY <1>4, <1>6 DEF ReadPart, CounterPart, MissingPart
  <2> HIDE DEF e
  <2>3. CASE t.name \notin names
    <3>1. r = Loop(P, d, FALSE)
      <4>1. CounterRead(P, d, t, cs, names, quotes)
        BY <1>6, CounterToken
      <4>2. QED
        BY <1>6, <2>3, <4>1 DEF CounterRead
    <3>2. ~FatalAt(p, i)
      BY <2>1, <2>3
    <3> HIDE DEF r
    <3>3. QED
      BY <1>1, <1>2, <1>5, <2>3, <3>1, <3>2 DEF TokenRead, r
  <2>4. CASE t.name \in names /\ cs[t.name] = <<>> /\ NeedsDigits(t)
    <3>1. r = Loop(P, d, TRUE)
      <4>1. CounterRead(P, d, t, cs, names, quotes)
        BY <1>6, CounterToken
      <4>2. QED
        BY <1>6, <2>4, <4>1 DEF CounterRead
    <3>2. FatalAt(p, i)
      BY <2>1, <2>4
    <3> HIDE DEF r
    <3>3. QED
      BY <3>1, <3>2 DEF TokenRead, Stays, r
  <2>5. CASE t.name \in names /\ cs[t.name] # <<>>
    <3>1. r = Loop(Append(P, CounterPart(t, cs[t.name])), d, FALSE)
      <4>1. CounterRead(P, d, t, cs, names, quotes)
        BY <1>6, CounterToken
      <4>2. QED
        BY <1>6, <2>5, <4>1 DEF CounterRead
    <3>2. ~FatalAt(p, i)
      BY <2>1, <2>5
    <3> HIDE DEF r
    <3>3. QED
      BY <1>1, <1>2, <1>5, <2>2, <2>5, <3>1, <3>2 DEF TokenRead, r
  <2>6. CASE t.name \in names /\ cs[t.name] = <<>> /\ ~NeedsDigits(t)
    <3>1. r = Loop(Append(P, MissingPart(t)), d, FALSE)
      <4>1. CounterRead(P, d, t, cs, names, quotes)
        BY <1>6, CounterToken
      <4>2. QED
        BY <1>6, <2>6, <4>1 DEF CounterRead
    <3>2. ~FatalAt(p, i)
      BY <2>1, <2>6
    <3> HIDE DEF r
    <3>3. QED
      BY <1>1, <1>2, <1>5, <2>2, <2>6, <3>1, <3>2 DEF TokenRead, r
  <2>7. QED
    BY <2>3, <2>4, <2>5, <2>6
<1>7. CASE t.type = "counters"
  <2>1. ~FatalAt(p, i)
    BY <1>7 DEF FatalAt
  <2>2. t.name \in names => e = CountersPart(t, cs[t.name])
    BY <1>4, <1>7 DEF ReadPart, CountersPart
  <2> HIDE DEF e
  <2>3. CASE t.name \notin names
    <3>1. r = Loop(P, d, FALSE)
      <4>1. CountersRead(P, d, t, cs, names, quotes)
        BY <1>7, CountersToken
      <4>2. QED
        BY <1>7, <2>3, <4>1 DEF CountersRead
    <3> HIDE DEF r
    <3>2. QED
      BY <1>1, <1>2, <1>5, <2>1, <2>3, <3>1 DEF TokenRead, r
  <2>4. CASE t.name \in names
    <3>1. r = Loop(Append(P, CountersPart(t, cs[t.name])), d, FALSE)
      <4>1. CountersRead(P, d, t, cs, names, quotes)
        BY <1>7, CountersToken
      <4>2. QED
        BY <1>7, <2>4, <4>1 DEF CountersRead
    <3> HIDE DEF r
    <3>2. QED
      BY <1>1, <1>2, <1>5, <2>1, <2>2, <2>4, <3>1 DEF TokenRead, r
  <2>5. QED
    BY <2>3, <2>4
<1>8. QED
  BY <1>6, <1>7

\* Strings, urls and attributes.
LEMMA TextShown ==
  ASSUME NEW p, NEW i, NEW S, NEW P \in Seq(S), NEW d \in Nat, NEW cs, NEW names, NEW quotes,
         NEW t, t = TokensOf(p)[i], t.type \in {"string", "url", "attr"}, ReadPart(p, i) \in S
  PROVE  TokenRead(Token(Loop(P, d, FALSE), t, cs, names, quotes), p, i, P, d)
<1> DEFINE r == Token(Loop(P, d, FALSE), t, cs, names, quotes)
<1>1. Nesting(t) = 0 /\ d + Nesting(t) = d
  BY DEF Nesting
<1>2. ReadPart(p, i) = t
  BY DEF ReadPart
<1>3. Append(P, t) = P \o <<t>>
  BY <1>2, AppendIsConcat
<1>4. ReadShown(p, i) = <<t>>
  BY <1>2 DEF ReadShown, Shows
<1>5. ~FatalAt(p, i)
  BY DEF FatalAt
<1>6. r = Loop(Append(P, t), d, FALSE)
  <2>1. TextRead(P, d, t, cs, names, quotes)
    BY TextToken
  <2>2. QED
    BY <2>1 DEF TextRead
<1> HIDE DEF r
<1>7. QED
  BY <1>1, <1>3, <1>4, <1>5, <1>6 DEF TokenRead, r

\* Quotation marks, at the depth before them.
LEMMA MarkShown ==
  ASSUME NEW p, NEW i, NEW S, NEW P \in Seq(S), NEW cs, NEW names, NEW quotes \in Nat \ {0},
         quotes = style[p[1]].quotes, quotes % 2 = 0 \/ quotes = 1,
         NEW d \in Nat, d = DepthBefore(p, i),
         NEW t, t = TokensOf(p)[i], t.type \in {"open", "close"}, ReadPart(p, i) \in S
  PROVE  TokenRead(Token(Loop(P, d, FALSE), t, cs, names, quotes), p, i, P, d)
<1> DEFINE r == Token(Loop(P, d, FALSE), t, cs, names, quotes)
           e == ReadPart(p, i)
           pairs == quotes \div 2
<1>1. Append(P, e) = P \o <<e>>
  BY AppendIsConcat
<1>2. ReadShown(p, i) = <<e>>
  BY DEF ReadShown, Shows
<1>3. CASE t.type = "open"
  <2> DEFINE x == OpenIndex(quotes, d)
  <2>1. MarkRead(r, P, d + 1, x, quotes)
    <3>1. MarksRead(P, d, t, cs, names, quotes)
      BY MarkToken
    <3>2. QED
      BY <1>3, <3>1 DEF MarksRead
  <2>2. d + Nesting(t) = d + 1 /\ d + 1 \in Nat
    BY <1>3 DEF Nesting
  <2>3. FatalAt(p, i) <=> quotes = 1 /\ d # 0
    BY <1>3 DEF FatalAt
  <2>4. e = QuotePart(IF pairs = 0 THEN 0 ELSE IF d < pairs THEN 2 * d ELSE 2 * (pairs - 1))
    BY <1>3 DEF ReadPart, QuotePart
  <2> HIDE DEF r, e
  <2>5. CASE quotes % 2 = 0
    <3>1. /\ pairs # 0 /\ x = IF d < pairs THEN 2 * d ELSE 2 * (pairs - 1)
          /\ x \in 0..(quotes - 1) /\ quotes # 1
      <4>1. PairsRead(quotes, d)
        BY <2>5, MarksOfPairs
      <4>2. QED
        BY <2>5, <4>1 DEF PairsRead
    <3> HIDE DEF x, pairs
    <3>2. e = QuotePart(x)
      BY <2>4, <3>1
    <3>3. r = Loop(Append(P, QuotePart(x)), d + 1, FALSE)
      BY <2>1, <3>1 DEF MarkRead
    <3>4. QED
      BY <1>1, <1>2, <2>2, <2>3, <3>1, <3>2, <3>3 DEF TokenRead, r
  <2>6. CASE quotes = 1
    <3>1. pairs = 0
      BY <2>6
    <3>2. CASE d = 0
      <4>1. x = 0 /\ x \in 0..(quotes - 1)
        <5>1. OneRead(d)
          BY MarksOfOne
        <5>2. QED
          BY <2>6, <3>2, <5>1 DEF OneRead
      <4> HIDE DEF x, pairs
      <4>2. r = Loop(Append(P, QuotePart(0)), d + 1, FALSE)
        BY <2>1, <4>1 DEF MarkRead
      <4>3. QED
        BY <1>1, <1>2, <2>2, <2>3, <2>4, <3>1, <3>2, <4>2 DEF TokenRead, r
    <3>3. CASE d # 0
      <4>1. x = -1 /\ x \notin 0..(quotes - 1)
        <5>1. OneRead(d)
          BY MarksOfOne
        <5>2. QED
          BY <2>6, <3>3, <5>1 DEF OneRead
      <4> HIDE DEF x
      <4>2. r = Loop(Append(P, QuotePart(x)), d + 1, TRUE)
        BY <2>1, <4>1 DEF MarkRead
      <4>3. QED
        BY <2>3, <2>6, <3>3, <4>2 DEF TokenRead, Stays, r
    <3>4. QED
      BY <3>2, <3>3
  <2>7. QED
    BY <2>5, <2>6 DEF r
<1>4. CASE t.type = "close"
  <2> DEFINE x == CloseIndex(quotes, d - 1)
  <2>1. MarkRead(r, P, d - 1, x, quotes)
    <3>1. MarksRead(P, d, t, cs, names, quotes)
      BY MarkToken
    <3>2. QED
      BY <1>4, <3>1 DEF MarksRead
  <2>2. d + Nesting(t) = d - 1
    BY <1>4 DEF Nesting
  <2>3. FatalAt(p, i) <=> d = 0 \/ (quotes = 1 /\ d = 1)
    BY <1>4 DEF FatalAt
  <2>4. e = QuotePart(IF pairs = 0 THEN 0 ELSE (IF d - 1 < pairs THEN 2 * (d - 1) ELSE 2 * (pairs - 1)) + 1)
    BY <1>4 DEF ReadPart, QuotePart
  <2> HIDE DEF r, e
  <2>5. CASE d = 0
    <3>1. x = -1 /\ x \notin 0..(quotes - 1)
      <4>1. d - 1 = -1
        BY <2>5
      <4>2. QED
        <5>1. FirstRead(quotes, d - 1)
          BY MarkBefore
        <5>2. QED
          BY <4>1, <5>1 DEF FirstRead
    <3> HIDE DEF x
    <3>2. r = Loop(Append(P, QuotePart(x)), d - 1, TRUE)
      BY <2>1, <3>1 DEF MarkRead
    <3>3. QED
      BY <2>3, <2>5, <3>2 DEF TokenRead, Stays, r
  <2>6. CASE d # 0 /\ quotes % 2 = 0
    <3> DEFINE c == d - 1
    <3>1. c \in Nat
      BY <2>6
    <3> HIDE DEF c
    <3>2. /\ pairs # 0 /\ CloseIndex(quotes, c) = (IF c < pairs THEN 2 * c ELSE 2 * (pairs - 1)) + 1
          /\ CloseIndex(quotes, c) \in 0..(quotes - 1) /\ quotes # 1
      <4>1. PairsRead(quotes, c)
        BY <2>6, <3>1, MarksOfPairs
      <4>2. QED
        BY <2>6, <3>1, <4>1 DEF PairsRead
    <3> HIDE DEF pairs
    <3>3. e = QuotePart(x) /\ x \in 0..(quotes - 1) /\ quotes # 1
      BY <2>4, <3>2 DEF c
    <3> HIDE DEF x
    <3>4. r = Loop(Append(P, QuotePart(x)), d - 1, FALSE)
      BY <2>1, <3>3 DEF MarkRead
    <3>5. QED
      BY <1>1, <1>2, <2>2, <2>3, <2>6, <3>1, <3>3, <3>4 DEF TokenRead, r, c
  <2>7. CASE d = 1 /\ quotes = 1
    <3>1. x = 1 /\ x \notin 0..(quotes - 1)
      <4>1. d - 1 = 0
        BY <2>7
      <4>2. QED
        <5>1. OneRead(0)
          BY MarksOfOne
        <5>2. QED
          BY <2>7, <4>1, <5>1 DEF OneRead
    <3> HIDE DEF x
    <3>2. r = Loop(Append(P, QuotePart(x)), d - 1, TRUE)
      BY <2>1, <3>1 DEF MarkRead
    <3>3. QED
      BY <2>3, <2>7, <3>2 DEF TokenRead, Stays, r
  <2>8. CASE d \notin {0, 1} /\ quotes = 1
    <3> DEFINE c == d - 1
    <3>1. c \in Nat \ {0}
      BY <2>8
    <3> HIDE DEF c
    <3>2. CloseIndex(quotes, c) = 0 /\ 0 \in 0..(quotes - 1) /\ pairs = 0
      <4>1. OneRead(c)
        BY <3>1, MarksOfOne
      <4>2. QED
        BY <2>8, <3>1, <4>1 DEF OneRead
    <3> HIDE DEF pairs
    <3>3. x = 0
      BY <3>2 DEF c
    <3>4. e = QuotePart(0)
      BY <2>4, <3>2
    <3> HIDE DEF x
    <3>5. r = Loop(Append(P, QuotePart(0)), d - 1, FALSE)
      BY <2>1, <3>2, <3>3 DEF MarkRead
    <3>6. QED
      BY <1>1, <1>2, <2>2, <2>3, <2>8, <3>1, <3>4, <3>5 DEF TokenRead, r, c
  <2>9. QED
    BY <2>5, <2>6, <2>7, <2>8 DEF r
<1>5. QED
  BY <1>3, <1>4

-----------------------------------------------------------------------------
(***************************************************************************)
(* All tokens of a place.                                                   *)
(***************************************************************************)
Showing(g, n, start, tokens, cs, names, quotes) ==
  g = [i \in 0..n |-> IF i = 0 THEN start ELSE Token(g[i - 1], tokens[i], cs, names, quotes)]

\* There are such states.
LEMMA ShowingExists ==
  ASSUME NEW n \in Nat, NEW start, NEW tokens, NEW cs, NEW names, NEW quotes
  PROVE  \E g : Showing(g, n, start, tokens, cs, names, quotes)
<1> DEFINE Good == {m \in 0..n : \E g : Showing(g, m, start, tokens, cs, names, quotes)}
<1>1. 0 \in Good
  <2> DEFINE f == [i \in 0..0 |-> start]
  <2>1. f = [i \in 0..0 |-> IF i = 0 THEN start ELSE Token(f[i - 1], tokens[i], cs, names, quotes)]
    <3>1. \A i \in 0..0 : i = 0
      OBVIOUS
    <3>2. QED
      BY <3>1
  <2>2. Showing(f, 0, start, tokens, cs, names, quotes)
    BY <2>1 DEF Showing
  <2>3. QED
    BY <2>2
<1>2. ASSUME NEW m \in 1..n, m - 1 \in Good PROVE m \in Good
  <2>1. PICK g : Showing(g, m - 1, start, tokens, cs, names, quotes)
    BY <1>2
  <2>2. \A i \in 0..(m - 1) :
          g[i] = IF i = 0 THEN start ELSE Token(g[i - 1], tokens[i], cs, names, quotes)
    BY <2>1 DEF Showing
  <2> DEFINE last == Token(g[m - 1], tokens[m], cs, names, quotes)
             f == [i \in 0..m |-> IF i < m THEN g[i] ELSE last]
  <2> HIDE DEF last
  <2>3. \A i \in 0..(m - 1) : f[i] = g[i]
    OBVIOUS
  <2>4. f[m] = last /\ m \in 0..m
    OBVIOUS
  <2>5. f = [i \in 0..m |-> f[i]]
    OBVIOUS
  <2> HIDE DEF f
  <2>6. ASSUME NEW i \in 0..m
        PROVE  f[i] = IF i = 0 THEN start ELSE Token(f[i - 1], tokens[i], cs, names, quotes)
    <3>1. CASE i = m
      <4>1. f[m - 1] = g[m - 1] /\ m # 0
        BY <2>3
      <4>2. QED
        BY <2>4, <3>1, <4>1 DEF last
    <3>2. CASE i # m
      <4>1. i \in 0..(m - 1) /\ (i # 0 => i - 1 \in 0..(m - 1))
        BY <3>2
      <4>2. f[i] = g[i] /\ (i # 0 => f[i - 1] = g[i - 1])
        BY <2>3, <4>1
      <4>3. g[i] = IF i = 0 THEN start ELSE Token(g[i - 1], tokens[i], cs, names, quotes)
        BY <2>2, <4>1
      <4>4. QED
        BY <4>2, <4>3
    <3>3. QED
      BY <3>1, <3>2
  <2>7. Showing(f, m, start, tokens, cs, names, quotes)
    BY <2>5, <2>6 DEF Showing
  <2>8. QED
    BY <2>7
<1> HIDE DEF Good
<1>3. \A m \in 0..n : m \in Good
  BY <1>1, <1>2, UpTo
<1>4. QED
  BY <1>3 DEF Good

\* What the loop over the tokens of p comes to.
Built(n, which, cs, names) ==
  LET s == style[n][which]
      tokens == parseContent(Content(s.tokens))
      g == CHOOSE f : Showing(f, Len(tokens), Loop(<<>>, quoteDepth, FALSE), tokens,
                              Increment(cs, names, s.incr), names, style[n].quotes)
  IN  g[Len(tokens)]
LEMMA ResolveIs ==
  ASSUME NEW n, NEW which, NEW cs, NEW names, NEW s, s = style[n][which], s.tokens # <<>>
  PROVE  LET b == Built(n, which, cs, names) IN
         resolvePseudoContent(n, which, cs, names)
           = [parts |-> b.parts, depth |-> b.depth, bad |-> b.bad,
              cs |-> Increment(cs, names, s.incr)]
BY DEF resolvePseudoContent, Built, Showing, Loop

\* Without tokens nothing is shown, and nothing is counted.
LEMMA ResolveNothing ==
  ASSUME NEW n, NEW which, NEW cs, NEW names, style[n][which].tokens = <<>>
  PROVE  resolvePseudoContent(n, which, cs, names)
           = [parts |-> <<>>, depth |-> quoteDepth, bad |-> FALSE, cs |-> cs]
BY DEF resolvePseudoContent

\* The tokens of p, taken one by one: g has the states of the loop.
BuiltBy(g, n, which, cs, names, T) ==
  /\ g[0] = Loop(<<>>, quoteDepth, FALSE) /\ g[Len(T)] = Built(n, which, cs, names)
  /\ \A i \in 1..Len(T) :
       g[i] = Token(g[i - 1], T[i], Increment(cs, names, style[n][which].incr), names,
                    style[n].quotes)
LEMMA BuiltSteps ==
  ASSUME NEW n, NEW which, NEW cs, NEW names, NEW T \in Seq(Readable), T = style[n][which].tokens
  PROVE  \E g : BuiltBy(g, n, which, cs, names, T)
<1> DEFINE counted == Increment(cs, names, style[n][which].incr)
           start == Loop(<<>>, quoteDepth, FALSE)
           m == Len(T)
           g == CHOOSE f : Showing(f, m, start, T, counted, names, style[n].quotes)
<1>1. parseContent(Content(T)) = T /\ m \in Nat
  BY ReadableParsed
<1>2. Built(n, which, cs, names) = g[m]
  BY <1>1 DEF Built
<1> HIDE DEF counted, start, m
<1>3. Showing(g, m, start, T, counted, names, style[n].quotes)
  BY <1>1, ShowingExists
<1> HIDE DEF g
<1>4. \A i \in 0..m : g[i] = IF i = 0 THEN start ELSE Token(g[i - 1], T[i], counted, names, style[n].quotes)
  BY <1>3 DEF Showing
<1>5. 0 \in 0..m /\ \A i \in 1..m : i \in 0..m /\ i # 0
  BY <1>1
<1>6. g[0] = start /\ \A i \in 1..m : g[i] = Token(g[i - 1], T[i], counted, names, style[n].quotes)
  BY <1>4, <1>5
<1>7. BuiltBy(g, n, which, cs, names, T)
  BY <1>2, <1>6 DEF start, m, counted, BuiltBy
<1>8. QED
  BY <1>7

\* A token of any kind.
LEMMA TokenShown ==
  ASSUME NEW p, NEW i, NEW S, NEW P \in Seq(S), NEW cs, NEW names, NEW quotes \in Nat \ {0},
         quotes = style[p[1]].quotes, quotes % 2 = 0 \/ quotes = 1,
         NEW d \in Nat, d = DepthBefore(p, i), NumbersKnown(p, cs, names),
         NEW t \in Tokens, t = TokensOf(p)[i], ReadPart(p, i) \in S
  PROVE  TokenRead(Token(Loop(P, d, FALSE), t, cs, names, quotes), p, i, P, d)
<1>1. CASE t.type \in {"string", "url", "attr"}
  BY <1>1, TextShown
<1>2. CASE t.type \in {"counter", "counters"}
  BY <1>2, NumbersShown
<1>3. CASE t.type \in {"open", "close"}
  BY <1>3, MarkShown
<1>4. QED
  BY <1>1, <1>2, <1>3, TokenKinds

\* The marks of p, one after another.
LEMMA MarksAre ==
  ASSUME NEW p, TokensOf(p) \in Seq(Tokens)
  PROVE  /\ Len(TokensOf(p)) \in Nat
         /\ Marks(p)[0] = 0
         /\ \A i \in 1..Len(TokensOf(p)) : Marks(p)[i] = Marks(p)[i - 1] + Nesting(TokensOf(p)[i])
         /\ \A i \in 0..Len(TokensOf(p)) : Marks(p)[i] \in Int
<1> DEFINE T == TokensOf(p)
           f == [i \in DOMAIN T |-> Nesting(T[i])]
<1> HIDE DEF T
<1>1. Len(T) \in Nat /\ DOMAIN T = 1..Len(T)
  BY DEF T
<1>2. \A t : Nesting(t) \in Int
  BY DEF Nesting
<1>3. Len(f) = Len(T) /\ \A i \in 1..Len(f) : f[i] = Nesting(T[i]) /\ f[i] \in Int
  BY <1>1, <1>2
<1>4. Marks(p) = Sums(f)
  BY DEF Marks, T
<1> HIDE DEF f
<1>5. RunningTotals(f, Sums(f))
  BY <1>1, <1>3, SumsAre
<1>6. QED
  BY <1>1, <1>3, <1>4, <1>5 DEF RunningTotals, T

\* p is given its content, unless something at it is fatal.
PlaceRead(r, p) ==
  /\ Fatal(p) => r.bad = TRUE
  /\ ~Fatal(p) =>
       /\ r.bad = FALSE /\ r.parts = ReadContent(p)
       /\ r.depth = quoteDepth + Marks(p)[Len(TokensOf(p))] /\ r.depth \in Nat

\* The loop over all tokens gives the content that is read, by induction over them.
LEMMA BuiltIs ==
  ASSUME TypeInv, NEW n \in Nodes, NEW which \in {"before", "after"}, NEW p, p = <<n, which>>,
         quoteDepth \in Nat, quoteDepth = Sums(AllMarks)[At(p) - 1],
         NEW cs, NEW names,
         NumbersKnown(p, Increment(cs, names, style[n][which].incr), names)
  PROVE  PlaceRead(Built(n, which, cs, names), p)
<1> DEFINE T == style[n][which].tokens
           m == Len(T)
           quotes == style[n].quotes
           counted == Increment(cs, names, style[n][which].incr)
           M == Marks(p)
           texts == [i \in DOMAIN T |-> ReadShown(p, i)]
           S == {ReadPart(p, i) : i \in 1..m}
           none == <<>>
           b == Built(n, which, cs, names)
<1>1. TokensOf(p) = T /\ p[1] = n
  BY DEF TokensOf
<1>2. /\ T \in Seq(Readable) /\ T \in Seq(Tokens)
      /\ quotes \in Nat \ {0} /\ (quotes % 2 = 0 \/ quotes = 1)
  <2>1. style[n] \in Styles[n]
    BY DEF TypeInv
  <2>2. T \in Seq(Readable) /\ quotes \in Nat \ {0} /\ (quotes % 2 = 0 \/ quotes = 1)
    BY <2>1, StylesAssumption
  <2>3. QED
    BY <2>2, ReadableParsed
<1>3. PICK g : /\ g[0] = Loop(<<>>, quoteDepth, FALSE) /\ g[m] = b
               /\ \A i \in 1..m : g[i] = Token(g[i - 1], T[i], counted, names, quotes)
  <2>1. PICK g : BuiltBy(g, n, which, cs, names, T)
    BY <1>2, BuiltSteps
  <2>2. QED
    BY <2>1 DEF BuiltBy
<1> HIDE DEF b, quotes, counted, T
<1>4. m \in Nat /\ DOMAIN T = 1..m /\ \A i \in 1..m : T[i] \in Tokens
  BY <1>2
<1>5. /\ M[0] = 0 /\ \A i \in 1..m : M[i] = M[i - 1] + Nesting(T[i])
      /\ \A i \in 0..m : M[i] \in Int
  BY <1>1, <1>2, MarksAre
<1>6. PICK j : JoinedBy(texts, none, m, S, j)
  <2>1. \A i \in 1..m : texts[i] = ReadShown(p, i)
    BY <1>4
  <2>2. \A i \in 1..m : ReadShown(p, i) \in Seq(S)
    <3> SUFFICES ASSUME NEW i \in 1..m PROVE ReadShown(p, i) \in Seq(S)
      OBVIOUS
    <3>1. ReadPart(p, i) \in S
      OBVIOUS
    <3> DEFINE e == ReadPart(p, i)
    <3> HIDE DEF e, S
    <3>2. <<e>> \in Seq(S) /\ <<>> \in Seq(S)
      BY <3>1 DEF e
    <3>3. QED
      BY <3>2 DEF ReadShown, e
  <2>3. Len(texts) = m /\ none \in Seq(S)
    BY <1>4
  <2> HIDE DEF texts, S, none
  <2>4. QED
    BY <1>4, <2>1, <2>2, <2>3, JoinedSteps
<1>7. /\ j \in [0..m -> Seq(S)] /\ j[0] = <<>>
      /\ \A i \in 1..m : j[i] = j[i - 1] \o ReadShown(p, i)
  <2>1. j \in [0..m -> Seq(S)] /\ j[0] = <<>>
    BY <1>6 DEF JoinedBy
  <2>2. ASSUME NEW i \in 1..m PROVE j[i] = j[i - 1] \o ReadShown(p, i)
    <3>1. j[i - 1] \in Seq(S)
      <4>1. i - 1 \in 0..m
        BY <1>4
      <4> HIDE DEF S, m
      <4>2. QED
        BY <2>1, <4>1
    <3>2. texts[i] = ReadShown(p, i)
      BY <1>4
    <3>3. j[i] = (j[i - 1] \o (IF i = 1 THEN <<>> ELSE none)) \o texts[i]
      BY <1>6 DEF JoinedBy
    <3>4. j[i] = (j[i - 1] \o <<>>) \o texts[i]
      BY <3>3
    <3>5. j[i - 1] \o <<>> = j[i - 1]
      BY <3>1, ConcatEmptySeq
    <3>6. QED
      BY <3>2, <3>4, <3>5
  <2>3. QED
    BY <2>1, <2>2
<1>8. j[m] = ReadContent(p)
  <2>1. ReadContent(p) = Joined(texts, none)
    BY <1>1 DEF ReadContent, ReadShown
  <2>2. QED
    BY <1>6, <2>1 DEF JoinedBy
<1>9. Fatal(p) <=> \E k \in 1..m : FatalAt(p, k)
  BY <1>1, <1>4 DEF Fatal, FatalAt
<1> HIDE DEF M, texts, S, none, m
<1> DEFINE Failed(i) == \E k \in 1..i : FatalAt(p, k)
           Good == {i \in 0..m :
                      /\ Failed(i) => Stays(g[i])
                      /\ ~Failed(i) => /\ g[i] = Loop(j[i], quoteDepth + M[i], FALSE)
                                       /\ quoteDepth + M[i] \in Nat}
<1>10. 0 \in Good
  <2>1. 0 \in 0..m /\ ~Failed(0)
    BY <1>4
  <2>2. quoteDepth + M[0] = quoteDepth
    BY <1>5
  <2>3. g[0] = Loop(j[0], quoteDepth + M[0], FALSE)
    BY <1>3, <1>7, <2>2
  <2> HIDE DEF Failed
  <2>4. QED
    BY <2>1, <2>2, <2>3
<1>11. ASSUME NEW i \in 1..m, i - 1 \in Good PROVE i \in Good
  <2> DEFINE d == quoteDepth + M[i - 1]
  <2>1. i \in 0..m /\ i - 1 \in 0..m /\ T[i] \in Tokens /\ TokensOf(p)[i] = T[i]
        /\ g[i] = Token(g[i - 1], T[i], counted, names, quotes)
        /\ (Failed(i) <=> Failed(i - 1) \/ FatalAt(p, i))
    <3>1. \A k : k \in 1..i <=> k \in 1..(i - 1) \/ k = i
      BY <1>4
    <3>2. QED
      BY <1>1, <1>3, <1>4, <3>1
  <2>2. /\ Failed(i - 1) => Stays(g[i - 1])
        /\ ~Failed(i - 1) => g[i - 1] = Loop(j[i - 1], d, FALSE) /\ d \in Nat
    BY <1>11
  <2>3. CASE Failed(i - 1)
    <3>1. PICK P, e : g[i - 1] = Loop(P, e, TRUE)
      BY <2>2, <2>3 DEF Stays
    <3>2. Stays(g[i])
      BY <2>1, <3>1, TokenAfterwards
    <3>3. QED
      BY <2>1, <2>3, <3>2
  <2>4. CASE ~Failed(i - 1)
    <3>1. d \in Nat /\ g[i - 1] = Loop(j[i - 1], d, FALSE)
      BY <2>2, <2>4
    <3>2. d = DepthBefore(p, i)
      BY DEF DepthBefore, M
    <3>3. ReadPart(p, i) \in S /\ j[i - 1] \in Seq(S)
      BY <1>7, <2>1 DEF S
    <3> HIDE DEF d, Failed
    <3>4. NumbersKnown(p, counted, names) /\ quotes = style[p[1]].quotes
      BY <1>1 DEF counted, quotes
    <3>5. TokenRead(Token(Loop(j[i - 1], d, FALSE), T[i], counted, names, quotes), p, i, j[i - 1], d)
      BY <1>2, <2>1, <3>1, <3>2, <3>3, <3>4, TokenShown
    <3>6. TokenRead(g[i], p, i, j[i - 1], d)
      BY <2>1, <3>1, <3>5
    <3>7. /\ FatalAt(p, i) => Stays(g[i])
          /\ ~FatalAt(p, i) =>
               /\ g[i] = Loop(j[i - 1] \o ReadShown(p, i), d + Nesting(T[i]), FALSE)
               /\ d + Nesting(T[i]) \in Nat
      BY <2>1, <3>6 DEF TokenRead
    <3>8. d + Nesting(T[i]) = quoteDepth + M[i]
      <4>1. Nesting(T[i]) \in Int
        BY DEF Nesting
      <4>2. QED
        BY <1>5, <2>1, <4>1 DEF d
    <3>9. j[i] = j[i - 1] \o ReadShown(p, i)
      BY <1>7
    <3>10. QED
      BY <2>1, <2>4, <3>7, <3>8, <3>9
  <2>5. QED
    BY <2>3, <2>4
<1> HIDE DEF Good
<1>12. m \in Good
  <2>1. \A i \in 0..m : i \in Good
    BY <1>4, <1>10, <1>11, UpTo
  <2>2. QED
    BY <1>4, <2>1
<1>13. /\ Fatal(p) => Stays(b)
       /\ ~Fatal(p) => /\ b = Loop(ReadContent(p), quoteDepth + M[m], FALSE)
                            /\ quoteDepth + M[m] \in Nat
  BY <1>3, <1>8, <1>9, <1>12 DEF Good
<1>14. Fatal(p) => b.bad = TRUE
  BY <1>13 DEF Stays, Loop
<1>15. ~Fatal(p) => b.bad = FALSE /\ b.parts = ReadContent(p) /\ b.depth = quoteDepth + M[m]
  BY <1>13 DEF Loop
<1>16. QED
  BY <1>1, <1>13, <1>14, <1>15 DEF PlaceRead, b, M, m

\* So does resolvePseudoContent.
LEMMA PlaceShown ==
  ASSUME TypeInv, NEW n \in Nodes, NEW which \in {"before", "after"}, NEW p, p = <<n, which>>,
         quoteDepth \in Nat, quoteDepth = Sums(AllMarks)[At(p) - 1],
         NEW cs, NEW names,
         NumbersKnown(p, resolvePseudoContent(n, which, cs, names).cs, names)
  PROVE  PlaceRead(resolvePseudoContent(n, which, cs, names), p)
<1> DEFINE r == resolvePseudoContent(n, which, cs, names)
           T == style[n][which].tokens
<1>1. TokensOf(p) = T
  BY DEF TokensOf
<1>2. CASE T = <<>>
  <2>1. r = [parts |-> <<>>, depth |-> quoteDepth, bad |-> FALSE, cs |-> cs]
    BY <1>2, ResolveNothing
  <2>2. r.parts = <<>> /\ r.depth = quoteDepth /\ r.bad = FALSE
    BY <2>1
  <2> HIDE DEF r
  <2>3. Len(T) = 0 /\ DOMAIN T = {} /\ T \in Seq(Tokens)
    BY <1>2
  <2>4. ~Fatal(p)
    BY <1>1, <2>3 DEF Fatal
  <2> DEFINE texts == [i \in DOMAIN T |-> ReadShown(p, i)]
             S == {}
             none == <<>>
             zero == 0
  <2>5. PICK j : JoinedBy(texts, none, zero, S, j)
    <3>1. /\ zero \in Nat /\ Len(texts) = zero /\ none \in Seq(S)
          /\ \A i \in 1..zero : texts[i] \in Seq(S)
      BY <2>3
    <3> HIDE DEF texts, S, none, zero
    <3>2. QED
      BY <3>1, JoinedSteps
  <2>6. ReadContent(p) = Joined(texts, <<>>)
    BY <1>1 DEF ReadContent, ReadShown
  <2>7. ReadContent(p) = <<>>
    BY <2>5, <2>6 DEF JoinedBy
  <2>8. Marks(p)[Len(T)] = 0
    BY <1>1, <2>3, MarksAre
  <2>9. QED
    BY <1>1, <2>2, <2>4, <2>7, <2>8 DEF PlaceRead, r
<1>3. CASE T # <<>>
  <2> DEFINE b == Built(n, which, cs, names)
  <2>1. r = [parts |-> b.parts, depth |-> b.depth, bad |-> b.bad,
             cs |-> Increment(cs, names, style[n][which].incr)]
    BY <1>3, ResolveIs
  <2>2. r.parts = b.parts /\ r.depth = b.depth /\ r.bad = b.bad
        /\ r.cs = Increment(cs, names, style[n][which].incr)
    <3> HIDE DEF b
    <3>1. QED
      BY <2>1
  <2> HIDE DEF b
  <2>3. PlaceRead(b, p)
    BY <2>2, BuiltIs DEF b
  <2>4. QED
    BY <2>2, <2>3 DEF PlaceRead
<1>4. QED
  BY <1>2, <1>3

-----------------------------------------------------------------------------
(***************************************************************************)
(* What the walk reads and counts.                                          *)
(***************************************************************************)
\* The elements around n, itself included, that reset c.
ScopeSet(n, c) == {m \in Nodes : Within(n, m) /\ Resets(m, c) # {}}
\* The values of the elements of S after the first k positions.
ValuesOf(S, c, k) ==
  LET s == Nested(S) IN [i \in DOMAIN s |-> InitialValue(s[i], c) + Sums(ReadCounts(s[i], c))[k]]
\* How many positions there are.
PositionCount == 2 * Cardinality(Nodes)
LEMMA PositionsAre ==
  /\ PositionCount \in Nat /\ Positions = 1..PositionCount /\ End = PositionCount + 1
  /\ \A i \in Positions : PlaceAt(i) \in Places /\ At(PlaceAt(i)) = i
<1>1. Cardinality(Nodes) \in Nat
  BY DocumentAssumption, FS_CardinalityType
<1>2. PositionCount \in Nat /\ Positions = 1..PositionCount /\ End = PositionCount + 1
  BY <1>1 DEF PositionCount, Positions, End
<1>3. ASSUME NEW i \in Positions PROVE \E p \in Places : At(p) = i
  <2>1. PICK n \in Nodes : i = Open[n] \/ i = Close[n]
    BY DocumentAssumption DEF Positions
  <2>2. <<n, "before">> \in Places /\ <<n, "after">> \in Places
    BY DEF Places
  <2>3. At(<<n, "before">>) = Open[n] /\ At(<<n, "after">>) = Close[n]
    BY DEF At
  <2>4. QED
    BY <2>1, <2>2, <2>3
<1>4. ASSUME NEW i \in Positions PROVE PlaceAt(i) \in Places /\ At(PlaceAt(i)) = i
  BY <1>3 DEF PlaceAt
<1>5. QED
  BY <1>2, <1>4

\* The place of an element lies within it.
LEMMA PlaceWithin ==
  ASSUME NEW q \in Places
  PROVE  /\ q[1] \in Nodes /\ q[2] \in {"before", "after"} /\ q = <<q[1], q[2]>>
         /\ At(q) \in Nat /\ Open[q[1]] <= At(q) /\ At(q) <= Close[q[1]]
<1>1. PICK n \in Nodes, w \in {"before", "after"} : q = <<n, w>>
  BY DEF Places
<1>2. Open[n] \in Nat /\ Close[n] \in Nat /\ Open[n] < Close[n]
  BY ElementsNest
<1>3. At(q) = IF w = "before" THEN Open[n] ELSE Close[n]
  BY <1>1 DEF At
<1>4. QED
  BY <1>1, <1>2, <1>3

\* A scope of a place is one of the elements around it.
LEMMA ScopesAre ==
  ASSUME NEW n, NEW c
  PROVE  /\ ScopeSet(n, c) \in SUBSET Nodes /\ ReadScopes(n, c) = Nested(ScopeSet(n, c))
         /\ InOrder(ScopeSet(n, c), ReadScopes(n, c))
<1>1. ScopeSet(n, c) \in SUBSET Nodes /\ ReadScopes(n, c) = Nested(ScopeSet(n, c))
  BY DEF ScopeSet, ReadScopes
<1>2. QED
  BY <1>1, NestedIs

\* The innermost scope is one of them.
LEMMA ScopeAround ==
  ASSUME NEW m, NEW q, NEW c, IsReadScope(m, q, c)
  PROVE  m \in ScopeSet(q[1], c)
<1> DEFINE S == ScopeSet(q[1], c)
           s == ReadScopes(q[1], c)
<1>1. S \in SUBSET Nodes /\ InOrder(S, s)
  BY ScopesAre
<1>2. s # <<>> /\ m = Last(s)
  BY DEF IsReadScope
<1> HIDE DEF S, s
<1>3. s \in Seq(S) /\ m = s[Len(s)]
  BY <1>1, <1>2 DEF InOrder, Last
<1>4. QED
  BY <1>2, <1>3 DEF S

\* What all places add to m.
LEMMA CountsAre ==
  ASSUME TypeInv, NEW m, NEW c
  PROVE  /\ Len(ReadCounts(m, c)) = PositionCount
         /\ RunningTotals(ReadCounts(m, c), Sums(ReadCounts(m, c)))
<1> DEFINE f == ReadCounts(m, c)
           at(i) == LET q == PlaceAt(i)
                    IN  IF Cloned(q[1]) /\ IsReadScope(m, q, c) THEN Increments(q, c) ELSE 0
<1>1. PositionCount \in Nat /\ Positions = 1..PositionCount /\ \A i \in Positions : PlaceAt(i) \in Places
  BY PositionsAre
<1>2. f = [i \in Positions |-> at(i)]
  BY DEF ReadCounts
<1>3. ASSUME NEW q \in Places PROVE Increments(q, c) \in Int
  <2> DEFINE i == style[q[1]][q[2]].incr
  <2>1. q[1] \in Nodes /\ q[2] \in {"before", "after"}
    BY PlaceWithin
  <2>2. style[q[1]] \in Styles[q[1]]
    BY <2>1 DEF TypeInv
  <2>3. i \in {style[q[1]].before.incr, style[q[1]].after.incr}
    BY <2>1
  <2>4. i # <<>> => i[2] \in Int
    BY <2>1, <2>2, <2>3, StylesAssumption
  <2>5. QED
    BY <2>4 DEF Increments
<1>4. \A i \in Positions : at(i) \in Int
  BY <1>1, <1>3
<1> HIDE DEF at
<1>5. Len(f) = PositionCount /\ \A i \in 1..Len(f) : f[i] \in Int
  BY <1>1, <1>2, <1>4
<1> HIDE DEF f
<1>6. Len(f) \in Nat
  BY <1>1, <1>5
<1>7. RunningTotals(f, Sums(f))
  BY <1>5, <1>6, SumsAre
<1>8. QED
  BY <1>5, <1>7 DEF f

\* What a place adds to the count of m.
LEMMA CountsAt ==
  ASSUME NEW m, NEW c, NEW q \in Places
  PROVE  ReadCounts(m, c)[At(q)] = IF Cloned(q[1]) /\ IsReadScope(m, q, c) THEN Increments(q, c) ELSE 0
<1>1. At(q) \in Positions /\ PlaceAt(At(q)) = q
  BY PlacesAre
<1>2. QED
  BY <1>1 DEF ReadCounts

\* Nothing is added before an element opens.
LEMMA NothingBefore ==
  ASSUME TypeInv, NEW n \in Nodes, NEW c
  PROVE  Sums(ReadCounts(n, c))[Open[n] - 1] = 0
<1> DEFINE f == ReadCounts(n, c)
           s == Sums(f)
           b == Open[n] - 1
<1>1. PositionCount \in Nat /\ Positions = 1..PositionCount /\ Open[n] \in Positions
  BY PositionsAre, DocumentAssumption DEF Positions
<1>2. b \in Nat /\ b <= PositionCount /\ Open[n] \in Nat
  BY <1>1
<1>3. Len(f) = PositionCount /\ RunningTotals(f, s)
  BY CountsAre
<1>4. ASSUME NEW i \in 1..b PROVE f[i] = 0
  <2>1. i \in Positions /\ i < Open[n]
    BY <1>1
  <2>2. PICK q \in Places : At(q) = i
    BY <2>1, PositionsAre
  <2>3. f[i] = IF Cloned(q[1]) /\ IsReadScope(n, q, c) THEN Increments(q, c) ELSE 0
    BY <2>2, CountsAt
  <2>4. ASSUME IsReadScope(n, q, c) PROVE FALSE
    <3>1. n \in ScopeSet(q[1], c)
      BY <2>4, ScopeAround
    <3>2. Open[n] <= Open[q[1]]
      BY <3>1 DEF ScopeSet, Within
    <3>3. Open[q[1]] \in Nat /\ Open[q[1]] <= At(q) /\ At(q) \in Nat
      BY PlaceWithin, ElementsNest
    <3>4. QED
      BY <1>2, <2>1, <2>2, <3>2, <3>3
  <2>5. QED
    BY <2>3, <2>4
<1> HIDE DEF f, s, b
<1> DEFINE a == 0
<1>5. a \in Nat /\ a <= b /\ b <= Len(f) /\ Len(f) \in Nat /\ \A i \in (a + 1)..b : f[i] = 0
  BY <1>1, <1>2, <1>3, <1>4
<1>6. s[a] = 0
  BY <1>3 DEF RunningTotals
<1> HIDE DEF a
<1>7. s[b] = s[a]
  BY <1>2, <1>3, <1>5, SumsStay
<1>8. QED
  BY <1>6, <1>7 DEF s, b, f

\* One value more for an element that opens after all of S.
OneMore(S, n, c, k) ==
  ValuesOf(S \cup {n}, c, k)
    = Append(ValuesOf(S, c, k), InitialValue(n, c) + Sums(ReadCounts(n, c))[k])
LEMMA ValuesAppend ==
  ASSUME NEW S \in SUBSET Nodes, NEW n \in Nodes, \A m \in S : Open[m] < Open[n],
         NEW c, NEW k
  PROVE  OneMore(S, n, c, k)
<1> DEFINE v(m) == InitialValue(m, c) + Sums(ReadCounts(m, c))[k]
           s == Nested(S)
           V == {v(m) : m \in S \cup {n}}
<1>1. Nested(S \cup {n}) = Append(s, n)
  BY NestedAppend
<1>2. s \in Seq(S)
  <2>1. InOrder(S, s)
    BY NestedIs
  <2>2. QED
    BY <2>1 DEF InOrder
<1>3. /\ ValuesOf(S, c, k) = [i \in DOMAIN s |-> v(s[i])]
      /\ ValuesOf(S \cup {n}, c, k) = [i \in DOMAIN Append(s, n) |-> v(Append(s, n)[i])]
  BY <1>1 DEF ValuesOf
<1>4. \A m \in S \cup {n} : v(m) \in V
  OBVIOUS
<1>5. v(n) = InitialValue(n, c) + Sums(ReadCounts(n, c))[k]
  OBVIOUS
<1> HIDE DEF v, s, V
<1> DEFINE x == [i \in DOMAIN s |-> v(s[i])]
           y == [i \in DOMAIN Append(s, n) |-> v(Append(s, n)[i])]
<1>6. /\ Len(s) \in Nat /\ DOMAIN s = 1..Len(s) /\ DOMAIN Append(s, n) = 1..(Len(s) + 1)
      /\ \A i \in 1..Len(s) : s[i] \in S /\ Append(s, n)[i] = s[i]
      /\ Append(s, n)[Len(s) + 1] = n
  BY <1>2
<1>7. x \in Seq(V) /\ Len(x) = Len(s) /\ \A i \in 1..Len(s) : x[i] = v(s[i])
  <2>1. \A i \in 1..Len(s) : v(s[i]) \in V
    BY <1>4, <1>6
  <2>2. QED
    BY <1>6, <2>1
<1>8. \A i \in 1..(Len(s) + 1) : y[i] = IF i = Len(s) + 1 THEN v(n) ELSE v(s[i])
  BY <1>6
<1>9. y \in Seq(V) /\ Len(y) = Len(s) + 1
  <2>1. \A i \in 1..(Len(s) + 1) : v(Append(s, n)[i]) \in V
    BY <1>4, <1>6
  <2>2. QED
    BY <1>6, <2>1
<1> HIDE DEF x, y
<1>10. y = Append(x, v(n))
  <2> DEFINE z == Append(x, v(n))
  <2>1. v(n) \in V
    BY <1>4
  <2>2. z \in Seq(V) /\ Len(z) = Len(s) + 1
        /\ \A i \in 1..(Len(s) + 1) : z[i] = IF i = Len(s) + 1 THEN v(n) ELSE v(s[i])
    BY <1>6, <1>7, <2>1
  <2> HIDE DEF z
  <2>3. \A i \in 1..Len(y) : y[i] = z[i]
    BY <1>8, <1>9, <2>2
  <2>4. y = z
    BY <1>9, <2>2, <2>3, SeqEqual
  <2>5. QED
    BY <2>4 DEF z
<1>11. QED
  BY <1>3, <1>5, <1>10 DEF x, y, OneMore

\* w is v with x added to its innermost value.
AddedLast(v, w, x) ==
  /\ v \in Seq(Int) /\ w \in Seq(Int) /\ Len(w) = Len(v) /\ x \in Int
  /\ \A i \in 1..Len(v) : w[i] = v[i] + (IF i = Len(v) THEN x ELSE 0)

\* Increments are integers.
LEMMA IncrementsAre ==
  ASSUME TypeInv, NEW q \in Places, NEW c
  PROVE  Increments(q, c) \in Int
<1> DEFINE i == style[q[1]][q[2]].incr
<1>1. q[1] \in Nodes /\ q[2] \in {"before", "after"}
  BY PlaceWithin
<1>2. style[q[1]] \in Styles[q[1]]
  BY <1>1 DEF TypeInv
<1>3. i \in {style[q[1]].before.incr, style[q[1]].after.incr}
  BY <1>1
<1>4. i # <<>> => i[2] \in Int
  BY <1>1, <1>2, <1>3, StylesAssumption
<1>5. QED
  BY <1>4 DEF Increments

\* A place changes the innermost value of a counter, and no other.
LEMMA CountStep ==
  ASSUME TypeInv, NEW q \in Places, Cloned(q[1]), NEW c \in Names, NEW S, S = ScopeSet(q[1], c)
  PROVE  AddedLast(ValuesOf(S, c, At(q) - 1), ValuesOf(S, c, At(q)), Increments(q, c))
<1> DEFINE s == ReadScopes(q[1], c)
           k == At(q)
           x == Increments(q, c)
           total(m, i) == InitialValue(m, c) + Sums(ReadCounts(m, c))[i]
           v == ValuesOf(S, c, k - 1)
           w == ValuesOf(S, c, k)
<1>1. S \in SUBSET Nodes /\ s = Nested(S) /\ InOrder(S, s)
  BY ScopesAre
<1>2. k \in 1..PositionCount /\ PositionCount \in Nat
  BY PlacesAre, PositionsAre
<1>3. x \in Int
  BY IncrementsAre
<1>4. ASSUME NEW m \in S
      PROVE  /\ total(m, k - 1) \in Int /\ total(m, k) \in Int
             /\ total(m, k) = total(m, k - 1) + (IF IsReadScope(m, q, c) THEN x ELSE 0)
  <2> DEFINE f == ReadCounts(m, c)
             t == Sums(f)
  <2>1. Len(f) = PositionCount /\ RunningTotals(f, t)
    BY CountsAre
  <2>2. f[k] = IF IsReadScope(m, q, c) THEN x ELSE 0
    BY CountsAt
  <2>3. InitialValue(m, c) \in Int
    BY <1>1, ResetsAreIntegers DEF ScopeSet
  <2> HIDE DEF f, x, k
  <2>4. t[k - 1] \in Int /\ t[k] \in Int /\ t[k] = t[k - 1] + f[k]
    BY <1>2, <2>1 DEF RunningTotals
  <2> HIDE DEF t
  <2>5. total(m, k - 1) = InitialValue(m, c) + t[k - 1] /\ total(m, k) = InitialValue(m, c) + t[k]
    BY DEF t, f
  <2> HIDE DEF total
  <2>6. QED
    BY <1>3, <2>2, <2>3, <2>4, <2>5
<1>5. v = [i \in DOMAIN s |-> total(s[i], k - 1)] /\ w = [i \in DOMAIN s |-> total(s[i], k)]
  BY <1>1 DEF ValuesOf
<1>6. /\ s \in Seq(S) /\ Len(s) \in Nat /\ DOMAIN s = 1..Len(s)
      /\ \A i \in 1..Len(s) : s[i] \in S /\ Rank(S, s[i]) = i
  BY <1>1 DEF InOrder
<1>7. ASSUME NEW i \in 1..Len(s) PROVE IsReadScope(s[i], q, c) <=> i = Len(s)
  <2> HIDE DEF s
  <2>1. s # <<>> /\ Last(s) = s[Len(s)] /\ Len(s) \in 1..Len(s)
    BY <1>6 DEF Last
  <2>2. IsReadScope(s[i], q, c) <=> s[i] = s[Len(s)]
    BY <2>1 DEF IsReadScope, s
  <2>3. s[i] = s[Len(s)] => i = Len(s)
    BY <1>6, <2>1
  <2>4. QED
    BY <2>2, <2>3
<1> HIDE DEF total, s, x, k
<1>8. v \in Seq(Int) /\ w \in Seq(Int) /\ Len(v) = Len(s) /\ Len(w) = Len(s)
  <2>1. \A i \in 1..Len(s) : total(s[i], k - 1) \in Int /\ total(s[i], k) \in Int
    BY <1>4, <1>6
  <2>2. v \in [1..Len(s) -> Int] /\ w \in [1..Len(s) -> Int]
    BY <1>5, <1>6, <2>1
  <2> HIDE DEF v, w
  <2>3. QED
    BY <1>6, <2>2
<1>9. \A i \in 1..Len(s) : w[i] = v[i] + (IF i = Len(s) THEN x ELSE 0)
  <2> SUFFICES ASSUME NEW i \in 1..Len(s) PROVE w[i] = v[i] + (IF i = Len(s) THEN x ELSE 0)
    OBVIOUS
  <2>1. v[i] = total(s[i], k - 1) /\ w[i] = total(s[i], k)
    BY <1>5, <1>6
  <2>2. total(s[i], k) = total(s[i], k - 1) + (IF IsReadScope(s[i], q, c) THEN x ELSE 0)
    BY <1>4, <1>6
  <2>3. QED
    BY <1>7, <2>1, <2>2
<1> HIDE DEF v, w
<1>10. QED
  BY <1>3, <1>8, <1>9 DEF AddedLast, v, w, k, x

\* A counter-increment does the same to the counters.
Incremented(cs, names, i, c, w) == Increment(cs, names, i)[c] = w
LEMMA IncrementIs ==
  ASSUME NEW cs \in [Names -> Seq(Int)], NEW names, NEW i, NEW c \in Names, NEW w, NEW x,
         AddedLast(cs[c], w, x), x = IF i # <<>> /\ i[1] = c THEN i[2] ELSE 0,
         cs[c] = <<>> \/ c \in names
  PROVE  Incremented(cs, names, i, c, w)
<1> DEFINE v == cs[c]
<1>1. /\ v \in Seq(Int) /\ w \in Seq(Int) /\ Len(w) = Len(v) /\ x \in Int
      /\ \A j \in 1..Len(v) : w[j] = v[j] + (IF j = Len(v) THEN x ELSE 0)
  BY DEF AddedLast
<1>2. CASE i # <<>> /\ i[1] = c /\ v # <<>>
  <2> DEFINE u == [v EXCEPT ![Len(v)] = @ + x]
  <2>1. Increment(cs, names, i) = [cs EXCEPT ![c] = u]
    BY <1>2 DEF Increment
  <2>2. Increment(cs, names, i)[c] = u
    BY <2>1
  <2> HIDE DEF v
  <2>3. u \in Seq(Int) /\ Len(u) = Len(v)
        /\ \A j \in 1..Len(v) : u[j] = v[j] + (IF j = Len(v) THEN x ELSE 0)
    <3>1. Len(v) \in 1..Len(v) /\ v[Len(v)] + x \in Int
      BY <1>1, <1>2
    <3>2. u \in Seq(Int) /\ Len(u) = Len(v)
      BY <1>1, <3>1
    <3>3. \A j \in 1..Len(v) : u[j] = IF j = Len(v) THEN v[j] + x ELSE v[j]
      BY <1>1
    <3>4. \A j \in 1..Len(v) : v[j] \in Int
      BY <1>1
    <3> HIDE DEF u
    <3>5. QED
      BY <3>2, <3>3, <3>4
  <2> HIDE DEF u
  <2>4. u = w
    BY <1>1, <2>3, SeqEqual
  <2>5. QED
    BY <2>2, <2>4 DEF Incremented
<1>3. CASE ~(i # <<>> /\ i[1] = c /\ v # <<>>)
  <2>1. Increment(cs, names, i)[c] = v
    BY <1>3 DEF Increment
  <2> HIDE DEF v
  <2>2. \A j \in 1..Len(v) : w[j] = v[j]
    <3>1. CASE v = <<>>
      BY <3>1
    <3>2. CASE v # <<>>
      BY <1>1, <1>3, <3>2
    <3>3. QED
      BY <3>1, <3>2
  <2>3. v = w
    BY <1>1, <2>2, SeqEqual
  <2>4. QED
    BY <2>1, <2>3 DEF Incremented
<1>4. QED
  BY <1>2, <1>3

\* What cloneNode counts at a place is what is read there.
LEMMA ResolveCounts ==
  ASSUME TypeInv, NEW q \in Places, Cloned(q[1]), NEW cs \in [Names -> Seq(Int)], NEW names,
         NEW c \in Names, cs[c] = ValuesOf(ScopeSet(q[1], c), c, At(q) - 1),
         cs[c] = <<>> \/ c \in names
  PROVE  resolvePseudoContent(q[1], q[2], cs, names).cs[c] = ValuesOf(ScopeSet(q[1], c), c, At(q))
<1> DEFINE n == q[1]
           T == style[q[1]][q[2]].tokens
           i == style[q[1]][q[2]].incr
           w == ValuesOf(ScopeSet(q[1], c), c, At(q))
           x == Increments(q, c)
           r == resolvePseudoContent(q[1], q[2], cs, names)
<1>1. AddedLast(cs[c], w, x)
  BY CountStep
<1>2. x = IF T # <<>> /\ i # <<>> /\ i[1] = c THEN i[2] ELSE 0
  BY DEF Increments, TokensOf
<1>3. CASE T = <<>>
  <2>1. r.cs = cs
    BY <1>3 DEF resolvePseudoContent
  <2> DEFINE v == cs[c]
  <2> HIDE DEF r, w, x, v
  <2>2. v \in Seq(Int) /\ w \in Seq(Int) /\ Len(w) = Len(v) /\ \A j \in 1..Len(v) : w[j] = v[j]
    BY <1>1, <1>2, <1>3 DEF AddedLast, v
  <2>3. v = w
    BY <2>2, SeqEqual
  <2>4. QED
    BY <2>1, <2>3 DEF r, w, v
<1>4. CASE T # <<>>
  <2>1. r.cs = Increment(cs, names, i)
    BY <1>4 DEF resolvePseudoContent
  <2>2. x = IF i # <<>> /\ i[1] = c THEN i[2] ELSE 0
    BY <1>2, <1>4
  <2> HIDE DEF r, w, x, i
  <2>3. Incremented(cs, names, i, c, w)
    BY <1>1, <2>2, IncrementIs
  <2>4. QED
    BY <2>1, <2>3 DEF r, w, Incremented
<1>5. QED
  BY <1>3, <1>4

\* So the numbers are those that are read.
LEMMA NumbersAre ==
  ASSUME NEW q, NEW c
  PROVE  /\ ReadNumbers(q, c) = ValuesOf(ScopeSet(q[1], c), c, At(q))
         /\ ReadNumbers(q, c) = <<>> <=> ReadScopes(q[1], c) = <<>>
<1> DEFINE S == ScopeSet(q[1], c)
           s == ReadScopes(q[1], c)
<1>1. s = Nested(S) /\ InOrder(S, s)
  BY ScopesAre
<1>2. ReadNumbers(q, c) = ValuesOf(S, c, At(q))
  BY <1>1 DEF ReadNumbers, ReadValue, ValuesOf
<1>3. s \in Seq(S)
  BY <1>1 DEF InOrder
<1> DEFINE v(m) == ReadValue(m, c, q)
<1>4. ReadNumbers(q, c) = [i \in DOMAIN s |-> v(s[i])]
  BY DEF ReadNumbers
<1> HIDE DEF s, v, S
<1>5. DOMAIN s = 1..Len(s) /\ Len(s) \in Nat /\ (s = <<>> <=> Len(s) = 0)
  BY <1>3, EmptySeq
<1> DEFINE u == [i \in DOMAIN s |-> v(s[i])]
<1>6. u = <<>> <=> s = <<>>
  <2>1. CASE s = <<>>
    BY <1>5, <2>1
  <2>2. CASE s # <<>>
    <3>1. 1 \in DOMAIN u
      BY <1>5, <2>2
    <3>2. DOMAIN <<>> = {}
      OBVIOUS
    <3> HIDE DEF u
    <3>3. u # <<>>
      BY <3>1, <3>2
    <3>4. QED
      BY <2>2, <3>3
  <2>3. QED
    BY <2>1, <2>2
<1>7. QED
  BY <1>2, <1>4, <1>6 DEF s, S

\* The marks of all places.
LEMMA AllMarksAre ==
  ASSUME TypeInv
  PROVE  /\ Len(AllMarks) = PositionCount /\ RunningTotals(AllMarks, Sums(AllMarks))
         /\ \A q \in Places :
              AllMarks[At(q)] = IF Cloned(q[1]) THEN Marks(q)[Len(TokensOf(q))] ELSE 0
<1> DEFINE f == AllMarks
           at(i) == LET q == PlaceAt(i)
                    IN  IF Cloned(q[1]) THEN Marks(q)[Len(TokensOf(q))] ELSE 0
<1>1. PositionCount \in Nat /\ Positions = 1..PositionCount /\ \A i \in Positions : PlaceAt(i) \in Places
  BY PositionsAre
<1>2. f = [i \in Positions |-> at(i)]
  BY DEF AllMarks
<1>3. ASSUME NEW q \in Places PROVE Marks(q)[Len(TokensOf(q))] \in Int
  <2>1. q[1] \in Nodes /\ q[2] \in {"before", "after"}
    BY PlaceWithin
  <2>2. style[q[1]] \in Styles[q[1]]
    BY <2>1 DEF TypeInv
  <2>3. TokensOf(q) \in Seq(Readable)
    BY <2>1, <2>2, StylesAssumption DEF TokensOf
  <2>4. TokensOf(q) \in Seq(Tokens)
    BY <2>3, ReadableParsed
  <2>5. Len(TokensOf(q)) \in 0..Len(TokensOf(q))
    BY <2>4
  <2>6. QED
    BY <2>4, <2>5, MarksAre
<1>4. \A i \in Positions : at(i) \in Int
  BY <1>1, <1>3
<1>5. \A q \in Places : f[At(q)] = at(At(q)) /\ PlaceAt(At(q)) = q
  BY <1>2, PlacesAre
<1>6. \A q \in Places : f[At(q)] = IF Cloned(q[1]) THEN Marks(q)[Len(TokensOf(q))] ELSE 0
  BY <1>5
<1> HIDE DEF at
<1>7. Len(f) = PositionCount /\ \A i \in 1..Len(f) : f[i] \in Int
  BY <1>1, <1>2, <1>4
<1> HIDE DEF f
<1>8. Len(f) \in Nat
  BY <1>1, <1>7
<1>9. RunningTotals(f, Sums(f))
  BY <1>7, <1>8, SumsAre
<1>10. QED
  BY <1>6, <1>7, <1>9 DEF f

\* Nothing between the ends of an element that is ignored is cloned.
LEMMA IgnoredPlaces ==
  ASSUME NEW n \in Nodes, style[n].ignored, NEW q \in Places, Open[n] <= At(q), At(q) <= Close[n]
  PROVE  ~Cloned(q[1])
<1> DEFINE m == q[1]
<1>1. /\ m \in Nodes /\ q[2] \in {"before", "after"} /\ At(q) \in Nat
      /\ Open[m] <= At(q) /\ At(q) <= Close[m]
      /\ At(q) = Open[m] \/ At(q) = Close[m]
  BY PlaceWithin DEF At
<1> HIDE DEF m
<1>2. /\ Open[m] \in Nat /\ Close[m] \in Nat /\ Open[m] < Close[m]
      /\ Open[n] \in Nat /\ Close[n] \in Nat /\ Open[n] < Close[n]
      /\ Open[m] < Open[n] /\ Open[n] < Close[m] => Close[n] < Close[m]
      /\ Open[n] < Open[m] /\ Open[m] < Close[n] => Close[m] < Close[n]
  BY <1>1, ElementsNest
<1>3. Open[m] # Close[n] /\ Open[n] # Close[m]
  BY <1>1, PositionsDiffer
<1>4. Within(m, n)
  <2>1. CASE m = n
    BY <1>2, <2>1 DEF Within
  <2>2. CASE m # n
    <3>1. Open[m] # Open[n] /\ Close[m] # Close[n]
      BY <1>1, <2>2, PositionsDiffer
    <3>2. QED
      BY <1>1, <1>2, <1>3, <3>1 DEF Within
  <2>3. QED
    BY <2>1, <2>2
<1>5. QED
  BY <1>4 DEF Cloned, m

\* So what places add, if only those add that are cloned, stays over it:
LEMMA IgnoredStays ==
  ASSUME TypeInv, NEW n \in Nodes, style[n].ignored, NEW f, Len(f) = PositionCount,
         NEW s, RunningTotals(f, s), \A q \in Places : ~Cloned(q[1]) => f[At(q)] = 0
  PROVE  s[Close[n]] = s[Open[n] - 1]
<1> DEFINE a == Open[n] - 1
           b == Close[n]
<1>1. PositionCount \in Nat /\ Positions = 1..PositionCount /\ Open[n] \in Positions /\ Close[n] \in Positions
  BY PositionsAre, DocumentAssumption DEF Positions
<1>2. a \in Nat /\ b \in Nat /\ a <= b /\ b <= Len(f) /\ Len(f) \in Nat
  <2>1. Open[n] < Close[n] /\ Open[n] \in Nat /\ Close[n] \in Nat
    BY ElementsNest
  <2>2. QED
    BY <1>1, <2>1
<1>3. ASSUME NEW i \in (a + 1)..b PROVE f[i] = 0
  <2>1. i \in Positions /\ Open[n] <= i /\ i <= Close[n]
    BY <1>1, <1>2
  <2>2. PICK q \in Places : At(q) = i
    BY <2>1, PositionsAre
  <2>3. ~Cloned(q[1])
    BY <2>1, <2>2, IgnoredPlaces
  <2>4. QED
    BY <2>2, <2>3
<1> HIDE DEF a, b
<1>4. s[b] = s[a]
  BY <1>2, <1>3, SumsStay
<1>5. QED
  BY <1>4 DEF a, b

\* the marks,
LEMMA IgnoredMarks ==
  ASSUME TypeInv, NEW n \in Nodes, style[n].ignored
  PROVE  Sums(AllMarks)[Close[n]] = Sums(AllMarks)[Open[n] - 1]
<1> DEFINE f == AllMarks
           s == Sums(AllMarks)
<1>1. Len(f) = PositionCount /\ RunningTotals(f, s) /\ \A q \in Places : ~Cloned(q[1]) => f[At(q)] = 0
  BY AllMarksAre
<1> HIDE DEF f, s
<1>2. s[Close[n]] = s[Open[n] - 1]
  BY <1>1, IgnoredStays
<1>3. QED
  BY <1>2 DEF s

\* and the values of counters.
LEMMA IgnoredValues ==
  ASSUME TypeInv, NEW n \in Nodes, style[n].ignored, NEW S, NEW c
  PROVE  ValuesOf(S, c, Close[n]) = ValuesOf(S, c, Open[n] - 1)
<1>1. ASSUME NEW m PROVE Sums(ReadCounts(m, c))[Close[n]] = Sums(ReadCounts(m, c))[Open[n] - 1]
  <2> DEFINE f == ReadCounts(m, c)
             s == Sums(f)
  <2>1. Len(f) = PositionCount /\ RunningTotals(f, s)
    BY CountsAre
  <2>2. \A q \in Places : ~Cloned(q[1]) => f[At(q)] = 0
    BY CountsAt
  <2> HIDE DEF f, s
  <2>3. s[Close[n]] = s[Open[n] - 1]
    BY <2>1, <2>2, IgnoredStays
  <2>4. QED
    BY <2>3 DEF s, f
<1>2. QED
  BY <1>1 DEF ValuesOf

\* The elements whose counters are in scope at the ends of n.
LEMMA ScopesAtEnds ==
  ASSUME NEW n \in Nodes, NEW c
  PROVE  /\ Resetting(Open[n] + 1, c) = ScopeSet(n, c)
         /\ Resetting(Close[n], c) = ScopeSet(n, c)
         /\ ScopeSet(n, c) = IF Resets(n, c) = {} THEN Resetting(Open[n], c)
                             ELSE Resetting(Open[n], c) \cup {n}
         /\ Resetting(Close[n] + 1, c) = Resetting(Open[n], c)
         /\ Resetting(Open[n], c) \in SUBSET Nodes
         /\ \A m \in Resetting(Open[n], c) : Open[m] < Open[n]
<1>1. ASSUME NEW m \in Nodes
      PROVE  /\ Open[m] < Open[n] + 1 /\ Open[n] + 1 <= Close[m] <=> Within(n, m)
             /\ Open[m] < Close[n] /\ Close[n] <= Close[m] <=> Within(n, m)
  <2>1. /\ Open[m] \in Nat /\ Close[m] \in Nat /\ Open[m] < Close[m]
        /\ Open[n] \in Nat /\ Close[n] \in Nat /\ Open[n] < Close[n]
        /\ Open[m] < Open[n] /\ Open[n] < Close[m] => Close[n] < Close[m]
        /\ Open[n] < Open[m] /\ Open[m] < Close[n] => Close[m] < Close[n]
    BY ElementsNest
  <2>2. Open[m] # Close[n] /\ Open[n] # Close[m]
    BY PositionsDiffer
  <2>3. CASE m = n
    BY <2>1, <2>3 DEF Within
  <2>4. CASE m # n
    <3>1. Open[m] # Open[n] /\ Close[m] # Close[n]
      BY <2>4, PositionsDiffer
    <3>2. QED
      BY <2>1, <2>2, <2>4, <3>1 DEF Within
  <2>5. QED
    BY <2>3, <2>4
<1>2. Resetting(Open[n] + 1, c) = ScopeSet(n, c) /\ Resetting(Close[n], c) = ScopeSet(n, c)
  BY <1>1 DEF Resetting, Around, ScopeSet
<1>3. /\ Around(Open[n] + 1) = Around(Open[n]) \cup {n}
      /\ Around(Close[n] + 1) = Around(Open[n])
  BY AroundChanges
<1>4. Resetting(Close[n] + 1, c) = Resetting(Open[n], c)
  BY <1>3 DEF Resetting
<1>5. Resetting(Open[n] + 1, c) = IF Resets(n, c) = {} THEN Resetting(Open[n], c)
                                  ELSE Resetting(Open[n], c) \cup {n}
  BY <1>3 DEF Resetting
<1>6. Resetting(Open[n], c) \in SUBSET Nodes /\ \A m \in Resetting(Open[n], c) : Open[m] < Open[n]
  BY DEF Resetting, Around
<1>7. QED
  BY <1>2, <1>4, <1>5, <1>6

\* All is read off the styles alone, and the walk changes none.
LEMMA ResetsStay ==
  ASSUME style' = style
  PROVE  /\ \A n, c : Resets(n, c)' = Resets(n, c)
         /\ \A n, c : InitialValue(n, c)' = InitialValue(n, c)
         /\ \A n : Cloned(n)' = Cloned(n)
         /\ \A p : TokensOf(p)' = TokensOf(p)
<1>1. ASSUME NEW n, NEW c PROVE Resets(n, c)' = Resets(n, c)
  BY DEF Resets
<1>2. ASSUME NEW n, NEW c PROVE InitialValue(n, c)' = InitialValue(n, c)
  BY <1>1 DEF InitialValue
<1>3. ASSUME NEW n PROVE Cloned(n)' = Cloned(n)
  BY DEF Cloned
<1>4. ASSUME NEW p PROVE TokensOf(p)' = TokensOf(p)
  BY DEF TokensOf
<1>5. QED
  BY <1>1, <1>2, <1>3, <1>4

\* ReadScopes, and the values in them.
LEMMA ScopesStay ==
  ASSUME style' = style
  PROVE  /\ \A n, c : ReadScopes(n, c)' = ReadScopes(n, c)
         /\ \A m, q, c : IsReadScope(m, q, c)' = IsReadScope(m, q, c)
         /\ \A q, c : Increments(q, c)' = Increments(q, c)
         /\ \A m, c : ReadCounts(m, c)' = ReadCounts(m, c)
         /\ \A q, c : ReadNumbers(q, c)' = ReadNumbers(q, c)
<1>1. ASSUME NEW n, NEW c PROVE ReadScopes(n, c)' = ReadScopes(n, c)
  <2>1. \A m : Resets(m, c)' = Resets(m, c)
    BY ResetsStay
  <2>2. {m \in Nodes : Within(n, m) /\ Resets(m, c)' # {}} = {m \in Nodes : Within(n, m) /\ Resets(m, c) # {}}
    BY <2>1
  <2>3. QED
    BY <2>2 DEF ReadScopes
<1>2. ASSUME NEW m, NEW q, NEW c PROVE IsReadScope(m, q, c)' = IsReadScope(m, q, c)
  BY <1>1 DEF IsReadScope
<1>3. ASSUME NEW q, NEW c PROVE Increments(q, c)' = Increments(q, c)
  BY ResetsStay DEF Increments
<1>4. ASSUME NEW m, NEW c PROVE ReadCounts(m, c)' = ReadCounts(m, c)
  <2>1. \A n : Cloned(n)' = Cloned(n)
    BY ResetsStay
  <2>2. QED
    BY <1>2, <1>3, <2>1 DEF ReadCounts
<1>5. ASSUME NEW q, NEW c PROVE ReadNumbers(q, c)' = ReadNumbers(q, c)
  <2>1. \A m : InitialValue(m, c)' = InitialValue(m, c)
    BY ResetsStay
  <2>2. \A m : ReadValue(m, c, q)' = ReadValue(m, c, q)
    BY <1>4, <2>1 DEF ReadValue
  <2>3. QED
    BY <1>1, <2>2 DEF ReadNumbers
<1>6. QED
  BY <1>1, <1>2, <1>3, <1>4, <1>5

\* Marks.
LEMMA MarksStay ==
  ASSUME style' = style
  PROVE  /\ \A p : Marks(p)' = Marks(p)
         /\ AllMarks' = AllMarks
         /\ \A p, i : DepthBefore(p, i)' = DepthBefore(p, i)
<1>1. ASSUME NEW p PROVE Marks(p)' = Marks(p)
  <2>1. TokensOf(p)' = TokensOf(p)
    BY ResetsStay
  <2>2. QED
    BY <2>1 DEF Marks
<1>2. AllMarks' = AllMarks
  <2>1. \A p : TokensOf(p)' = TokensOf(p)
    BY ResetsStay
  <2>2. \A n : Cloned(n)' = Cloned(n)
    BY ResetsStay
  <2>3. QED
    BY <1>1, <2>1, <2>2 DEF AllMarks
<1>3. ASSUME NEW p, NEW i PROVE DepthBefore(p, i)' = DepthBefore(p, i)
  BY <1>1, <1>2 DEF DepthBefore
<1>4. QED
  BY <1>1, <1>2, <1>3

\* So the whole of what is read stays as it is.
LEMMA ReferenceStays ==
  ASSUME style' = style
  PROVE  /\ \A p, c : ResetBefore(p, c)' = ResetBefore(p, c)
         /\ \A p : ReadContent(p)' = ReadContent(p)
         /\ \A p : Fatal(p)' = Fatal(p)
<1>1. ASSUME NEW p, NEW c PROVE ResetBefore(p, c)' = ResetBefore(p, c)
  <2>1. \A m : Resets(m, c)' = Resets(m, c) /\ Cloned(m)' = Cloned(m)
    BY ResetsStay
  <2>2. QED
    BY <2>1 DEF ResetBefore
<1>2. ASSUME NEW p, NEW t PROVE Shows(p, t)' = Shows(p, t)
  BY <1>1 DEF Shows
<1>3. \A p : TokensOf(p)' = TokensOf(p)
  BY ResetsStay
<1>4. ASSUME NEW p, NEW i PROVE ReadPart(p, i)' = ReadPart(p, i)
  <2>1. \A c : ReadNumbers(p, c)' = ReadNumbers(p, c)
    BY ScopesStay
  <2>2. DepthBefore(p, i)' = DepthBefore(p, i)
    BY MarksStay
  <2>3. QED
    BY <1>3, <2>1, <2>2 DEF ReadPart
<1>5. ASSUME NEW p PROVE ReadContent(p)' = ReadContent(p)
  BY <1>2, <1>3, <1>4 DEF ReadContent, ReadShown
<1>6. ASSUME NEW p PROVE Fatal(p)' = Fatal(p)
  <2>1. \A i : DepthBefore(p, i)' = DepthBefore(p, i)
    BY MarksStay
  <2>2. \A c : HasLeft(p, c)' = HasLeft(p, c)
    BY <1>1, ResetsStay DEF HasLeft
  <2>3. QED
    BY <1>1, <1>3, <2>1, <2>2 DEF Fatal
<1>7. QED
  BY <1>1, <1>5, <1>6

-----------------------------------------------------------------------------
(***************************************************************************)
(* The walk keeps to what is read of the document.                          *)
(***************************************************************************)
\* The names with an array are those that an element entered before has reset.
KnownKept == \A c : c \in known <=> \E m \in Nodes : Cloned(m) /\ Open[m] < pos /\ Resets(m, c) # {}
\* The arrays hold the values of the elements around the walk, the depth the marks before it.
CountersKept ==
  \A c \in Names : \A k, S :
    k = pos /\ S = Resetting(k, c) => counters[c] = ValuesOf(S, c, k - 1)
DepthKept == quoteDepth \in Nat /\ quoteDepth = Sums(AllMarks)[pos - 1]
\* What has been shown stays as it is read.
ShownKept == \A p \in Places : Visited(p) => content[p] = ReadContent(p) /\ ~Fatal(p)
WalkInv ==
  /\ ScopesInv
  /\ content = [p \in Places |-> content[p]]
  /\ thrown => \E p \in Places : Visited(p) /\ Fatal(p)
  /\ ~thrown => KnownKept /\ CountersKept /\ DepthKept /\ ShownKept

\* What an element resets is a counter.
LEMMA ResetNamed ==
  ASSUME TypeInv, NEW n \in Nodes, NEW c, Resets(n, c) # {}
  PROVE  c \in Names
<1>1. style[n] \in Styles[n]
  BY DEF TypeInv
<1>2. \A i \in DOMAIN style[n].reset : style[n].reset[i].name \in Names
  BY <1>1, StylesAssumption
<1>3. QED
  BY <1>2 DEF Resets

\* What is around an element that is cloned is cloned.
LEMMA ClonedAround ==
  ASSUME NEW n \in Nodes, Cloned(n), NEW m \in Nodes, Within(n, m)
  PROVE  Cloned(m)
<1> SUFFICES ASSUME NEW x \in Nodes, Within(m, x) PROVE ~style[x].ignored
  BY DEF Cloned
<1>1. Within(n, x)
  BY ElementsNest DEF Within
<1>2. QED
  BY <1>1 DEF Cloned

\* The state before the place q is shown: known names and counters, and the depth.
ReadyFor(q, cs, names) ==
  /\ cs \in [Names -> Seq(Int)]
  /\ \A c : c \in names <=> ResetBefore(q, c)
  /\ \A c \in Names : cs[c] = ValuesOf(ScopeSet(q[1], c), c, At(q) - 1)
  /\ quoteDepth \in Nat /\ quoteDepth = Sums(AllMarks)[At(q) - 1]
\* And after it.
ShownAt(q, r) ==
  /\ \A c \in Names : r.cs[c] = ValuesOf(ScopeSet(q[1], c), c, At(q))
  /\ Fatal(q) => r.bad = TRUE
  /\ ~Fatal(q) =>
       /\ r.bad = FALSE /\ r.parts = ReadContent(q)
       /\ r.depth = Sums(AllMarks)[At(q)] /\ r.depth \in Nat
\* No scope is read where no element around resets the counter.
LEMMA LeftIs ==
  ASSUME NEW q, NEW c
  PROVE  ReadScopes(q[1], c) = <<>> <=> \A m \in Nodes : Within(q[1], m) => Resets(m, c) = {}
<1> DEFINE S == ScopeSet(q[1], c)
           s == ReadScopes(q[1], c)
<1>1. S \in SUBSET Nodes /\ InOrder(S, s) /\ IsFiniteSet(S)
  BY ScopesAre, RankIs
<1>2. S = {} <=> \A m \in Nodes : Within(q[1], m) => Resets(m, c) = {}
  BY DEF ScopeSet
<1> HIDE DEF S, s
<1>3. s \in Seq(S) /\ Len(s) = Cardinality(S)
  BY <1>1 DEF InOrder
<1>4. s = <<>> <=> S = {}
  BY <1>1, <1>3, EmptySeq, FS_EmptySet
<1>5. QED
  BY <1>2, <1>4 DEF s

\* What a place shows, and what it leaves, is read of the document.
LEMMA PlaceStep ==
  ASSUME TypeInv, NEW q \in Places, Cloned(q[1]), NEW cs, NEW names, ReadyFor(q, cs, names)
  PROVE  ShownAt(q, resolvePseudoContent(q[1], q[2], cs, names))
<1> DEFINE r == resolvePseudoContent(q[1], q[2], cs, names)
<1>1. /\ cs \in [Names -> Seq(Int)]
      /\ \A c : c \in names <=> ResetBefore(q, c)
      /\ \A c \in Names : cs[c] = ValuesOf(ScopeSet(q[1], c), c, At(q) - 1)
      /\ quoteDepth \in Nat /\ quoteDepth = Sums(AllMarks)[At(q) - 1]
  BY DEF ReadyFor
<1>2. q[1] \in Nodes /\ q[2] \in {"before", "after"} /\ q = <<q[1], q[2]>>
      /\ At(q) \in Nat /\ Open[q[1]] <= At(q)
  BY PlaceWithin
<1>3. ASSUME NEW c \in Names PROVE cs[c] = <<>> \/ c \in names
  <2> DEFINE v == ValuesOf(ScopeSet(q[1], c), c, At(q) - 1)
             w == ValuesOf(ScopeSet(q[1], c), c, At(q))
  <2>1. AddedLast(v, w, Increments(q, c))
    BY CountStep
  <2>2. w = <<>> <=> ReadScopes(q[1], c) = <<>>
    BY NumbersAre
  <2> HIDE DEF v, w
  <2>3. v = <<>> <=> w = <<>>
    <3>1. v \in Seq(Int) /\ w \in Seq(Int) /\ Len(v) = Len(w)
      BY <2>1 DEF AddedLast
    <3>2. QED
      BY <3>1, EmptySeq
  <2>4. CASE ReadScopes(q[1], c) = <<>>
    BY <1>1, <2>2, <2>3, <2>4 DEF v
  <2>5. CASE ReadScopes(q[1], c) # <<>>
    <3> DEFINE S == ScopeSet(q[1], c)
               s == ReadScopes(q[1], c)
    <3>1. InOrder(S, s)
      BY ScopesAre
    <3> HIDE DEF S, s
    <3>2. s \in Seq(S) /\ s # <<>>
      BY <2>5, <3>1 DEF InOrder, s
    <3>3. PICK m : m \in S
      BY <3>2
    <3>4. m \in Nodes /\ Within(q[1], m) /\ Resets(m, c) # {}
      BY <3>3 DEF S, ScopeSet
    <3>5. Cloned(m)
      BY <1>2, <3>4, ClonedAround
    <3>6. Open[m] <= At(q)
      BY <1>2, <3>4, ElementsNest DEF Within
    <3>7. ResetBefore(q, c)
      BY <3>4, <3>5, <3>6 DEF ResetBefore
    <3>8. QED
      BY <1>1, <3>7
  <2>6. QED
    BY <2>4, <2>5
<1>4. \A c \in Names : r.cs[c] = ValuesOf(ScopeSet(q[1], c), c, At(q))
  BY <1>1, <1>3, ResolveCounts
<1>5. NumbersKnown(q, r.cs, names)
  <2>1. ASSUME NEW c \in names PROVE c \in Names
    <3>1. PICK m \in Nodes : Resets(m, c) # {}
      BY <1>1, <2>1 DEF ResetBefore
    <3>2. QED
      BY <3>1, ResetNamed
  <2>2. ASSUME NEW c \in names
        PROVE  r.cs[c] = ReadNumbers(q, c) /\ (r.cs[c] = <<>> <=> HasLeft(q, c))
    <3> HIDE DEF r
    <3>1. ResetBefore(q, c)
      BY <1>1, <2>2
    <3>2. HasLeft(q, c) <=> ReadScopes(q[1], c) = <<>>
      BY <3>1, LeftIs DEF HasLeft
    <3>3. QED
      BY <1>4, <2>1, <3>2, NumbersAre
  <2> HIDE DEF r
  <2>3. QED
    BY <1>1, <2>2 DEF NumbersKnown
<1>6. PlaceRead(r, q)
  BY <1>1, <1>2, <1>5, PlaceShown
<1>7. quoteDepth + Marks(q)[Len(TokensOf(q))] = Sums(AllMarks)[At(q)]
  <2> DEFINE k == At(q)
             f == AllMarks
             s == Sums(AllMarks)
             d == Marks(q)[Len(TokensOf(q))]
  <2>1. k \in 1..PositionCount
    BY PlacesAre, PositionsAre
  <2>2. f[k] = d /\ Len(f) = PositionCount /\ RunningTotals(f, s)
    BY AllMarksAre
  <2>3. quoteDepth = s[k - 1]
    BY <1>1
  <2> HIDE DEF k, f, s, d
  <2>4. s[k] = s[k - 1] + f[k]
    BY <2>1, <2>2 DEF RunningTotals
  <2>5. QED
    BY <2>2, <2>3, <2>4 DEF k, s, d
<1> HIDE DEF r
<1>8. QED
  BY <1>4, <1>6, <1>7 DEF ShownAt, PlaceRead, r

\* What has been shown after q is shown as well.
LEMMA ShownStep ==
  ASSUME WalkInv, ~thrown, NEW q \in Places, Cloned(q[1]), pos = At(q), NEW r, ShownAt(q, r),
         style' = style, pos' = pos + 1, thrown' = r.bad, quoteDepth' = r.depth,
         content' = [content EXCEPT ![q] = r.parts]
  PROVE  /\ (content = [p \in Places |-> content[p]])'
         /\ thrown' => (\E p \in Places : Visited(p) /\ Fatal(p))'
         /\ ~thrown' => DepthKept' /\ ShownKept' /\ r.bad = FALSE
<1>1. ShownKept /\ TypeInv /\ content = [p \in Places |-> content[p]]
  BY DEF WalkInv, ScopesInv
<1>2. /\ Fatal(q) => r.bad = TRUE
      /\ ~Fatal(q) => /\ r.bad = FALSE /\ r.parts = ReadContent(q)
                           /\ r.depth = Sums(AllMarks)[At(q)] /\ r.depth \in Nat
  BY DEF ShownAt
<1>3. \A p \in Places : Visited(p)' <=> Visited(p) \/ p = q
  <2> SUFFICES ASSUME NEW p \in Places PROVE Visited(p)' <=> Visited(p) \/ p = q
    OBVIOUS
  <2>1. Cloned(p[1])' <=> Cloned(p[1])
    BY ResetsStay
  <2>2. At(p) \in Nat /\ pos \in Nat
    BY <1>1, PlaceWithin DEF TypeInv
  <2>3. At(p) = pos => p = q
    BY PlacesAre
  <2>4. At(p) < pos + 1 <=> At(p) < pos \/ At(p) = pos
    BY <2>2
  <2>5. QED
    BY <2>1, <2>3, <2>4 DEF Visited
<1>4. \A p \in Places : ReadContent(p)' = ReadContent(p) /\ (Fatal(p)' <=> Fatal(p))
  BY ReferenceStays
<1>5. (content = [p \in Places |-> content[p]])'
  BY <1>1
<1>6. thrown' => (\E p \in Places : Visited(p) /\ Fatal(p))'
  <2>1. thrown' => Fatal(q)
    BY <1>2
  <2>2. QED
    BY <1>3, <1>4, <2>1
<1>7. ~thrown' => ~Fatal(q)
  BY <1>2
<1>8. ~thrown' => DepthKept'
  <2>1. AllMarks' = AllMarks
    BY MarksStay
  <2>2. pos \in Nat
    BY <1>1 DEF TypeInv
  <2>3. pos' - 1 = At(q)
    BY <2>2
  <2>4. QED
    BY <1>2, <1>7, <2>1, <2>3 DEF DepthKept
<1>9. ~thrown' => ShownKept'
  <2> SUFFICES ASSUME ~thrown', NEW p \in Places, Visited(p)'
               PROVE  content'[p] = ReadContent(p)' /\ ~Fatal(p)'
    BY DEF ShownKept
  <2>1. CASE p = q
    <3>1. content'[p] = r.parts
      BY <1>1, <2>1
    <3>2. QED
      BY <1>2, <1>4, <1>7, <2>1, <3>1
  <2>2. CASE p # q
    <3>1. content'[p] = content[p]
      BY <1>1, <2>2
    <3>2. Visited(p)
      BY <1>3, <2>2
    <3>3. QED
      BY <1>1, <1>4, <3>1, <3>2 DEF ShownKept
  <2>3. QED
    BY <2>1, <2>2
<1>10. QED
  BY <1>2, <1>5, <1>6, <1>7, <1>8, <1>9

\* Values, too.
LEMMA ValuesStay ==
  ASSUME style' = style, NEW S, NEW c, NEW k
  PROVE  ValuesOf(S, c, k)' = ValuesOf(S, c, k)
<1>1. \A m : InitialValue(m, c)' = InitialValue(m, c)
  BY ResetsStay
<1>2. \A m : ReadCounts(m, c)' = ReadCounts(m, c)
  BY ScopesStay
<1>3. QED
  BY <1>1, <1>2 DEF ValuesOf

\* Entering an element: what it resets has a value more, then ::before is shown.
LEMMA EnterKeeps ==
  ASSUME WalkInv, NEW n \in Nodes, Enter(n)
  PROVE  WalkInv'
<1> DEFINE q == <<n, "before">>
           cs == parseCounterReset(n)
           reset == {c \in Names : Resets(n, c) # {}}
           names == known \cup reset
           r == resolvePseudoContent(n, "before", cs, names)
<1>1. /\ pos = Open[n] /\ ~style[n].ignored /\ ~thrown
      /\ known' = names /\ counters' = r.cs /\ quoteDepth' = r.depth
      /\ content' = [content EXCEPT ![q] = r.parts] /\ thrown' = r.bad
      /\ pos' = pos + 1 /\ style' = style
  BY DEF Enter, Walking
<1>2. ScopesInv /\ TypeInv /\ NothingIgnored /\ KnownKept /\ CountersKept /\ DepthKept
  BY <1>1 DEF WalkInv, ScopesInv
<1>3. ScopesInv'
  BY <1>2, EnterStep
<1>4. q \in Places /\ q[1] = n /\ q[2] = "before" /\ At(q) = pos /\ pos \in Nat
  BY <1>1, <1>2 DEF Places, At, TypeInv
<1>5. Cloned(n)
  <2> SUFFICES ASSUME NEW m \in Nodes, Within(n, m) PROVE ~style[m].ignored
    BY DEF Cloned
  <2>1. m = n \/ m \in Around(Open[n])
    BY AroundContain
  <2>2. QED
    BY <1>1, <1>2, <2>1 DEF NothingIgnored
<1>6. \A c : c \in reset <=> Resets(n, c) # {}
  BY <1>2, ResetNamed
<1>7. \A c : c \in names <=> ResetBefore(q, c)
  <2> SUFFICES ASSUME NEW c PROVE c \in names <=> ResetBefore(q, c)
    OBVIOUS
  <2>1. c \in known <=> \E m \in Nodes : Cloned(m) /\ Open[m] < Open[n] /\ Resets(m, c) # {}
    BY <1>1, <1>2 DEF KnownKept
  <2>2. ResetBefore(q, c) <=> \E m \in Nodes : Cloned(m) /\ Open[m] <= Open[n] /\ Resets(m, c) # {}
    BY <1>1, <1>4 DEF ResetBefore
  <2>3. \A m \in Nodes : Open[m] <= Open[n] <=> Open[m] < Open[n] \/ m = n
    <3> SUFFICES ASSUME NEW m \in Nodes PROVE Open[m] <= Open[n] <=> Open[m] < Open[n] \/ m = n
      OBVIOUS
    <3>1. Open[m] \in Nat /\ Open[n] \in Nat
      BY ElementsNest
    <3>2. Open[m] = Open[n] => m = n
      BY PositionsDiffer
    <3>3. QED
      BY <3>1, <3>2
  <2>4. QED
    BY <1>5, <1>6, <2>1, <2>2, <2>3
<1> HIDE DEF q, names, reset
<1>8. cs \in [Names -> Seq(Int)] /\ \A c \in Names : cs[c] = ValuesOf(ScopeSet(n, c), c, Open[n] - 1)
  <2>1. cs = [c \in Names |-> IF Resets(n, c) = {} THEN counters[c] ELSE Append(counters[c], InitialValue(n, c))]
    BY DEF parseCounterReset
  <2>2. ASSUME NEW c \in Names
        PROVE  /\ (IF Resets(n, c) = {} THEN counters[c] ELSE Append(counters[c], InitialValue(n, c)))
                      = ValuesOf(ScopeSet(n, c), c, Open[n] - 1)
               /\ (IF Resets(n, c) = {} THEN counters[c] ELSE Append(counters[c], InitialValue(n, c)))
                      \in Seq(Int)
    <3> DEFINE S == Resetting(Open[n], c)
               x == InitialValue(n, c)
    <3>1. counters[c] = ValuesOf(S, c, Open[n] - 1) /\ counters[c] \in Seq(Int)
      BY <1>1, <1>2 DEF CountersKept, TypeInv
    <3>2. /\ S \in SUBSET Nodes /\ \A m \in S : Open[m] < Open[n]
          /\ ScopeSet(n, c) = IF Resets(n, c) = {} THEN S ELSE S \cup {n}
      BY ScopesAtEnds
    <3>3. CASE Resets(n, c) = {}
      BY <3>1, <3>2, <3>3
    <3>4. CASE Resets(n, c) # {}
      <4>1. x \in Int
        BY <1>2, <3>4, ResetsAreIntegers
      <4>2. Sums(ReadCounts(n, c))[Open[n] - 1] = 0
        BY <1>2, NothingBefore
      <4> HIDE DEF S
      <4>3. ValuesOf(S \cup {n}, c, Open[n] - 1)
              = Append(ValuesOf(S, c, Open[n] - 1), InitialValue(n, c) + Sums(ReadCounts(n, c))[Open[n] - 1])
        <5>1. OneMore(S, n, c, Open[n] - 1)
          BY <3>2, ValuesAppend
        <5>2. QED
          BY <5>1 DEF OneMore
      <4>4. InitialValue(n, c) + Sums(ReadCounts(n, c))[Open[n] - 1] = x
        BY <4>1, <4>2
      <4>5. Append(counters[c], x) = ValuesOf(ScopeSet(n, c), c, Open[n] - 1)
        BY <3>1, <3>2, <3>4, <4>3, <4>4
      <4>6. Append(counters[c], x) \in Seq(Int)
        BY <3>1, <4>1
      <4>7. QED
        BY <3>4, <4>5, <4>6
    <3>5. QED
      BY <3>3, <3>4
  <2> HIDE DEF cs
  <2>3. QED
    BY <2>1, <2>2
<1> HIDE DEF cs
<1>9. ReadyFor(q, cs, names)
  BY <1>1, <1>2, <1>4, <1>7, <1>8 DEF ReadyFor, DepthKept
<1>10. ShownAt(q, r)
  <2>1. ShownAt(q, resolvePseudoContent(q[1], q[2], cs, names))
    BY <1>2, <1>4, <1>5, <1>9, PlaceStep
  <2>2. QED
    BY <1>4, <2>1
<1> HIDE DEF r
<1>11. /\ (content = [p \in Places |-> content[p]])'
       /\ thrown' => (\E p \in Places : Visited(p) /\ Fatal(p))'
       /\ ~thrown' => DepthKept' /\ ShownKept' /\ r.bad = FALSE
  BY <1>1, <1>4, <1>5, <1>10, ShownStep
<1>12. KnownKept'
  <2> SUFFICES ASSUME NEW c
               PROVE  c \in known'
                        <=> \E m \in Nodes : Cloned(m)' /\ Open[m] < pos' /\ Resets(m, c)' # {}
    BY DEF KnownKept
  <2>1. \A m : Cloned(m)' = Cloned(m) /\ Resets(m, c)' = Resets(m, c)
    BY <1>1, ResetsStay
  <2>2. \A m \in Nodes : Open[m] < pos' <=> Open[m] <= At(q)
    BY <1>1, <1>4, ElementsNest
  <2>3. QED
    BY <1>1, <1>7, <2>1, <2>2 DEF ResetBefore
<1>13. CountersKept'
  <2> SUFFICES ASSUME NEW c \in Names, NEW k, NEW S, k = pos', S = Resetting(k, c)'
               PROVE  counters'[c] = ValuesOf(S, c, k - 1)'
    BY DEF CountersKept
  <2>1. ValuesOf(S, c, k - 1)' = ValuesOf(S, c, k - 1)
    BY <1>1, ValuesStay
  <2>2. S = Resetting(k, c)
    <3>1. \A m : Resets(m, c)' = Resets(m, c)
      BY <1>1, ResetsStay
    <3>2. QED
      BY <3>1 DEF Resetting, Around
  <2>3. k = Open[n] + 1 /\ k - 1 = At(q)
    BY <1>1, <1>4
  <2>4. Resetting(Open[n] + 1, c) = ScopeSet(n, c)
    BY ScopesAtEnds
  <2>5. r.cs[c] = ValuesOf(ScopeSet(n, c), c, At(q))
    BY <1>4, <1>10 DEF ShownAt
  <2>6. QED
    BY <1>1, <2>1, <2>2, <2>3, <2>4, <2>5
<1>14. QED
  BY <1>3, <1>11, <1>12, <1>13 DEF WalkInv

\* Ignoring an element: nothing within it is cloned.
LEMMA IgnoreKeeps ==
  ASSUME WalkInv, NEW n \in Nodes, Ignore(n)
  PROVE  WalkInv'
<1>1. /\ pos = Open[n] /\ style[n].ignored /\ ~thrown /\ pos' = Close[n] + 1
      /\ style' = style /\ known' = known /\ counters' = counters /\ quoteDepth' = quoteDepth
      /\ content' = content /\ thrown' = thrown
  BY DEF Ignore, Walking
<1>2. /\ ScopesInv /\ TypeInv /\ KnownKept /\ CountersKept /\ DepthKept /\ ShownKept
      /\ content = [p \in Places |-> content[p]]
  BY <1>1 DEF WalkInv, ScopesInv
<1>3. ScopesInv'
  BY <1>2, IgnoreStep
<1>4. Open[n] \in Nat /\ Close[n] \in Nat /\ Open[n] < Close[n] /\ pos' - 1 = Close[n]
  BY <1>1, ElementsNest
<1>5. (content = [p \in Places |-> content[p]])'
  BY <1>1, <1>2
<1>6. ASSUME NEW q \in Places, Cloned(q[1]) PROVE At(q) < pos' <=> At(q) < pos
  <2>1. At(q) \in Nat
    BY PlaceWithin
  <2>2. ~(Open[n] <= At(q) /\ At(q) <= Close[n])
    BY <1>1, <1>6, IgnoredPlaces
  <2>3. QED
    BY <1>1, <1>4, <2>1, <2>2
<1>7. ASSUME NEW m \in Nodes, Cloned(m) PROVE Open[m] < pos' <=> Open[m] < pos
  <2> DEFINE q == <<m, "before">>
  <2>1. q \in Places /\ q[1] = m /\ At(q) = Open[m]
    BY DEF Places, At
  <2> HIDE DEF q
  <2>2. QED
    BY <1>6, <1>7, <2>1
<1>8. KnownKept'
  <2> SUFFICES ASSUME NEW c
               PROVE  c \in known'
                        <=> \E m \in Nodes : Cloned(m)' /\ Open[m] < pos' /\ Resets(m, c)' # {}
    BY DEF KnownKept
  <2>1. \A m : Cloned(m)' = Cloned(m) /\ Resets(m, c)' = Resets(m, c)
    BY <1>1, ResetsStay
  <2>2. QED
    BY <1>1, <1>2, <1>7, <2>1 DEF KnownKept
<1>9. CountersKept'
  <2> SUFFICES ASSUME NEW c \in Names, NEW k, NEW S, k = pos', S = Resetting(k, c)'
               PROVE  counters'[c] = ValuesOf(S, c, k - 1)'
    BY DEF CountersKept
  <2>1. ValuesOf(S, c, k - 1)' = ValuesOf(S, c, k - 1)
    BY <1>1, ValuesStay
  <2>2. S = Resetting(k, c)
    <3>1. \A m : Resets(m, c)' = Resets(m, c)
      BY <1>1, ResetsStay
    <3>2. QED
      BY <3>1 DEF Resetting, Around
  <2>3. k = Close[n] + 1 /\ k - 1 = Close[n]
    BY <1>1, <1>4
  <2>4. Resetting(Close[n] + 1, c) = Resetting(Open[n], c)
    BY ScopesAtEnds
  <2>5. counters[c] = ValuesOf(S, c, Open[n] - 1)
    BY <1>1, <1>2, <2>2, <2>3, <2>4 DEF CountersKept
  <2>6. ValuesOf(S, c, Close[n]) = ValuesOf(S, c, Open[n] - 1)
    BY <1>1, <1>2, IgnoredValues
  <2>7. QED
    BY <1>1, <2>1, <2>3, <2>5, <2>6
<1>10. DepthKept'
  <2>1. AllMarks' = AllMarks
    BY <1>1, MarksStay
  <2>2. Sums(AllMarks)[Close[n]] = Sums(AllMarks)[Open[n] - 1]
    BY <1>1, <1>2, IgnoredMarks
  <2>3. QED
    BY <1>1, <1>2, <1>4, <2>1, <2>2 DEF DepthKept
<1>11. ShownKept'
  <2> SUFFICES ASSUME NEW p \in Places, Visited(p)'
               PROVE  content'[p] = ReadContent(p)' /\ ~Fatal(p)'
    BY DEF ShownKept
  <2>1. Cloned(p[1])' = Cloned(p[1])
    BY <1>1, ResetsStay
  <2>2. Visited(p)
    BY <1>6, <2>1 DEF Visited
  <2>3. ReadContent(p)' = ReadContent(p) /\ (Fatal(p)' <=> Fatal(p))
    BY <1>1, ReferenceStays
  <2>4. QED
    BY <1>1, <1>2, <2>2, <2>3 DEF ShownKept
<1>12. QED
  BY <1>1, <1>3, <1>5, <1>8, <1>9, <1>10, <1>11 DEF WalkInv

\* Front takes off what Append put last.
LEMMA FrontOfAppend ==
  ASSUME NEW V, NEW v \in Seq(V), NEW x
  PROVE  Front(Append(v, x)) = v
<1> DEFINE W == V \cup {x}
           a == Append(v, x)
           f == Front(a)
<1>1. v \in Seq(W) /\ x \in W
  OBVIOUS
<1>2. a \in Seq(W) /\ Len(a) = Len(v) + 1 /\ \A i \in 1..Len(v) : a[i] = v[i]
  BY <1>1
<1> HIDE DEF a, W
<1>3. f \in Seq(W) /\ Len(f) = Len(v) /\ \A i \in 1..Len(v) : f[i] = a[i]
  BY <1>1, <1>2 DEF Front
<1> HIDE DEF f
<1>4. f = v
  BY <1>1, <1>2, <1>3, SeqEqual
<1>5. QED
  BY <1>4 DEF f, a

\* Leaving an element: ::after is shown, then what it resets has a value less.
LEMMA LeaveKeeps ==
  ASSUME WalkInv, NEW n \in Nodes, Leave(n)
  PROVE  WalkInv'
<1> DEFINE q == <<n, "after">>
           r == resolvePseudoContent(n, "after", counters, known)
<1>1. /\ pos = Close[n] /\ ~thrown
      /\ known' = known /\ counters' = (IF r.bad THEN r.cs ELSE popCounters(n, r.cs))
      /\ quoteDepth' = r.depth /\ content' = [content EXCEPT ![q] = r.parts] /\ thrown' = r.bad
      /\ pos' = pos + 1 /\ style' = style
  BY DEF Leave, Walking
<1>2. ScopesInv /\ TypeInv /\ NothingIgnored /\ KnownKept /\ CountersKept /\ DepthKept
  BY <1>1 DEF WalkInv, ScopesInv
<1>3. ScopesInv'
  BY <1>2, LeaveStep
<1>4. q \in Places /\ q[1] = n /\ q[2] = "after" /\ At(q) = pos /\ pos \in Nat
  BY <1>1, <1>2 DEF Places, At, TypeInv
<1>5. Cloned(n)
  <2> SUFFICES ASSUME NEW m \in Nodes, Within(n, m) PROVE ~style[m].ignored
    BY DEF Cloned
  <2>1. m \in Around(Close[n])
    BY AroundContain
  <2>2. QED
    BY <1>1, <1>2, <2>1 DEF NothingIgnored
<1> HIDE DEF q
<1>6. \A m \in Nodes : Open[m] <= Close[n] <=> Open[m] < Close[n]
  <2> SUFFICES ASSUME NEW m \in Nodes PROVE Open[m] <= Close[n] <=> Open[m] < Close[n]
    OBVIOUS
  <2>1. Open[m] \in Nat /\ Close[n] \in Nat
    BY ElementsNest
  <2>2. Open[m] # Close[n]
    BY PositionsDiffer
  <2>3. QED
    BY <2>1, <2>2
<1>7. \A c : c \in known <=> ResetBefore(q, c)
  <2> SUFFICES ASSUME NEW c PROVE c \in known <=> ResetBefore(q, c)
    OBVIOUS
  <2>1. c \in known <=> \E m \in Nodes : Cloned(m) /\ Open[m] < Close[n] /\ Resets(m, c) # {}
    BY <1>1, <1>2 DEF KnownKept
  <2>2. ResetBefore(q, c) <=> \E m \in Nodes : Cloned(m) /\ Open[m] <= Close[n] /\ Resets(m, c) # {}
    BY <1>1, <1>4 DEF ResetBefore
  <2>3. QED
    BY <1>6, <2>1, <2>2
<1>8. \A c \in Names : counters[c] = ValuesOf(ScopeSet(n, c), c, Close[n] - 1)
  <2> SUFFICES ASSUME NEW c \in Names
               PROVE  counters[c] = ValuesOf(ScopeSet(n, c), c, Close[n] - 1)
    OBVIOUS
  <2>1. Resetting(Close[n], c) = ScopeSet(n, c)
    BY ScopesAtEnds
  <2>2. QED
    BY <1>1, <1>2, <2>1 DEF CountersKept
<1>9. ReadyFor(q, counters, known)
  BY <1>1, <1>2, <1>4, <1>7, <1>8 DEF ReadyFor, DepthKept, TypeInv
<1>10. ShownAt(q, r)
  <2>1. ShownAt(q, resolvePseudoContent(q[1], q[2], counters, known))
    BY <1>2, <1>4, <1>5, <1>9, PlaceStep
  <2>2. QED
    BY <1>4, <2>1
<1> HIDE DEF r
<1>11. /\ (content = [p \in Places |-> content[p]])'
       /\ thrown' => (\E p \in Places : Visited(p) /\ Fatal(p))'
       /\ ~thrown' => DepthKept' /\ ShownKept' /\ r.bad = FALSE
  BY <1>1, <1>4, <1>5, <1>10, ShownStep
<1>12. KnownKept'
  <2> SUFFICES ASSUME NEW c
               PROVE  c \in known'
                        <=> \E m \in Nodes : Cloned(m)' /\ Open[m] < pos' /\ Resets(m, c)' # {}
    BY DEF KnownKept
  <2>1. \A m : Cloned(m)' = Cloned(m) /\ Resets(m, c)' = Resets(m, c)
    BY <1>1, ResetsStay
  <2>2. \A m \in Nodes : Open[m] < pos' <=> Open[m] <= At(q)
    BY <1>1, <1>4, ElementsNest
  <2>3. QED
    BY <1>1, <1>7, <2>1, <2>2 DEF ResetBefore
<1>13. ~thrown' => CountersKept'
  <2> SUFFICES ASSUME ~thrown', NEW c \in Names, NEW k, NEW S, k = pos', S = Resetting(k, c)'
               PROVE  counters'[c] = ValuesOf(S, c, k - 1)'
    BY DEF CountersKept
  <2>1. ValuesOf(S, c, k - 1)' = ValuesOf(S, c, k - 1)
    BY <1>1, ValuesStay
  <2>2. S = Resetting(k, c)
    <3>1. \A m : Resets(m, c)' = Resets(m, c)
      BY <1>1, ResetsStay
    <3>2. QED
      BY <3>1 DEF Resetting, Around
  <2>3. k = Close[n] + 1 /\ k - 1 = At(q)
    BY <1>1, <1>4
  <2>4. /\ S = Resetting(Open[n], c) /\ S \in SUBSET Nodes /\ \A m \in S : Open[m] < Open[n]
        /\ ScopeSet(n, c) = IF Resets(n, c) = {} THEN S ELSE S \cup {n}
    BY <2>2, <2>3, ScopesAtEnds
  <2>5. r.cs[c] = ValuesOf(ScopeSet(n, c), c, At(q))
    BY <1>4, <1>10 DEF ShownAt
  <2>6. counters'[c] = IF Resets(n, c) = {} THEN r.cs[c] ELSE Front(r.cs[c])
    BY <1>1, <1>11 DEF popCounters
  <2>7. CASE Resets(n, c) = {}
    BY <2>1, <2>3, <2>4, <2>5, <2>6, <2>7
  <2>8. CASE Resets(n, c) # {}
    <3> DEFINE v == ValuesOf(S, c, At(q))
               x == InitialValue(n, c) + Sums(ReadCounts(n, c))[At(q)]
    <3>1. r.cs[c] = Append(v, x)
      <4>1. OneMore(S, n, c, At(q))
        BY <2>4, ValuesAppend
      <4>2. QED
        BY <2>4, <2>5, <2>8, <4>1 DEF OneMore
    <3>2. v \in Seq({InitialValue(m, c) + Sums(ReadCounts(m, c))[At(q)] : m \in Nodes})
      <4> DEFINE s == Nested(S)
                 t(m) == InitialValue(m, c) + Sums(ReadCounts(m, c))[At(q)]
                 V == {t(m) : m \in Nodes}
      <4>1. InOrder(S, s)
        BY <2>4, NestedIs
      <4>2. v = [i \in DOMAIN s |-> t(s[i])] /\ \A m \in Nodes : t(m) \in V
        BY DEF ValuesOf
      <4>3. s \in Seq(Nodes)
        BY <2>4, <4>1 DEF InOrder
      <4> HIDE DEF s, t, V, v
      <4>4. v \in Seq(V)
        <5>1. DOMAIN s = 1..Len(s) /\ Len(s) \in Nat /\ \A i \in 1..Len(s) : t(s[i]) \in V
          BY <4>2, <4>3
        <5>2. v \in [1..Len(s) -> V]
          BY <4>2, <5>1
        <5>3. QED
          BY <5>1, <5>2
      <4>5. QED
        BY <4>4 DEF V, t
    <3> HIDE DEF v, x
    <3>3. Front(Append(v, x)) = v
      BY <3>2, FrontOfAppend
    <3>4. QED
      BY <2>1, <2>3, <2>6, <2>8, <3>1, <3>3 DEF v
  <2>9. QED
    BY <2>7, <2>8
<1>14. QED
  BY <1>3, <1>11, <1>12, <1>13 DEF WalkInv

\* Nothing is counted or shown at first.
LEMMA InitWalk == Init => WalkInv
<1> SUFFICES ASSUME Init PROVE WalkInv
  OBVIOUS
<1>1. ScopesInv /\ TypeInv
  BY InitScopes DEF ScopesInv
<1>2. /\ pos = 1 /\ known = {} /\ counters = [c \in Names |-> <<>>] /\ quoteDepth = 0
      /\ content = [p \in Places |-> <<>>] /\ thrown = FALSE
  BY DEF Init
<1>3. ASSUME NEW n \in Nodes PROVE ~(Open[n] < 1)
  <2>1. Open[n] \in 1..PositionCount /\ PositionCount \in Nat
    BY DocumentAssumption, PositionsAre DEF Positions
  <2>2. QED
    BY <2>1
<1>4. KnownKept
  BY <1>2, <1>3 DEF KnownKept
<1>5. CountersKept
  <2> SUFFICES ASSUME NEW c \in Names, NEW k, NEW S, k = pos, S = Resetting(k, c)
               PROVE  counters[c] = ValuesOf(S, c, k - 1)
    BY DEF CountersKept
  <2>1. S = {}
    BY <1>2, <1>3 DEF Resetting, Around
  <2>2. S \in SUBSET Nodes
    BY <2>1
  <2>3. InOrder(S, Nested(S))
    BY <2>2, NestedIs
  <2>4. Nested(S) \in Seq(S)
    BY <2>3 DEF InOrder
  <2> DEFINE s == Nested(S)
  <2>5. s = <<>>
    <3> HIDE DEF s
    <3>1. s \in Seq({})
      BY <2>1, <2>4 DEF s
    <3>2. QED
      BY <3>1
  <2>6. ValuesOf(S, c, k - 1) = <<>>
    BY <2>5 DEF ValuesOf
  <2>7. QED
    BY <1>2, <2>6
<1>6. DepthKept
  <2>1. RunningTotals(AllMarks, Sums(AllMarks))
    BY <1>1, AllMarksAre
  <2>2. Sums(AllMarks)[0] = 0
    BY <2>1 DEF RunningTotals
  <2>3. pos - 1 = 0
    BY <1>2
  <2>4. QED
    BY <1>2, <2>2, <2>3 DEF DepthKept
<1>7. ShownKept
  <2>1. \A p \in Places : ~Visited(p)
    <3> SUFFICES ASSUME NEW p \in Places PROVE ~(At(p) < 1)
      BY <1>2 DEF Visited
    <3>1. p[1] \in Nodes /\ At(p) \in Nat /\ Open[p[1]] <= At(p)
      BY PlaceWithin
    <3>2. Open[p[1]] \in Nat /\ ~(Open[p[1]] < 1)
      BY <1>3, <3>1, ElementsNest
    <3>3. QED
      BY <3>1, <3>2
  <2>2. QED
    BY <2>1 DEF ShownKept
<1>8. QED
  BY <1>1, <1>2, <1>4, <1>5, <1>6, <1>7 DEF WalkInv

\* The walk keeps to what is read all along.
LEMMA WalkInvariant == Spec => []WalkInv
<1>1. ASSUME WalkInv, [Next]_vars PROVE WalkInv'
  <2>1. ASSUME NEW n \in Nodes, Enter(n) PROVE WalkInv'
    BY <1>1, <2>1, EnterKeeps
  <2>2. ASSUME NEW n \in Nodes, Ignore(n) PROVE WalkInv'
    BY <1>1, <2>2, IgnoreKeeps
  <2>3. ASSUME NEW n \in Nodes, Leave(n) PROVE WalkInv'
    BY <1>1, <2>3, LeaveKeeps
  <2>4. CASE UNCHANGED vars
    <3>1. /\ style' = style /\ pos' = pos /\ known' = known /\ counters' = counters
          /\ quoteDepth' = quoteDepth /\ content' = content /\ thrown' = thrown
      BY <2>4 DEF vars
    <3>2. ScopesInv'
      BY <1>1, <3>1
         DEF WalkInv, ScopesInv, TypeInv, NothingIgnored, ScopesKept, Resetting, Resets, Around
    <3>3. /\ \A m, c : Cloned(m)' = Cloned(m) /\ Resets(m, c)' = Resets(m, c)
          /\ \A p : Visited(p)' = Visited(p)
      <4>1. \A m, c : Cloned(m)' = Cloned(m) /\ Resets(m, c)' = Resets(m, c)
        BY <3>1, ResetsStay
      <4>2. QED
        BY <3>1, <4>1 DEF Visited
    <3>4. \A p : ReadContent(p)' = ReadContent(p) /\ (Fatal(p)' <=> Fatal(p))
      BY <3>1, ReferenceStays
    <3>5. KnownKept => KnownKept'
      BY <3>1, <3>3 DEF KnownKept
    <3>6. CountersKept => CountersKept'
      <4> SUFFICES ASSUME CountersKept, NEW c \in Names, NEW k, NEW S, k = pos', S = Resetting(k, c)'
                   PROVE  counters'[c] = ValuesOf(S, c, k - 1)'
        BY DEF CountersKept
      <4>1. ValuesOf(S, c, k - 1)' = ValuesOf(S, c, k - 1)
        BY <3>1, ValuesStay
      <4>2. S = Resetting(k, c)
        BY <3>3 DEF Resetting, Around
      <4>3. QED
        BY <3>1, <4>1, <4>2 DEF CountersKept
    <3>7. DepthKept => DepthKept'
      <4>1. AllMarks' = AllMarks
        BY <3>1, MarksStay
      <4>2. QED
        BY <3>1, <4>1 DEF DepthKept
    <3>8. ShownKept => ShownKept'
      BY <3>1, <3>3, <3>4 DEF ShownKept
    <3>9. QED
      BY <1>1, <3>1, <3>2, <3>3, <3>4, <3>5, <3>6, <3>7, <3>8 DEF WalkInv
  <2>5. QED
    BY <1>1, <2>1, <2>2, <2>3, <2>4 DEF Next
<1>2. QED
  BY <1>1, InitWalk, PTL DEF Spec

-----------------------------------------------------------------------------
(***************************************************************************)
(* What CSS says of the counters that the walk can follow.                  *)
(***************************************************************************)
\* Where such a counter is used, what is around that creates it is all that is seen of it.
FollowedAt(q, c) ==
  /\ ScopeSet(q[1], c) = {m \in Nodes : Covers(m, q[1], c)}
  /\ \E m \in ScopeSet(q[1], c) : Cloned(m)
LEMMA FollowedScopes ==
  ASSUME NEW c, Followed(c), NEW q \in Places, Cloned(q[1]), Uses(q, c)
  PROVE  FollowedAt(q, c)
<1>1. \A n \in Nodes : Creates(n, c) => Listed(n, c) = {1}
  BY DEF Followed
<1>2. /\ \E m \in Nodes : Within(q[1], m) /\ Creates(m, c)
      /\ \A m \in Nodes : Covers(m, q[1], c) => Within(q[1], m)
  BY DEF Followed
<1>3. q[1] \in Nodes
  BY PlaceWithin
<1>4. ASSUME NEW m \in Nodes, Creates(m, c) PROVE Resets(m, c) # {} /\ Cloned(m)
  BY <1>1, <1>4 DEF Resets, Listed, Creates
<1>5. ASSUME NEW m \in Nodes, Within(q[1], m), Resets(m, c) # {} PROVE Covers(m, q[1], c)
  <2>1. Cloned(m)
    BY <1>3, <1>5, ClonedAround
  <2>2. Creates(m, c)
    BY <1>5, <2>1 DEF Creates, Resets, Listed
  <2>3. Open[m] <= Open[m]
    BY ElementsNest
  <2>4. QED
    BY <1>5, <2>2, <2>3 DEF Covers
<1>6. ASSUME NEW m \in Nodes, Covers(m, q[1], c) PROVE Within(q[1], m) /\ Resets(m, c) # {}
  BY <1>2, <1>4, <1>6 DEF Covers
<1>7. QED
  BY <1>2, <1>4, <1>5, <1>6 DEF FollowedAt, ScopeSet

\* It begins with the value that the walk reads.
LEMMA SameBeginning ==
  ASSUME NEW c, Followed(c), NEW m \in Nodes, Cloned(m), Resets(m, c) # {}
  PROVE  Initial(m, c) = InitialValue(m, c)
<1>1. Creates(m, c)
  BY DEF Creates, Resets, Listed
<1>2. Listed(m, c) = {1}
  BY <1>1 DEF Followed
<1>3. Resets(m, c) = Listed(m, c)
  BY <1>2 DEF Resets, Listed
<1>4. QED
  BY <1>3 DEF Initial, InitialValue

\* It is counted as the walk counts.
LEMMA SameScopes ==
  ASSUME NEW c, Followed(c), NEW q \in Places, Cloned(q[1]), Uses(q, c)
  PROVE  Scopes(q[1], c) = ReadScopes(q[1], c)
<1>1. ScopeSet(q[1], c) = {m \in Nodes : Covers(m, q[1], c)}
  BY FollowedScopes DEF FollowedAt
<1>2. QED
  BY <1>1 DEF Scopes, ReadScopes, ScopeSet
LEMMA SameCounts ==
  ASSUME NEW c, Followed(c), NEW m
  PROVE  Counts(m, c) = ReadCounts(m, c)
<1> DEFINE css(q) == IF Cloned(q[1]) /\ IsScope(m, q, c) THEN Increments(q, c) ELSE 0
           read(q) == IF Cloned(q[1]) /\ IsReadScope(m, q, c) THEN Increments(q, c) ELSE 0
<1>1. ASSUME NEW q \in Places PROVE css(q) = read(q)
  <2>1. CASE Cloned(q[1]) /\ Increments(q, c) # 0
    <3>1. Scopes(q[1], c) = ReadScopes(q[1], c)
      BY <2>1, SameScopes DEF Uses
    <3>2. QED
      BY <3>1 DEF IsScope, IsReadScope
  <2>2. CASE ~Cloned(q[1]) \/ Increments(q, c) = 0
    BY <2>2
  <2>3. QED
    BY <2>1, <2>2
<1>2. \A i \in Positions : PlaceAt(i) \in Places
  BY PositionsAre
<1>3. Counts(m, c) = [i \in Positions |-> css(PlaceAt(i))]
  BY DEF Counts
<1>4. ReadCounts(m, c) = [i \in Positions |-> read(PlaceAt(i))]
  BY DEF ReadCounts
<1> HIDE DEF css, read
<1>5. QED
  BY <1>1, <1>2, <1>3, <1>4

\* So its numbers are those that the walk reads, and there are some.
NumbersRead(p, c) ==
  /\ RefNumbers(p, c) = ReadNumbers(p, c)
  /\ ReadNumbers(p, c) # <<>>
  /\ ResetBefore(p, c)
LEMMA SameNumbers ==
  ASSUME NEW c, Followed(c), NEW p \in Places, Cloned(p[1]), Uses(p, c)
  PROVE  NumbersRead(p, c)
<1> DEFINE S == ScopeSet(p[1], c)
           s == ReadScopes(p[1], c)
<1>1. S \in SUBSET Nodes /\ InOrder(S, s)
  BY ScopesAre
<1>2. PICK m \in S : Cloned(m)
  BY FollowedScopes DEF FollowedAt
<1>3. m \in Nodes /\ Within(p[1], m) /\ Resets(m, c) # {}
  BY <1>2 DEF ScopeSet
<1>4. Scopes(p[1], c) = s
  BY SameScopes
<1>5. \A x \in S : Cloned(x) /\ x \in Nodes /\ Resets(x, c) # {}
  BY PlaceWithin, ClonedAround DEF ScopeSet
<1>6. \A x \in S : ValueAt(x, c, p) = ReadValue(x, c, p)
  <2> SUFFICES ASSUME NEW x \in S PROVE ValueAt(x, c, p) = ReadValue(x, c, p)
    OBVIOUS
  <2> HIDE DEF S
  <2>1. Initial(x, c) = InitialValue(x, c)
    BY <1>5, SameBeginning
  <2>2. Counts(x, c) = ReadCounts(x, c)
    BY SameCounts
  <2>3. QED
    BY <2>1, <2>2 DEF ValueAt, ReadValue
<1>7. ResetBefore(p, c)
  <2>1. Open[m] <= At(p)
    BY <1>3, PlaceWithin, ElementsNest DEF Within
  <2>2. QED
    BY <1>2, <1>3, <2>1 DEF ResetBefore
<1>8. s # <<>>
  BY <1>3, LeftIs
<1>9. ReadNumbers(p, c) # <<>>
  BY <1>8, NumbersAre
<1>10. RefNumbers(p, c) = ReadNumbers(p, c)
  <2>1. RefNumbers(p, c) = [i \in DOMAIN s |-> ValueAt(s[i], c, p)]
    BY <1>4 DEF RefNumbers
  <2>2. ReadNumbers(p, c) = [i \in DOMAIN s |-> ReadValue(s[i], c, p)]
    BY DEF ReadNumbers
  <2> HIDE DEF s, S
  <2>3. \A i \in DOMAIN s : s[i] \in S
    BY <1>1 DEF InOrder
  <2>4. QED
    BY <1>6, <2>1, <2>2, <2>3
<1>11. QED
  BY <1>7, <1>9, <1>10 DEF NumbersRead

\* Each token shows what CSS says of it,
LEMMA SamePart ==
  ASSUME TypeInv, NEW p \in Places, Cloned(p[1]), Orderly(p), NEW i \in DOMAIN TokensOf(p),
         TokensOf(p)[i] \in Tokens
  PROVE  ReadShown(p, i) = <<RefPart(p, i)>>
<1> DEFINE t == TokensOf(p)[i]
           e == RefPart(p, i)
<1>1. /\ IsNumber(t) => Followed(t.name)
      /\ t.type \in {"open", "close"} => style[p[1]].quotes > 1
  BY DEF Orderly
<1>2. CASE t.type \in {"counter", "counters"}
  <2>1. Followed(t.name) /\ Uses(p, t.name)
    BY <1>1, <1>2 DEF IsNumber, Uses
  <2>2. NumbersRead(p, t.name)
    BY <2>1, SameNumbers
  <2>3. Shows(p, t)
    BY <2>2 DEF Shows, NumbersRead
  <2>4. ReadPart(p, i) = e
    <3>1. CASE t.type = "counter"
      BY <2>2, <3>1 DEF ReadPart, RefPart, NumbersRead
    <3>2. CASE t.type = "counters"
      BY <2>2, <3>2 DEF ReadPart, RefPart, NumbersRead
    <3>3. QED
      BY <1>2, <3>1, <3>2
  <2>5. QED
    BY <2>3, <2>4 DEF ReadShown
<1>3. CASE t.type \in {"open", "close"}
  <2> DEFINE quotes == style[p[1]].quotes
             pairs == quotes \div 2
  <2>1. quotes \in Nat /\ quotes > 1 /\ (quotes % 2 = 0 \/ quotes = 1)
    <3>1. style[p[1]] \in Styles[p[1]] /\ p[1] \in Nodes
      BY PlaceWithin DEF TypeInv
    <3>2. QED
      BY <1>1, <1>3, <3>1, StylesAssumption
  <2>2. pairs # 0
    BY <2>1
  <2>3. Shows(p, t)
    BY <1>3 DEF Shows
  <2> HIDE DEF quotes
  <2>4. ReadPart(p, i) = e
    <3>1. CASE t.type = "open"
      BY <2>2, <3>1 DEF ReadPart, RefPart, quotes
    <3>2. CASE t.type = "close"
      BY <2>2, <3>2 DEF ReadPart, RefPart, quotes
    <3>3. QED
      BY <1>3, <3>1, <3>2
  <2>5. QED
    BY <2>3, <2>4 DEF ReadShown
<1>4. CASE t.type \in {"string", "url", "attr"}
  BY <1>4 DEF ReadShown, Shows, ReadPart, RefPart
<1>5. QED
  BY <1>2, <1>3, <1>4, TokenKinds

\* and so do all of them.
LEMMA ReadAsReference ==
  ASSUME TypeInv, NEW p \in Places, Cloned(p[1]), Orderly(p)
  PROVE  ReadContent(p) = RefContent(p)
<1> DEFINE T == TokensOf(p)
           m == Len(T)
           texts == [i \in DOMAIN T |-> ReadShown(p, i)]
           v == RefContent(p)
           S == {v[i] : i \in 1..m}
<1>1. T \in Seq(Tokens)
  <2>1. p[1] \in Nodes /\ p[2] \in {"before", "after"}
    BY PlaceWithin
  <2>2. style[p[1]] \in Styles[p[1]]
    BY <2>1 DEF TypeInv
  <2>3. style[p[1]].before.tokens \in Seq(Readable) /\ style[p[1]].after.tokens \in Seq(Readable)
    BY <2>1, <2>2, StylesAssumption
  <2>4. T \in Seq(Readable)
    BY <2>1, <2>3 DEF TokensOf
  <2>5. QED
    BY <2>4, ReadableParsed
<1>2. m \in Nat /\ DOMAIN T = 1..m /\ \A i \in 1..m : T[i] \in Tokens
  BY <1>1
<1>3. \A i \in 1..m : ReadShown(p, i) = <<RefPart(p, i)>>
  BY <1>2, SamePart
<1>4. v = [i \in 1..m |-> RefPart(p, i)]
  BY <1>2 DEF RefContent
<1>5. ReadContent(p) = Joined(texts, <<>>)
  BY DEF ReadContent
<1>6. texts = [i \in 1..m |-> ReadShown(p, i)]
  BY <1>2
<1> HIDE DEF T, m, texts, v
<1>7. v \in [1..m -> S] /\ Len(v) = m /\ Len(texts) = m
  BY <1>2, <1>4, <1>6
<1>8. \A i \in 1..m : texts[i] = <<v[i]>>
  BY <1>3, <1>4, <1>6
<1> HIDE DEF S
<1>9. v \in Seq(S)
  BY <1>2, <1>7
<1>10. Joined(texts, <<>>) = v
  BY <1>7, <1>8, <1>9, Singletons
<1>11. QED
  BY <1>5, <1>10 DEF v

\* For every document and all styles, what ::before and ::after show of counters that the
\* walk can follow and of marks from a list is what CSS says of their place.
THEOREM ShowsTheReference == Spec => []ContentIsReference
<1>1. WalkInv => ContentIsReference
  <2> SUFFICES ASSUME WalkInv, ~thrown, NEW p \in Places, Visited(p), Orderly(p)
               PROVE  content[p] = RefContent(p)
    BY DEF ContentIsReference
  <2>1. TypeInv /\ content[p] = ReadContent(p)
    BY DEF WalkInv, ScopesInv, ShownKept
  <2>2. Cloned(p[1])
    BY DEF Visited
  <2>3. QED
    BY <2>1, <2>2, ReadAsReference
<1>2. QED
  BY <1>1, WalkInvariant, PTL

\* For every document and all styles, the clone throws at a pseudo-element exactly if it
\* has a mark, or the digits of a counter, that is missing where it stands.
THEOREM ThrowsForAReason == Spec => []ThrowsExactlyThere
<1>1. WalkInv => ThrowsExactlyThere
  BY DEF WalkInv, ShownKept, ThrowsExactlyThere
<1>2. QED
  BY <1>1, WalkInvariant, PTL
=============================================================================
