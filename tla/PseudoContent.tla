---------------------------- MODULE PseudoContent ----------------------------
(***************************************************************************)
(* DocumentCloner.cloneNode walks a document and gives ::before and        *)
(* ::after elements their text: CSS counters and quotation marks, whose    *)
(* state (pseudoContentData) lives as long as the walk.  An element is an  *)
(* interval of positions of the document: Open[n] is where the walk enters *)
(* it, Close[n] where it leaves, and its descendants lie between the two.  *)
(* What throws in here rejects the whole screenshot.                       *)
(***************************************************************************)
EXTENDS Integers, Sequences, FiniteSets, SequencesExt, ContentTokens

CONSTANTS Nodes, Open, Close,
          Names,       \* counter names
          Styles       \* [Nodes -> set of style records]

ASSUME DocumentAssumption ==
  /\ IsFiniteSet(Nodes)
  /\ Open \in [Nodes -> Nat] /\ Close \in [Nodes -> Nat]
  /\ {Open[n] : n \in Nodes} \cup {Close[n] : n \in Nodes} = 1..(2 * Cardinality(Nodes))
  /\ \A n \in Nodes : Open[n] < Close[n]
  /\ \A m, n \in Nodes : Open[m] < Open[n] /\ Open[n] < Close[m] => Close[n] < Close[m]

\* A list of counters names each once, values are integers, what is written can be read
\* back, and quotation marks come in pairs; the keywords none and auto are taken for a
\* list of one mark.
ASSUME StylesAssumption ==
  \A n \in Nodes : \A s \in Styles[n] :
    /\ \A i, j \in DOMAIN s.reset : s.reset[i].name = s.reset[j].name => i = j
    /\ \A i \in DOMAIN s.reset : s.reset[i].name \in Names /\ s.reset[i].value \in Int
    /\ \A i \in {s.before.incr, s.after.incr} : i # <<>> => i[2] \in Int
    /\ s.before.tokens \in Seq(Readable) /\ s.after.tokens \in Seq(Readable)
    /\ s.quotes \in Nat \ {0} /\ (s.quotes % 2 = 0 \/ s.quotes = 1)

End == 2 * Cardinality(Nodes) + 1
Within(n, m) == Open[m] <= Open[n] /\ Close[n] <= Close[m]

(* A style has `reset', a sequence of counters and initial values; `before' *)
(* and `after', each NoContent or an increment with the tokens the author   *)
(* wrote, which the code reads off the text the browser makes of them;      *)
(* `quotes', the number of its quotation marks; and `ignored'.              *)
NoContent == [incr |-> <<>>, tokens |-> <<>>]

VARIABLES
  style,       \* [Nodes -> style record]
  pos,         \* the position the walk has come to
  known,       \* names that have an array in data.counters
  counters,    \* [Names -> Seq(Int)], innermost value last
  quoteDepth,
  content,     \* what each pseudo-element shows: a sequence of parts
  thrown       \* an exception has left cloneNode

vars == <<style, pos, known, counters, quoteDepth, content, thrown>>
Places == Nodes \X {"before", "after"}

Init ==
  /\ style \in [Nodes -> UNION {Styles[n] : n \in Nodes}]
  /\ \A n \in Nodes : style[n] \in Styles[n]
  /\ pos = 1
  /\ known = {}
  /\ counters = [c \in Names |-> <<>>]
  /\ quoteDepth = 0
  /\ content = [p \in Places |-> <<>>]
  /\ thrown = FALSE

-----------------------------------------------------------------------------
\* The counters of a list are told apart by commas, which a browser does not write: the
\* whole list is one entry, of which the first name and value are taken.
Resets(n, c) == {i \in DOMAIN style[n].reset : i = 1 /\ style[n].reset[i].name = c}
InitialValue(n, c) == style[n].reset[CHOOSE i \in Resets(n, c) : TRUE].value

\* A bug: a counter that is reset again loses the values around.
parseCounterResetInPlace(n) ==
  [c \in Names |-> IF Resets(n, c) = {} THEN counters[c] ELSE <<InitialValue(n, c)>>]
\* parseCounterReset: each reset opens a value of its own.
parseCounterReset(n) ==
  [c \in Names |-> IF Resets(n, c) = {} THEN counters[c] ELSE Append(counters[c], InitialValue(n, c))]

\* popCounters: the innermost value of each counter that n has reset leaves.
popCounters(n, cs) ==
  [c \in Names |-> IF Resets(n, c) = {} THEN cs[c] ELSE Front(cs[c])]

\* counter-increment of a pseudo-element: the innermost value.  Where all have left, it
\* is NaN that is put beside the array, and shows as little as undefined.
Increment(cs, names, i) ==
  IF i = <<>> \/ i[1] \notin names \/ cs[i[1]] = <<>> THEN cs
  ELSE [cs EXCEPT ![i[1]][Len(cs[i[1]])] = @ + i[2]]

\* A bug: off by one at the end of the list.
getQuotePast(quotes, isOpening, depth) ==
  LET idx == 2 * depth
      at == IF idx > quotes THEN quotes - 2 ELSE idx
  IN  IF isOpening THEN at ELSE at + 1
\* getQuote: the index of the mark in style.quotes; outside it is undefined,
\* and using that throws.
getQuote(quotes, isOpening, depth) ==
  LET idx == 2 * depth
      at == IF idx >= quotes THEN quotes - 2 ELSE idx
  IN  IF isOpening THEN at ELSE at + 1

\* Counter styles whose text needs no digit of the number: a sign; letters for what there
\* is of it, so nothing or the word undefined.  All others take a code point from it.
WithoutDigits ==
  {"disc", "circle", "square", "lower-roman", "upper-roman", "armenian", "lower-armenian",
   "upper-armenian", "georgian", "cjk-ideographic", "trad-chinese-informal",
   "trad-chinese-formal", "simp-chinese-informal", "simp-chinese-formal", "japanese-informal",
   "japanese-formal", "korean-hangul-formal", "korean-hanja-informal", "korean-hanja-formal",
   "cjk-decimal", "cjk-earthly-branch", "cjk-heavenly-stem", "hiragana", "hiragana-iroha",
   "katakana", "katakana-iroha"}
NeedsDigits(t) == t.format = <<>> \/ t.format[1] \notin WithoutDigits

\* One token of resolvePseudoContent, from the state r of its loop.
Token(r, t, cs, names, quotes) ==
  LET show(part) == [r EXCEPT !.parts = Append(@, part)]
      quote(opening, depth) ==
        LET i == getQuote(quotes, opening, depth)
        IN  [show([type |-> "quote", index |-> i]) EXCEPT
               !.bad = @ \/ i \notin 0..(quotes - 1)]
      numbers(values, glue) == show([type |-> "numbers", values |-> values, glue |-> glue,
                                     format |-> t.format])
  IN  CASE t.type \in {"string", "attr", "url"} -> show(t)
        [] t.type = "counter" /\ t.name \in names ->
             IF cs[t.name] # <<>> THEN numbers(<<Last(cs[t.name])>>, <<>>)
             ELSE IF NeedsDigits(t) THEN [r EXCEPT !.bad = TRUE]   \* no code point is undefined
             ELSE show([type |-> "missing", format |-> t.format])
        [] t.type = "counters" /\ t.name \in names ->
             numbers(cs[t.name], t.glue)
        [] t.type = "open" -> [quote(TRUE, r.depth) EXCEPT !.depth = r.depth + 1]
        [] t.type = "close" -> [quote(FALSE, r.depth - 1) EXCEPT !.depth = r.depth - 1]
        [] OTHER -> r

\* resolvePseudoContent: increments, then builds the content.
resolvePseudoContent(n, which, cs, names) ==
  LET s == style[n][which]
      tokens == parseContent(Content(s.tokens))
      counted == Increment(cs, names, s.incr)
      shown[i \in 0..Len(tokens)] ==
        IF i = 0 THEN [parts |-> <<>>, depth |-> quoteDepth, bad |-> FALSE]
        ELSE Token(shown[i - 1], tokens[i], counted, names, style[n].quotes)
      built == shown[Len(tokens)]
  IN  IF s.tokens = <<>> THEN [parts |-> <<>>, depth |-> quoteDepth, bad |-> FALSE, cs |-> cs]
      ELSE [parts |-> built.parts, depth |-> built.depth, bad |-> built.bad, cs |-> counted]

Walking == ~thrown /\ pos < End

\* cloneNode up to its children.
Enter(n) ==
  LET names == known \cup {c \in Names : Resets(n, c) # {}}
      r == resolvePseudoContent(n, "before", parseCounterReset(n), names)
  IN  /\ Walking /\ pos = Open[n] /\ ~style[n].ignored
      /\ known' = names
      /\ counters' = r.cs
      /\ quoteDepth' = r.depth
      /\ content' = [content EXCEPT ![<<n, "before">>] = r.parts]
      /\ thrown' = r.bad
      /\ pos' = pos + 1
      /\ UNCHANGED style

\* A script, or an element the page or the caller wants ignored: the parent's
\* loop passes over the whole of it.
Ignore(n) ==
  /\ Walking /\ pos = Open[n] /\ style[n].ignored
  /\ pos' = Close[n] + 1
  /\ UNCHANGED <<style, known, counters, quoteDepth, content, thrown>>

\* cloneNode after its children.
Leave(n) ==
  LET r == resolvePseudoContent(n, "after", counters, known)
  IN  /\ Walking /\ pos = Close[n]
      /\ counters' = IF r.bad THEN r.cs ELSE popCounters(n, r.cs)
      /\ quoteDepth' = r.depth
      /\ content' = [content EXCEPT ![<<n, "after">>] = r.parts]
      /\ thrown' = r.bad
      /\ pos' = pos + 1
      /\ UNCHANGED <<style, known>>

Next == \E n \in Nodes : Enter(n) \/ Ignore(n) \/ Leave(n)
Spec == Init /\ [][Next]_vars
-----------------------------------------------------------------------------
(* The reference: what a pseudo-element should show, read off the document   *)
(* that is cloned, which is without the elements that are ignored.           *)

Cloned(n) == \A m \in Nodes : Within(n, m) => ~style[m].ignored
At(p) == IF p[2] = "before" THEN Open[p[1]] ELSE Close[p[1]]
PlaceAt(i) == CHOOSE p \in Places : At(p) = i
Positions == 1..(2 * Cardinality(Nodes))
TokensOf(p) == style[p[1]][p[2]].tokens
\* The sum of f over 1..k, for each k.
Sums(f) == LET sum[k \in 0..Len(f)] == IF k = 0 THEN 0 ELSE sum[k - 1] + f[k] IN sum

\* The elements of S, outermost first: the i-th is the one that is i-th to open.
Rank(S, m) == Cardinality({x \in S : Open[x] <= Open[m]})
Nested(S) == [i \in 1..Cardinality(S) |-> CHOOSE m \in S : Rank(S, m) = i]
\* CSS: the counter c that m creates is seen in m, and in what follows among the children
\* of its parent up to the next of them that creates another.
Listed(m, c) == {i \in DOMAIN style[m].reset : style[m].reset[i].name = c}
Creates(m, c) == Cloned(m) /\ Listed(m, c) # {}
Ancestors(n) == {m \in Nodes : Within(n, m) /\ m # n}
Covers(m, n, c) ==
  /\ Creates(m, c)
  /\ \E a \in Nodes :
       /\ Within(n, a) /\ Ancestors(a) = Ancestors(m) /\ Open[m] <= Open[a]
       /\ \A l \in Nodes : Creates(l, c) /\ Ancestors(l) = Ancestors(m) /\ Open[l] <= Open[a]
                            => Open[l] <= Open[m]
Initial(m, c) == style[m].reset[CHOOSE i \in Listed(m, c) : TRUE].value
\* The elements whose counter c is seen at n, outermost first.
Scopes(n, c) == Nested({m \in Nodes : Covers(m, n, c)})
IsScope(m, q, c) == LET s == Scopes(q[1], c) IN s # <<>> /\ m = Last(s)
\* What q adds to the innermost value of c.
Increments(q, c) == LET i == style[q[1]][q[2]].incr
                    IN  IF TokensOf(q) # <<>> /\ i # <<>> /\ i[1] = c THEN i[2] ELSE 0
\* The value that the scope of m holds for p: its initial value and the
\* increments up to p of the places whose innermost scope it is.
Counts(m, c) == [i \in Positions |->
                   LET q == PlaceAt(i)
                   IN  IF Cloned(q[1]) /\ IsScope(m, q, c) THEN Increments(q, c) ELSE 0]
ValueAt(m, c, p) == Initial(m, c) + Sums(Counts(m, c))[At(p)]
RefNumbers(p, c) == LET s == Scopes(p[1], c) IN [i \in DOMAIN s |-> ValueAt(s[i], c, p)]

\* Opening minus closing marks among the first tokens of p, in each element, and
\* before the i-th token of p.
Nesting(t) == CASE t.type = "open" -> 1 [] t.type = "close" -> -1 [] OTHER -> 0
Marks(p) == Sums([i \in DOMAIN TokensOf(p) |-> Nesting(TokensOf(p)[i])])
AllMarks == [i \in Positions |->
               LET q == PlaceAt(i) IN IF Cloned(q[1]) THEN Marks(q)[Len(TokensOf(q))] ELSE 0]
DepthBefore(p, i) == Sums(AllMarks)[At(p) - 1] + Marks(p)[i - 1]

Visited(p) == Cloned(p[1]) /\ At(p) < pos
RefPart(p, i) ==
  LET t == TokensOf(p)[i]
      pairs == style[p[1]].quotes \div 2
      pair(depth) == IF depth < pairs THEN 2 * depth ELSE 2 * (pairs - 1)
  IN  CASE t.type = "counter" ->
             [type |-> "numbers", values |-> <<Last(RefNumbers(p, t.name))>>, glue |-> <<>>,
              format |-> t.format]
        [] t.type = "counters" ->
             [type |-> "numbers", values |-> RefNumbers(p, t.name), glue |-> t.glue,
              format |-> t.format]
        [] t.type = "open" -> [type |-> "quote", index |-> pair(DepthBefore(p, i))]
        [] t.type = "close" -> [type |-> "quote", index |-> pair(DepthBefore(p, i) - 1) + 1]
        [] OTHER -> t
RefContent(p) == [i \in DOMAIN TokensOf(p) |-> RefPart(p, i)]

\* What the walk can follow of CSS: a counter that no list has but in front, and that is
\* used only inside elements that create it and out of sight of those of their siblings.
IsNumber(t) == t.type \in {"counter", "counters"}
Uses(p, c) == \/ Increments(p, c) # 0
              \/ \E i \in DOMAIN TokensOf(p) : IsNumber(TokensOf(p)[i]) /\ TokensOf(p)[i].name = c
Followed(c) ==
  /\ \A n \in Nodes : Creates(n, c) => Listed(n, c) = {1}
  /\ \A p \in Places : Cloned(p[1]) /\ Uses(p, c) =>
       /\ \E m \in Nodes : Within(p[1], m) /\ Creates(m, c)
       /\ \A m \in Nodes : Covers(m, p[1], c) => Within(p[1], m)
\* A place whose numbers are all of such counters, and whose marks are of a list.
Orderly(p) ==
  \A i \in DOMAIN TokensOf(p) : LET t == TokensOf(p)[i] IN
    /\ IsNumber(t) => Followed(t.name)
    /\ t.type \in {"open", "close"} => style[p[1]].quotes > 1

\* What the code throws at: digits of a counter that some element has reset and none
\* around p does, a closing mark without an opening one, a mark that the list does not have.
ResetBefore(p, c) == \E m \in Nodes : Cloned(m) /\ Open[m] <= At(p) /\ Resets(m, c) # {}
HasLeft(p, c) == ResetBefore(p, c) /\ \A m \in Nodes : Within(p[1], m) => Resets(m, c) = {}
Fatal(p) ==
  \E i \in DOMAIN TokensOf(p) : LET t == TokensOf(p)[i] IN
    \/ t.type = "counter" /\ HasLeft(p, t.name) /\ NeedsDigits(t)
    \/ t.type = "close" /\ DepthBefore(p, i) <= 0
    \/ t.type = "close" /\ style[p[1]].quotes = 1 /\ DepthBefore(p, i) = 1
    \/ t.type = "open" /\ style[p[1]].quotes = 1 /\ DepthBefore(p, i) # 0

-----------------------------------------------------------------------------
(* Properties.                                                              *)

\* Wherever the walk is, a counter has one value for each of the elements around
\* it that reset it, as parseCounterReset reads their lists, so nothing leaks from one
\* part of the document to the next, however elements are nested or ignored.
ScopesMatchPath ==
  ~thrown => \A c \in Names :
    Len(counters[c]) =
      Cardinality({n \in Nodes : /\ Cloned(n) /\ Open[n] < pos /\ pos <= Close[n]
                                 /\ Resets(n, c) # {}})

\* A pseudo-element of counters that the walk can follow shows what CSS says of its place
\* in the document: the values of the counters it sees and quotation marks of the right
\* nesting, though the walk keeps them in arrays that change as it goes.
ContentIsReference ==
  ~thrown => \A p \in Places : Visited(p) /\ Orderly(p) => content[p] = RefContent(p)

\* The walk throws at a pseudo-element exactly if something Fatal is at its place, and
\* clones every other document, those it shows wrong numbers of as well.
ThrowsExactlyThere ==
  /\ thrown => \E p \in Places : Visited(p) /\ Fatal(p)
  /\ ~thrown => \A p \in Places : Visited(p) => ~Fatal(p)
=============================================================================
