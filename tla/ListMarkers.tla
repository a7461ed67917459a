----------------------------- MODULE ListMarkers -----------------------------
(***************************************************************************)
(* How html2canvas numbers list items and writes their numbers, as it      *)
(* parses the elements of a document in order: the owner of an item and    *)
(* its index (NodeContainer, getListOwner), and the text of a number in a  *)
(* counter style (createCounterText), which counter() in generated content *)
(* uses too.                                                               *)
(*                                                                         *)
(* A text is a sequence of symbols, told by the number each stands for in  *)
(* its system: a digit, a letter's place, a Roman or Hebrew number, a      *)
(* Chinese numeral or power of ten.                                        *)
(***************************************************************************)
EXTENDS Integers, Sequences, FiniteSets, SequencesExt

CONSTANTS Docs      \* sequences of elements
VARIABLES doc,
          k,         \* how many elements have been parsed
          listItems, \* the items of each element, 0 for BODY
          listIndex, \* the number of each element that is an item
          markers    \* the text of each marker, <<>> or <<text>>
vars == <<doc, k, listItems, listIndex, markers>>

\* An element comes after its parent, 0 for BODY, and what is inside a hidden one
\* is not parsed; a list has a start, and an item a value of its own, or none.
ASSUME DocsAssumption ==
  \A d \in Docs :
    /\ d \in Seq([tag : STRING, parent : Nat, start : Seq(Int), value : Seq(Int), type : STRING,
                  visible : BOOLEAN])
    /\ \A n \in DOMAIN d : d[n].parent < n /\ Len(d[n].start) <= 1 /\ Len(d[n].value) <= 1
    /\ \A n \in DOMAIN d : d[n].parent # 0 => d[d[n].parent].visible

Init ==
  /\ doc \in Docs
  /\ k = 0
  /\ listItems = [n \in 0..Len(doc) |-> <<>>]
  /\ listIndex = [n \in DOMAIN doc |-> 0]
  /\ markers = [n \in DOMAIN doc |-> <<>>]

-----------------------------------------------------------------------------
(* Counter styles.                                                          *)

Numeric == {"decimal", "arabic-indic", "bengali", "cambodian", "khmer", "devanagari", "gujarati",
            "gurmukhi", "kannada", "lao", "mongolian", "myanmar", "oriya", "persian", "tamil",
            "telugu", "thai", "tibetan"}
\* Letters by their code points, and by a string of symbols.
Range1 == [t \in {"lower-greek", "lower-alpha", "upper-alpha"} |-> IF t = "lower-greek" THEN 25 ELSE 26]
Symbols == [t \in {"cjk-decimal", "cjk-earthly-branch", "cjk-heavenly-stem", "hiragana",
                   "hiragana-iroha", "katakana", "katakana-iroha"} |->
              CASE t \in {"cjk-decimal", "cjk-heavenly-stem"} -> 10 [] t = "cjk-earthly-branch" -> 12
                [] t \in {"hiragana", "katakana"} -> 48 [] OTHER -> 47]

Descending(power, from) == [i \in 1..(from) |-> (from + 1 - i) * power]
\* A bug: the symbols that subtract are left out.
RomanPlain == <<1000, 500, 100, 50, 10, 5, 1>>
ROMAN == <<1000, 900, 500, 400, 100, 90, 50, 40, 10, 9, 5, 4, 1>>
ARMENIAN == Descending(1000, 9) \o Descending(100, 9) \o Descending(10, 9) \o Descending(1, 9)
GEORGIAN == Descending(1000, 10) \o Descending(100, 9) \o Descending(10, 9) \o Descending(1, 9)
Additive ==
  [t \in {"lower-roman", "upper-roman", "armenian", "upper-armenian", "lower-armenian", "georgian"} |->
     CASE t \in {"lower-roman", "upper-roman"} -> [max |-> 3999, integers |-> ROMAN]
       [] t = "georgian" -> [max |-> 19999, integers |-> GEORGIAN]
       [] OTHER -> [max |-> 9999, integers |-> ARMENIAN]]

\* The flags of the styles that spell a number out.
CJK ==
  [t \in {"cjk-ideographic", "trad-chinese-informal", "simp-chinese-informal", "trad-chinese-formal",
          "simp-chinese-formal", "japanese-informal", "japanese-formal", "korean-hangul-formal",
          "korean-hanja-informal", "korean-hanja-formal"} |->
     CASE t \in {"japanese-informal", "korean-hanja-informal"} -> {}
       [] t \in {"trad-chinese-formal", "simp-chinese-formal"} ->
            {"zeros", "ten", "high", "hundred"}
       [] t \in {"japanese-formal", "korean-hangul-formal", "korean-hanja-formal"} ->
            {"zeros", "ten", "high"}
       [] OTHER -> {"ten", "high", "hundred"}]

\* The LIST_STYLE_TYPE of the value of list-style-type; what has no case of its own,
\* as lower-latin, is none.  Two have the number 22, of which the switch of
\* createCounterText reaches the first.
Named == {"disc", "circle", "square", "decimal-leading-zero", "ethiopic-numeric", "malayalam",
          "disclosure-open", "disclosure-closed"}
           \cup Numeric \cup DOMAIN Range1 \cup DOMAIN Symbols \cup DOMAIN Additive \cup DOMAIN CJK
parseListStyleType(type) ==
  IF type = "hebrew" THEN "gurmukhi" ELSE IF type \in Named THEN type ELSE "none"

Abs(n) == IF n < 0 THEN -n ELSE n
Times(integer, n) == [i \in 1..n |-> integer]
Text(system, minus, symbols) == [system |-> system, minus |-> minus, symbols |-> symbols]

\* A bug: without the step back before each letter, a letter stands for zero.
resolveFromZero(value, length, isNumeric) ==
  LET string[v \in 0..value] ==
        (IF v \div length >= 1 THEN string[v \div length] ELSE <<>>) \o <<v % length>>
  IN  string[value]
\* The symbols of |value|.  The code divides into fractions and takes the floor
\* of each; of -1, which letters have for 0, there is no symbol.
createCounterStyleWithSymbolResolver(value, length, isNumeric) ==
  LET string[v \in 0..value] ==
        LET w == IF isNumeric THEN v ELSE v - 1
        IN  (IF w \div length >= 1 THEN string[w \div length] ELSE <<>>)
               \o <<IF w < 0 THEN w ELSE w % length>>
  IN  string[value]

createCounterStyleFromRange(value, type, length, isNumeric) ==
  Text(type, value < 0, createCounterStyleWithSymbolResolver(Abs(value), length, isNumeric))
\* The sign is lost.
createCounterStyleFromSymbols(value, type) ==
  Text(type, FALSE, createCounterStyleWithSymbolResolver(Abs(value), Symbols[type], FALSE))

\* Within the range of the style, of which 1 is the least.
createAdditiveCounter(value, type) ==
  LET integers == Additive[type].integers
      \* what is left and what is written after the first i symbols
      write[i \in 0..Len(integers)] ==
        IF i = 0 THEN [left |-> value, out |-> <<>>]
        ELSE LET before == write[i - 1]
             IN  [left |-> before.left % integers[i],
                  out  |-> before.out \o Times(integers[i], before.left \div integers[i])]
  IN  Text(type, FALSE, write[Len(integers)].out)

\* From the last digit to the first.  A zero is written when there is something
\* behind it, be it the suffix; a one, where the style says so.
createCJKCounter(value, type, appendSuffix) ==
  LET Coefficient(power) == (Abs(value) \div power) % 10
      WritesOne(power) ==
        \/ power = 1
        \/ power = 10 /\ "ten" \in CJK[type]
        \/ power = 10 /\ "high" \in CJK[type] /\ value > 100
        \/ power > 10 /\ "hundred" \in CJK[type]
      Unit(power) == IF power > 1 THEN <<power>> ELSE <<>>
      Put(power, string) ==
        LET c == Coefficient(power)
        IN  IF Abs(value) < power THEN string
            ELSE IF c = 0 /\ "zeros" \in CJK[type] /\ (string # <<>> \/ appendSuffix)
              THEN <<0>> \o string
            ELSE IF c > 1 \/ (c = 1 /\ WritesOne(power)) THEN <<c>> \o Unit(power) \o string
            ELSE IF c = 1 THEN Unit(power) \o string ELSE string
  IN  Text(type, value < 0,
           IF value = 0 THEN <<0>> ELSE Put(1000, Put(100, Put(10, Put(1, <<>>)))))

\* A suffix takes two of the characters that are counted, a sign one.
WithLeadingZero(text, appendSuffix) ==
  LET length == Len(text.symbols) + (IF text.minus THEN 1 ELSE 0)
                  + (IF appendSuffix THEN 2 ELSE 0)
  IN  IF length < 4 THEN [text EXCEPT !.symbols = <<0>> \o @] ELSE text

createCounterText(value, styleType, appendSuffix) ==
  LET type == parseListStyleType(styleType)
      Decimal(v) == createCounterStyleFromRange(v, "decimal", 10, TRUE)
  IN  CASE type \in {"disc", "circle", "square"} -> Text(type, FALSE, <<>>)
        [] type = "decimal-leading-zero" -> WithLeadingZero(Decimal(value), appendSuffix)
        [] type \in Numeric -> createCounterStyleFromRange(value, type, 10, TRUE)
        [] type \in DOMAIN Range1 -> createCounterStyleFromRange(value, type, Range1[type], FALSE)
        [] type \in DOMAIN Symbols -> createCounterStyleFromSymbols(value, type)
        [] type \in DOMAIN Additive ->
             IF value \in 1..Additive[type].max THEN createAdditiveCounter(value, type) ELSE Decimal(value)
        [] type \in DOMAIN CJK ->
             IF value \in -9999..9999 THEN createCJKCounter(value, type, appendSuffix)
             ELSE createCounterStyleFromSymbols(value, "cjk-decimal")
        [] OTHER -> Decimal(value)

-----------------------------------------------------------------------------
(* Items.                                                                   *)

\* The nearest list around an element, or else its parent.
getListOwner(n) ==
  LET list[p \in 0..n] == IF p = 0 \/ doc[p].tag \in {"OL", "UL", "MENU"} THEN p ELSE list[doc[p].parent]
      owner == list[doc[n].parent]
  IN  IF owner = 0 THEN doc[n].parent ELSE owner

\* A bug: the number follows that of the item before in the document.
indexAfter(n, items) ==
  IF doc[n].value # <<>> THEN doc[n].value[1]
  ELSE IF items = <<>> THEN (IF doc[getListOwner(n)].start # <<>> THEN doc[getListOwner(n)].start[1] ELSE 1)
  ELSE listIndex[Max({m \in 1..(n - 1) : doc[m].tag = "LI"})] + 1
\* The index of a new item n of an owner that has items already.
indexOf(n, items) ==
  LET owner == getListOwner(n)
  IN  IF doc[n].value # <<>> THEN doc[n].value[1]
      ELSE IF items # <<>> THEN listIndex[Last(items)] + 1
      ELSE IF owner # 0 /\ doc[owner].start # <<>> THEN doc[owner].start[1]
      ELSE 1

\* The next element becomes a NodeContainer and, if it is an item to be seen,
\* gets its marker.
ParseElement ==
  /\ k < Len(doc)
  /\ k' = k + 1
  /\ LET n == k + 1
         owner == getListOwner(n)
     IN  IF doc[n].tag = "LI"
           THEN /\ listIndex' = [listIndex EXCEPT ![n] = indexOf(n, listItems[owner])]
                /\ listItems' = [listItems EXCEPT ![owner] = Append(@, n)]
                /\ markers' = IF doc[n].visible /\ parseListStyleType(doc[n].type) # "none"
                     THEN [markers EXCEPT ![n] = <<createCounterText(listIndex'[n], doc[n].type, TRUE)>>]
                     ELSE markers
           ELSE UNCHANGED <<listItems, listIndex, markers>>
  /\ UNCHANGED doc

Next == ParseElement
Spec == Init /\ [][Next]_vars

-----------------------------------------------------------------------------
(* Properties.                                                              *)

Items == {n \in 1..k : doc[n].tag = "LI"}

\* HTML numbers an item by the last one before it, in the same list, that has
\* a value of its own, or by the start of the list, and the items since,
\* however the lists are nested and hidden items included.  (Not of lists that are
\* `reversed', which HTML counts down: the code reads only start and value.)
NumberingIsHTML ==
  \A n \in Items :
    LET before == {m \in Items : m <= n /\ getListOwner(m) = getListOwner(n)}
        valued == {m \in before : doc[m].value # <<>>}
        owner == getListOwner(n)
        start == IF owner # 0 /\ doc[owner].start # <<>> THEN doc[owner].start[1] ELSE 1
    IN  listIndex[n] =
          IF valued = {} THEN start + Cardinality(before) - 1
          ELSE LET last == CHOOSE m \in valued : \A o \in valued : o <= m
               IN  doc[last].value[1] + Cardinality({m \in before : m > last})

\* What a reader of a text takes it for: symbols by their place, or added up; and a number
\* spelled out, in which a power of ten counts as often as the digit before it says.
Positional(symbols, base, least) ==
  LET sum[i \in 0..Len(symbols)] == IF i = 0 THEN 0 ELSE sum[i - 1] * base + symbols[i] + least
  IN  sum[Len(symbols)]
Added(symbols) == Positional(symbols, 1, 0)
SpelledOut(symbols) ==
  Added([i \in 1..Len(symbols) |->
           IF symbols[i] >= 10
             THEN symbols[i] * (IF i > 1 /\ symbols[i - 1] < 10 THEN symbols[i - 1] ELSE 1)
             ELSE IF i = Len(symbols) THEN symbols[i] ELSE 0])
Reads(text) ==
  LET size == CASE text.system \in Numeric -> Positional(text.symbols, 10, 0)
                [] text.system \in DOMAIN Range1 -> Positional(text.symbols, Range1[text.system], 1)
                [] text.system \in DOMAIN Symbols -> Positional(text.symbols, Symbols[text.system], 1)
                [] text.system \in DOMAIN Additive -> Added(text.symbols)
                [] OTHER -> SpelledOut(text.symbols)
  IN  IF text.minus THEN -size ELSE size
\* The numbers a style can write: letters have no zero, strings of symbols no
\* sign, cjk-decimal counts as if its digits were letters, and the styles that
\* spell out leave to it what is beyond 9999.
Writes(type, n) ==
  CASE type \in DOMAIN Range1 -> n # 0
    [] type \in DOMAIN Symbols -> n > 0 /\ type # "cjk-decimal"
    [] type \in DOMAIN CJK -> n \in -9999..9999
    [] OTHER -> type \notin {"disc", "circle", "square", "hebrew"}
\* The marker of an item and the text of a counter say its number, also where a
\* style falls back on another.
MarkersReadBack ==
  \A n \in Items : markers[n] # <<>> /\ Writes(doc[n].type, listIndex[n]) =>
    /\ Reads(markers[n][1]) = listIndex[n]
    /\ Reads(createCounterText(listIndex[n], doc[n].type, FALSE)) = listIndex[n]
    /\ markers[n][1].system \in {doc[n].type, "decimal"}
    /\ ToSet(markers[n][1].symbols) \subseteq Nat

\* A Roman, Armenian or Georgian number is written as it is written by hand:
\* from the greatest symbol down, and no more than three times the same.
AdditiveIsCanonical ==
  \A n \in Items : markers[n] # <<>> /\ markers[n][1].system \in DOMAIN Additive =>
    LET s == markers[n][1].symbols
    IN  /\ \A i, j \in DOMAIN s : i < j => s[i] >= s[j] /\ (j > i + 2 => s[i] > s[j])
        /\ doc[n].type \notin {"lower-roman", "upper-roman"} => \A i, j \in DOMAIN s : i < j => s[i] > s[j]
=============================================================================
