------------------------------ MODULE LineBreak ------------------------------
(***************************************************************************)
(* How html2canvas cuts a text node into the pieces it draws: the classes  *)
(* and rules of UAX #14 (LineBreaker), the pieces between the breaks       *)
(* (breakWords), and the part of the node each is measured by              *)
(* (parseTextBounds).                                                      *)
(*                                                                         *)
(* A character is a record: its line breaking class, whether it is a Han   *)
(* ideograph, one of the four dashes css treats apart, of the two          *)
(* ideographic planes, or white space to trim(), its UTF-16 units, and the *)
(* units of what stood in the node before text-transform.                  *)
(***************************************************************************)
EXTENDS Integers, Sequences, FiniteSets, FiniteSetsExt, SequencesExt

CONSTANTS Texts, Options

VARIABLES text, options,
          nextIndex, lastEnd,   \* of the LineBreaker
          words,                \* what it has returned: [from, to, required]
          offset, bounds,       \* of parseTextBounds, and the words it has measured
          measured, failed
vars == <<text, options, nextIndex, lastEnd, words, offset, bounds, measured, failed>>

OptionRecords == [lineBreak : {"strict", "normal"}, wordBreak : {"normal", "keep-all", "break-all"},
                  letterRendering : BOOLEAN, rangeBounds : BOOLEAN, decorated : BOOLEAN]
ASSUME OptionsAssumption == Options \subseteq OptionRecords

\* What the trie of the classes says of the characters the code singles out: the
\* dashes U+2010 and U+2013 are BA, U+301C and U+30A0 are NS, and U+4E00 to U+9FFF ID.
\* White space are the space and what ends lines, and of other classes the tab, the
\* no-break spaces and the ideographic space.
Characters == [class : STRING, han : BOOLEAN, dash : BOOLEAN, plane : BOOLEAN, space : BOOLEAN,
               units : Nat, data : Nat]
ASSUME TextsAssumption ==
  \A t \in Texts : /\ t \in Seq(Characters)
                   /\ \A i \in DOMAIN t : /\ t[i].han => t[i].class = "ID"
                                          /\ t[i].dash => t[i].class \in {"BA", "NS"}
                                          /\ t[i].class \in {"SP", "BK", "CR", "LF"} => t[i].space

Init ==
  /\ text \in Texts /\ options \in Options
  /\ nextIndex = 0 /\ lastEnd = 0 /\ words = <<>>
  /\ offset = 0 /\ bounds = <<>> /\ measured = 0 /\ failed = FALSE

-----------------------------------------------------------------------------
(* Classes.                                                                 *)

ALPHABETICS == {"AL", "HL"}
HARD_LINE_BREAKS == {"BK", "CR", "LF", "NL"}
SPACE == {"SP", "ZW"}
PREFIX_POSTFIX == {"PR", "PO"}
LINE_BREAKS == HARD_LINE_BREAKS \cup SPACE
KOREAN_SYLLABLE_BLOCK == {"JL", "JV", "JT", "H2", "H3"}
HYPHEN == {"HY", "BA"}
Ideographic == {"ID", "EB", "EM"}

\* What stands for the class of a character that is no mark.
resolvedClass(c, lineBreak) ==
  CASE c.dash /\ lineBreak = "normal" -> "CB"
    [] c.class = "CJ" -> IF lineBreak = "strict" THEN "NS" ELSE "ID"
    [] c.class \in {"SA", "AI"} -> "AL"
    [] c.class = "XX" -> IF c.plane THEN "ID" ELSE "AL"
    [] OTHER -> c.class

\* The class of each character and the index of its base: a combining mark has
\* those of the character before it (LB9), unless that breaks lines (LB10).
codePointsToCharacterClasses(t, lineBreak) ==
  LET cs[i \in DOMAIN t] ==
        IF t[i].class \notin {"CM", "ZWJ"} THEN [type |-> resolvedClass(t[i], lineBreak), base |-> i]
        ELSE IF i > 1 /\ cs[i - 1].type \notin LINE_BREAKS THEN cs[i - 1]
        ELSE [type |-> "AL", base |-> i]
  IN  cs

\* A bug: break-all leaves the opportunities next to digits as they were.
widenedLetters(type) == IF type \in {"AL", "SA"} THEN "ID" ELSE type
\* break-all and break-word take letters and digits for ideographs.
widened(type) == IF type \in {"NU", "AL", "SA"} THEN "ID" ELSE type

cssFormattedClasses(t, o) ==
  LET cs == codePointsToCharacterClasses(t, o.lineBreak)
  IN  IF o.wordBreak = "break-all"
        THEN [i \in DOMAIN t |-> [type |-> widened(cs[i].type), base |-> cs[i].base]]
        ELSE cs
forbiddenBreakpoints(t, o) == {i \in DOMAIN t : o.wordBreak = "keep-all" /\ t[i].han}

-----------------------------------------------------------------------------
(* _lineBreakAtIndex: the rules for a break after the i-th character.       *)

Type(cs, i) == IF i \in DOMAIN cs THEN cs[i].type ELSE "none"
previousNonSpaceClassType(cs, i) ==
  LET before == {j \in 1..i : cs[j].type # "SP"}
  IN  IF before = {} THEN "none" ELSE cs[Max(before)].type
nextNonSpaceClassType(cs, i) ==
  LET after == {j \in (i + 1)..Len(cs) : cs[j].type # "SP"}
  IN  IF after = {} THEN "none" ELSE cs[Min(after)].type
isAdjacentWithSpaceIgnored(as, b, cs, i) ==
  previousNonSpaceClassType(cs, i) \in as /\ nextNonSpaceClassType(cs, i) = b

\* LB8a to LB17, which hold even before the break after a space.
ForbiddenAfterSpaces(t, cs, i) ==
  LET current == Type(cs, i)
      next == Type(cs, i + 1)
  IN  \/ t[i].class = "ZWJ" /\ next \in Ideographic
      \/ "WJ" \in {current, next}
      \/ current = "GL"
      \/ next = "GL" /\ current \notin {"SP", "BA", "HY"}
      \/ next \in {"CL", "CP", "EX", "IS", "SY"}
      \/ previousNonSpaceClassType(cs, i) = "OP"
      \/ isAdjacentWithSpaceIgnored({"QU"}, "OP", cs, i)
      \/ isAdjacentWithSpaceIgnored({"CL", "CP"}, "NS", cs, i)
      \/ isAdjacentWithSpaceIgnored({"B2"}, "B2", cs, i)

\* LB21 to LB24: hyphens, ellipses, letters with digits and prefixes.
ForbiddenBetween(cs, i) ==
  LET before == Type(cs, i - 1)
      current == Type(cs, i)
      next == Type(cs, i + 1)
  IN  \/ next \in {"BA", "HY", "NS"} \/ current = "BB"
      \/ before = "HL" /\ current \in HYPHEN
      \/ current = "SY" /\ next = "HL"
      \/ next = "IN" /\ current \in ALPHABETICS \cup Ideographic \cup {"IN", "EX", "NU"}
      \/ next \in ALPHABETICS /\ current = "NU"
      \/ current \in ALPHABETICS /\ next = "NU"
      \/ current = "PR" /\ next \in Ideographic
      \/ current \in Ideographic /\ next = "PO"
      \/ current \in ALPHABETICS /\ next \in PREFIX_POSTFIX
      \/ current \in PREFIX_POSTFIX /\ next \in ALPHABETICS

\* NU (NU | SY | IS)*, ending with the i-th character.
EndsNumber(cs, i) ==
  \E j \in 1..i : cs[j].type = "NU" /\ \A k \in (j + 1)..i : cs[k].type \in {"SY", "IS"}
\* A bug: the closing bracket of a number is not looked behind.
ForbiddenInDigits(cs, i) ==
  LET current == Type(cs, i)
      next == Type(cs, i + 1)
  IN  \/ current \in PREFIX_POSTFIX \cup {"OP", "HY"} /\ next = "NU"
      \/ current \in PREFIX_POSTFIX /\ next \in {"OP", "HY"} /\ Type(cs, i + 2) = "NU"
      \/ next \in {"NU", "SY", "IS", "CL", "CP", "PR", "PO"} /\ EndsNumber(cs, i)
\* LB25.
ForbiddenInNumber(cs, i) ==
  LET current == Type(cs, i)
      next == Type(cs, i + 1)
  IN  \/ current \in PREFIX_POSTFIX /\ next = "NU"
      \/ current \in PREFIX_POSTFIX /\ next \in {"OP", "HY"} /\ Type(cs, i + 2) = "NU"
      \/ current \in {"OP", "HY"} /\ next = "NU"
      \/ current = "NU" /\ next \in {"NU", "SY", "IS"}
      \/ next \in {"NU", "SY", "IS", "CL", "CP"} /\ EndsNumber(cs, i)
      \/ next \in PREFIX_POSTFIX /\ EndsNumber(cs, IF current \in {"CL", "CP"} THEN i - 1 ELSE i)

\* LB26 to LB30 and LB30b: Korean syllables, letters, brackets, emoji.
ForbiddenInWord(cs, i) ==
  LET current == Type(cs, i)
      next == Type(cs, i + 1)
  IN  \/ current = "JL" /\ next \in {"JL", "JV", "H2", "H3"}
      \/ current \in {"JV", "H2"} /\ next \in {"JV", "JT"}
      \/ current \in {"JT", "H3"} /\ next = "JT"
      \/ current \in KOREAN_SYLLABLE_BLOCK /\ next \in {"IN", "PO"}
      \/ current = "PR" /\ next \in KOREAN_SYLLABLE_BLOCK
      \/ current \in ALPHABETICS \cup {"IS"} /\ next \in ALPHABETICS
      \/ current \in ALPHABETICS \cup {"NU"} /\ next = "OP"
      \/ current = "CP" /\ next \in ALPHABETICS \cup {"NU"}
      \/ current = "EB" /\ next = "EM"

\* A bug: all flags in a row are one.
ForbiddenInRow(cs, i) == Type(cs, i) = "RI" /\ Type(cs, i + 1) = "RI"
\* LB30a: counted from the base of the character before the break.
ForbiddenInFlag(cs, i) ==
  /\ Type(cs, i) = "RI" /\ Type(cs, i + 1) = "RI"
  /\ LET j == cs[i].base
         first == CHOOSE f \in 1..j : (\A k \in f..(j - 1) : cs[k].type = "RI")
                                       /\ (f = 1 \/ cs[f - 1].type # "RI")
     IN  (j - first + 1) % 2 # 0

\* "no", "yes" or "must", in the order of the rules.
_lineBreakAtIndex(t, cs, forbidden, i) ==
  LET current == Type(cs, i)
      next == Type(cs, i + 1)
  IN  IF i < Len(t) /\ cs[i + 1].base = 1 THEN "no"
      ELSE IF i \in forbidden THEN "no"
      ELSE IF current = "CR" /\ next = "LF" THEN "no"
      ELSE IF current \in HARD_LINE_BREAKS THEN "must"
      ELSE IF next \in LINE_BREAKS THEN "no"
      ELSE IF previousNonSpaceClassType(cs, i) = "ZW" THEN "yes"
      ELSE IF ForbiddenAfterSpaces(t, cs, i) THEN "no"
      ELSE IF current = "SP" THEN "yes"
      ELSE IF "QU" \in {current, next} THEN "no"
      ELSE IF "CB" \in {current, next} THEN "yes"
      ELSE IF \/ ForbiddenBetween(cs, i) \/ ForbiddenInNumber(cs, i)
              \/ ForbiddenInWord(cs, i) \/ ForbiddenInFlag(cs, i) THEN "no"
      ELSE "yes"

-----------------------------------------------------------------------------
(* LineBreaker, breakWords and parseTextBounds.                             *)

\* next() of the LineBreaker, called by breakWords until it is done.
next ==
  /\ ~options.letterRendering /\ nextIndex < Len(text)
  /\ LET cs == cssFormattedClasses(text, options)
         At(i) == _lineBreakAtIndex(text, cs, forbiddenBreakpoints(text, options), i)
         end == Min({i \in (nextIndex + 1)..Len(text) : At(i) # "no" \/ i = Len(text)})
     IN  /\ nextIndex' = end /\ lastEnd' = end
         /\ words' = Append(words, [from |-> lastEnd + 1, to |-> end, required |-> At(end) = "must"])
  /\ UNCHANGED <<text, options, offset, bounds, measured, failed>>

\* With letter-spacing every character is a piece of its own.
Letters ==
  /\ options.letterRendering /\ nextIndex < Len(text)
  /\ nextIndex' = Len(text) /\ lastEnd' = Len(text)
  /\ words' = [i \in DOMAIN text |-> [from |-> i, to |-> i, required |-> FALSE]]
  /\ UNCHANGED <<text, options, offset, bounds, measured, failed>>

\* text.length, and the length of what the node has for it, in UTF-16 units.
Span(lengths, from, to) == Cardinality(UNION {{i} \X (1..lengths[i]) : i \in from..to})
Units(from, to) == Span([i \in DOMAIN text |-> text[i].units], from, to)
Data(from, to) == Span([i \in DOMAIN text |-> text[i].data], from, to)
Blank(w) == \A i \in w.from..w.to : text[i].space

\* A bug: the offset moves on with the words that are measured only.
MeasureShown ==
  /\ nextIndex = Len(text) /\ measured < Len(words) /\ ~failed
  /\ LET w == words[measured + 1]
     IN  IF Blank(w) /\ ~options.decorated THEN UNCHANGED <<offset, bounds, failed>>
         ELSE /\ failed' = (offset + Units(w.from, w.to) > Data(1, Len(text)))
              /\ bounds' = Append(bounds, [word |-> w, at |-> offset, length |-> Units(w.from, w.to)])
              /\ offset' = offset + Units(w.from, w.to)
  /\ measured' = measured + 1
  /\ UNCHANGED <<text, options, nextIndex, lastEnd, words>>
\* One round of parseTextBounds: a word that shows is measured, by a range over
\* its part of the node or by splitting it off; a range or a split that passes
\* the end of the node throws, and the parse with it.
Measure ==
  /\ nextIndex = Len(text) /\ measured < Len(words) /\ ~failed
  /\ LET w == words[measured + 1]
         length == Units(w.from, w.to)
         shows == ~Blank(w) \/ options.decorated
     IN  /\ failed' = ((shows \/ ~options.rangeBounds) /\ offset + length > Data(1, Len(text)))
         /\ bounds' = IF shows /\ ~failed'
                        THEN Append(bounds, [word |-> w, at |-> offset, length |-> length]) ELSE bounds
         /\ offset' = offset + length
  /\ measured' = measured + 1
  /\ UNCHANGED <<text, options, nextIndex, lastEnd, words>>

Next == next \/ Letters \/ Measure
Spec == Init /\ [][Next]_vars

-----------------------------------------------------------------------------
(* Properties.                                                              *)

Broken == nextIndex = Len(text)
BreaksWith(o) ==
  LET cs == cssFormattedClasses(text, o)
  IN  {i \in 1..(Len(text) - 1) : _lineBreakAtIndex(text, cs, forbiddenBreakpoints(text, o), i) # "no"}
Class(i) == text[i].class
IsMark(i) == Class(i) \in {"CM", "ZWJ"}
NoMarks == \A i \in DOMAIN text : ~IsMark(i)

\* Every word that shows is measured by its own part of the node, in UTF-16
\* units, and the parse fails only where text-transform made the text longer.
BoundsAreOwn ==
  /\ (\A i \in DOMAIN text : text[i].units = text[i].data) =>
       \A k \in DOMAIN bounds :
          /\ bounds[k].at = Data(1, bounds[k].word.from - 1)
          /\ bounds[k].length = Data(bounds[k].word.from, bounds[k].word.to)
  /\ failed => \E i \in DOMAIN text : text[i].units > text[i].data
  /\ Broken /\ measured = Len(words) /\ ~failed =>
       {b.word : b \in ToSet(bounds)} = {w \in ToSet(words) : ~Blank(w) \/ options.decorated}

\* (PR | PO)? (OP | HY)? NU (NU | SY | IS)* (CL | CP)? (PR | PO)?
IsNumber(i, j) ==
  \E p \in 0..1, b \in 0..1, c \in 0..1, s \in 0..1 :
    LET m == i + p + b
        n == j - c - s
    IN  /\ m <= n
        /\ p = 1 => Class(i) \in PREFIX_POSTFIX
        /\ b = 1 => Class(i + p) \in {"OP", "HY"}
        /\ Class(m) = "NU" /\ \A k \in m..n : Class(k) \in {"NU", "SY", "IS"}
        /\ c = 1 => Class(n + 1) \in {"CL", "CP"}
        /\ s = 1 => Class(j) \in PREFIX_POSTFIX
\* LB25: a number is never broken, sign, brackets and unit included, though the
\* rules look at pairs and at what is behind them.
NumbersStay ==
  options.wordBreak # "break-all" /\ NoMarks =>
    \A i, j \in DOMAIN text : i < j /\ IsNumber(i, j) =>
      \A k \in DOMAIN words : words[k].to \notin i..(j - 1) \/ options.letterRendering

\* LB30a: a row of regional indicators breaks after each second one and nowhere
\* else, wherever it begins.
FlagsArePaired ==
  NoMarks /\ ~options.letterRendering /\ Broken =>
    \A i, j \in DOMAIN text :
      /\ i < j /\ \A k \in i..j : Class(k) = "RI"
      /\ i = 1 \/ Class(i - 1) # "RI"
      => \A k \in i..(j - 1) : (\E w \in ToSet(words) : w.to = k) <=> (k - i) % 2 = 1

\* break-all only adds breaks and keep-all only takes some away, of those next
\* to ideographs: the rules for the classes they put in place of others never
\* forbid what the others allow.
WordBreakIsMonotone ==
  NoMarks /\ words = <<>> =>
    LET With(wb) == BreaksWith([options EXCEPT !.wordBreak = wb])
    IN  /\ With("normal") \subseteq With("break-all")
        /\ With("keep-all") = With("normal") \ {i \in DOMAIN text : text[i].han}
        /\ \A i \in 1..(Len(text) - 1) :
             Class(i) \in {"AL", "NU"} /\ Class(i + 1) \in {"AL", "NU"} => i \in With("break-all")

\* "LB9 Do not break a combining character sequence": a mark stays with the
\* character it combines with.
MarksStay ==
  ~options.letterRendering =>
    \A w \in ToSet(words) : w.from > 1 /\ IsMark(w.from) => Class(w.from - 1) \in LINE_BREAKS
=============================================================================
