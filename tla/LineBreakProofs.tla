--------------------------- MODULE LineBreakProofs ---------------------------
(***************************************************************************)
(* Proofs about LineBreak for every text.                                   *)
(*                                                                         *)
(* The words are contiguous and end exactly where _lineBreakAtIndex lets    *)
(* them (EndsAreBreaks), so what a property says of the words is a matter of *)
(* the rules alone; and the offset of parseTextBounds is always the length  *)
(* of the words it has passed (Measured).                                   *)
(***************************************************************************)
EXTENDS LineBreak, FiniteSetTheorems, SequenceTheorems, WellFoundedInduction, TLAPS

\* A set of numbers that is not empty has a least element: induction over Nat.
LEMMA LeastOfSet ==
  ASSUME NEW S \in SUBSET Nat, S # {}
  PROVE  Min(S) \in S /\ \A y \in S : Min(S) <= y
<1>1. \E x \in S : \A y \in S : ~(<<y, x>> \in OpToRel(<, Nat))
  BY WFMin, NatLessThanWellFounded
<1>2. \A x, y \in Nat : <<y, x>> \in OpToRel(<, Nat) <=> y < x
  BY DEF OpToRel
<1>3. \A x, y \in Nat : ~(y < x) <=> x <= y
  OBVIOUS
<1>4. \E x \in S : \A y \in S : x <= y
  BY <1>1, <1>2, <1>3
<1>5. QED
  BY <1>4 DEF Min
-----------------------------------------------------------------------------
(***************************************************************************)
(* Lengths in UTF-16 units.                                                 *)
(***************************************************************************)
Places(lengths, from, to) == UNION {{i} \X (1..lengths[i]) : i \in from..to}

LEMMA PlacesFinite ==
  ASSUME NEW n \in Nat, NEW lengths \in [1..n -> Nat],
         NEW from \in 1..(n + 1), NEW to \in 0..n
  PROVE  /\ IsFiniteSet(Places(lengths, from, to))
         /\ Span(lengths, from, to) \in Nat
         /\ \A p : p \in Places(lengths, from, to) <=>
                   \E i \in from..to : \E u \in 1..lengths[i] : p = <<i, u>>
<1> DEFINE row == [i \in from..to |-> {i} \X (1..lengths[i])]
           rows == {{i} \X (1..lengths[i]) : i \in from..to}
<1>1. IsFiniteSet(from..to)
  BY FS_Interval
<1>2. row \in Surjection(from..to, rows)
  BY DEF Surjection
<1>3. IsFiniteSet(rows)
  BY <1>1, <1>2, FS_Surjection
<1>4. \A T \in rows : IsFiniteSet(T)
  <2> SUFFICES ASSUME NEW i \in from..to PROVE IsFiniteSet({i} \X (1..lengths[i]))
    OBVIOUS
  <2>1. lengths[i] \in Nat
    OBVIOUS
  <2>2. IsFiniteSet(1..lengths[i])
    BY <2>1, FS_Interval
  <2>3. QED
    BY <2>2, FS_Singleton, FS_Product
<1>5. IsFiniteSet(Places(lengths, from, to))
  BY <1>3, <1>4, FS_UNION DEF Places
<1>6. Span(lengths, from, to) \in Nat
  BY <1>5, FS_CardinalityType DEF Span, Places
<1>7. \A p : p \in Places(lengths, from, to) <=>
              \E i \in from..to : \E u \in 1..lengths[i] : p = <<i, u>>
  BY DEF Places
<1>8. QED
  BY <1>5, <1>6, <1>7

\* Lengths add up.
LEMMA SpanSplit ==
  ASSUME NEW n \in Nat, NEW lengths \in [1..n -> Nat], NEW m \in 0..n, NEW to \in m..n
  PROVE  Span(lengths, 1, m) + Span(lengths, m + 1, to) = Span(lengths, 1, to)
<1> DEFINE A == Places(lengths, 1, m)
           B == Places(lengths, m + 1, to)
           C == Places(lengths, 1, to)
<1>1. /\ IsFiniteSet(A) /\ Span(lengths, 1, m) \in Nat
      /\ \A p : p \in A <=> \E i \in 1..m : \E u \in 1..lengths[i] : p = <<i, u>>
  <2>1. m \in 0..n /\ 1 \in 1..(n + 1)
    OBVIOUS
  <2>2. QED
    BY <2>1, PlacesFinite
<1>2. /\ IsFiniteSet(B) /\ Span(lengths, m + 1, to) \in Nat
      /\ \A p : p \in B <=> \E i \in (m + 1)..to : \E u \in 1..lengths[i] : p = <<i, u>>
  <2>1. to \in 0..n /\ m + 1 \in 1..(n + 1)
    OBVIOUS
  <2>2. QED
    BY <2>1, PlacesFinite
<1>3. \A p : p \in C <=> \E i \in 1..to : \E u \in 1..lengths[i] : p = <<i, u>>
  <2>1. to \in 0..n /\ 1 \in 1..(n + 1)
    OBVIOUS
  <2>2. QED
    BY <2>1, PlacesFinite
<1>4. /\ Span(lengths, 1, m) = Cardinality(A)
      /\ Span(lengths, m + 1, to) = Cardinality(B)
      /\ Span(lengths, 1, to) = Cardinality(C)
  BY DEF Span, Places
<1> HIDE DEF A, B, C
<1>5. C = A \union B
  <2>1. \A i : i \in 1..to <=> i \in 1..m \/ i \in (m + 1)..to
    OBVIOUS
  <2>2. \A p : p \in C <=> p \in A \/ p \in B
    BY <1>1, <1>2, <1>3, <2>1
  <2>3. QED
    BY <2>2
<1>6. A \intersect B = {}
  <2>1. \A i \in 1..m : i \notin (m + 1)..to
    OBVIOUS
  <2>2. \A p : ~(p \in A /\ p \in B)
    BY <1>1, <1>2, <2>1
  <2>3. QED
    BY <2>2
<1>7. Cardinality(C) = Cardinality(A) + Cardinality(B) - Cardinality({})
  BY <1>1, <1>2, <1>5, <1>6, FS_Union
<1>8. Cardinality({}) = 0
  BY FS_EmptySet
<1>9. QED
  BY <1>1, <1>2, <1>4, <1>7, <1>8

\* Longer characters and more of them make a longer text.
LEMMA SpanMonotone ==
  ASSUME NEW n \in Nat, NEW a \in [1..n -> Nat], NEW b \in [1..n -> Nat],
         NEW from \in 1..(n + 1), NEW to \in 0..n, NEW last \in to..n,
         \A i \in 1..n : a[i] <= b[i]
  PROVE  Span(a, from, to) <= Span(b, from, last)
<1>1. \A p : p \in Places(a, from, to) <=>
              \E i \in from..to : \E u \in 1..a[i] : p = <<i, u>>
  BY PlacesFinite
<1>2. /\ IsFiniteSet(Places(b, from, last))
      /\ \A p : p \in Places(b, from, last) <=>
                \E i \in from..last : \E u \in 1..b[i] : p = <<i, u>>
  <2>1. last \in 0..n
    OBVIOUS
  <2>2. QED
    BY <2>1, PlacesFinite
<1>3. \A i \in from..to : i \in from..last /\ \A u \in 1..a[i] : u \in 1..b[i]
  OBVIOUS
<1>4. Places(a, from, to) \subseteq Places(b, from, last)
  BY <1>1, <1>2, <1>3
<1>5. QED
  BY <1>2, <1>4, FS_Subset DEF Span, Places
-----------------------------------------------------------------------------
(***************************************************************************)
(* The words.                                                               *)
(***************************************************************************)
Words == [from : Nat, to : Nat, required : BOOLEAN]
End(k) == IF k = 0 THEN 0 ELSE words[k].to
BreaksAfter(i) == _lineBreakAtIndex(text, cssFormattedClasses(text, options),
                                    forbiddenBreakpoints(text, options), i) # "no"

BreakerType ==
  /\ text \in Texts /\ options \in Options
  /\ nextIndex \in 0..Len(text) /\ lastEnd = nextIndex
  /\ words \in Seq(Words)
Contiguous ==
  /\ \A k \in DOMAIN words : words[k].from = End(k - 1) + 1 /\ words[k].to \in words[k].from..nextIndex
  /\ End(Len(words)) = nextIndex
EndsAreBreaks ==
  ~options.letterRendering =>
    \A i \in 1..nextIndex : (\E k \in DOMAIN words : words[k].to = i) <=>
                            (BreaksAfter(i) \/ i = Len(text))
BreakerInv == BreakerType /\ Contiguous /\ EndsAreBreaks

LEMMA InitBreaker == Init => BreakerInv
<1> SUFFICES ASSUME Init PROVE BreakerInv
  OBVIOUS
<1>1. text \in Seq(Characters)
  BY TextsAssumption DEF Init
<1>2. Len(text) \in Nat
  BY <1>1
<1>3. BreakerType
  BY <1>2 DEF Init, BreakerType
<1>4. Contiguous /\ EndsAreBreaks
  BY DEF Init, Contiguous, EndsAreBreaks, End
<1>5. QED
  BY <1>3, <1>4 DEF BreakerInv

LEMMA TextType ==
  ASSUME BreakerType
  PROVE  /\ text \in Seq(Characters) /\ Len(text) \in Nat /\ DOMAIN text = 1..Len(text)
         /\ options \in OptionRecords
  BY TextsAssumption, OptionsAssumption DEF BreakerType

LEMMA NextBreaker ==
  ASSUME BreakerInv, next
  PROVE  BreakerInv'
<1> USE DEF BreakerInv
<1> DEFINE At(i) == _lineBreakAtIndex(text, cssFormattedClasses(text, options),
                                      forbiddenBreakpoints(text, options), i)
           stops == {i \in (nextIndex + 1)..Len(text) : At(i) # "no" \/ i = Len(text)}
           end == Min(stops)
           word == [from |-> lastEnd + 1, to |-> end, required |-> At(end) = "must"]
<1>1. /\ nextIndex < Len(text) /\ ~options.letterRendering
      /\ nextIndex' = end /\ lastEnd' = end /\ words' = Append(words, word)
      /\ UNCHANGED <<text, options>>
  BY DEF next
<1>2. /\ Len(text) \in Nat /\ nextIndex \in Nat /\ lastEnd = nextIndex
      /\ words \in Seq(Words)
  BY TextType DEF BreakerType
<1>3. end \in stops /\ \A i \in stops : end <= i
  <2>1. stops \in SUBSET Nat
    BY <1>2
  <2>2. Len(text) \in stops
    BY <1>1, <1>2
  <2> HIDE DEF stops
  <2>3. QED
    BY <2>1, <2>2, LeastOfSet
<1>4. /\ end \in (nextIndex + 1)..Len(text)
      /\ BreaksAfter(end) \/ end = Len(text)
      /\ \A i \in (nextIndex + 1)..(end - 1) : ~(BreaksAfter(i) \/ i = Len(text))
  <2>1. end \in (nextIndex + 1)..Len(text) /\ (At(end) # "no" \/ end = Len(text))
    BY <1>3
  <2>2. ASSUME NEW i \in (nextIndex + 1)..(end - 1) PROVE i \notin stops
    BY <1>2, <1>3, <2>1, <2>2
  <2>3. ASSUME NEW i \in (nextIndex + 1)..(end - 1)
        PROVE  ~(At(i) # "no" \/ i = Len(text))
    BY <1>2, <2>1, <2>2, <2>3
  <2>4. QED
    BY <2>1, <2>3 DEF BreaksAfter
<1>5. word.to = end /\ word.from = nextIndex + 1 /\ word \in Words
  BY <1>2, <1>4 DEF Words
<1> HIDE DEF end, word
<1>6. /\ words' \in Seq(Words) /\ Len(words') = Len(words) + 1
      /\ words'[Len(words) + 1] = word
      /\ \A k \in DOMAIN words : words'[k] = words[k]
      /\ DOMAIN words' = 1..(Len(words) + 1) /\ DOMAIN words = 1..Len(words)
      /\ Len(words) \in Nat
  BY <1>1, <1>2, <1>5
<1>7. BreakerType'
  BY <1>1, <1>2, <1>4, <1>6 DEF BreakerType
<1>8. Contiguous'
  <2>1. End(Len(words)) = nextIndex
    BY DEF Contiguous
  <2>2. ASSUME NEW k \in 0..Len(words) PROVE End(k)' = End(k)
    BY <1>6, <2>2 DEF End
  <2>3. End(Len(words))' = end
    BY <1>5, <1>6 DEF End
  <2>4. ASSUME NEW k \in DOMAIN words'
        PROVE  words'[k].from = End(k - 1)' + 1 /\ words'[k].to \in words'[k].from..end
    <3>1. CASE k \in DOMAIN words
      <4>1. words'[k] = words[k] /\ End(k - 1)' = End(k - 1)
        BY <1>6, <2>2, <3>1
      <4>2. words[k].to \in words[k].from..nextIndex /\ words[k] \in Words
        BY <1>2, <3>1 DEF Contiguous
      <4>3. QED
        BY <1>2, <1>4, <3>1, <4>1, <4>2 DEF Contiguous, Words
    <3>2. CASE k = Len(words) + 1
      BY <1>2, <1>4, <1>5, <1>6, <2>1, <2>2, <3>2
    <3>3. QED
      BY <1>6, <2>4, <3>1, <3>2
  <2>5. QED
    BY <1>1, <2>3, <2>4 DEF Contiguous
<1>9. EndsAreBreaks'
  <2>1. \A i : BreaksAfter(i)' <=> BreaksAfter(i)
    BY <1>1 DEF BreaksAfter
  <2>2. ASSUME NEW i \in 1..end
        PROVE  (\E k \in DOMAIN words' : words'[k].to = i) <=>
               (BreaksAfter(i) \/ i = Len(text))
    <3>1. CASE i \in 1..nextIndex
      <4>1. word.to # i
        BY <1>2, <1>4, <1>5, <3>1
      <4>2. (\E k \in DOMAIN words' : words'[k].to = i) <=>
            (\E k \in DOMAIN words : words[k].to = i)
        BY <1>6, <4>1
      <4>3. QED
        BY <1>1, <3>1, <4>2 DEF EndsAreBreaks
    <3>2. CASE i \in (nextIndex + 1)..(end - 1)
      <4>1. \A k \in DOMAIN words : words[k].to <= nextIndex
        BY <1>2 DEF Contiguous, Words
      <4>2. \A k \in DOMAIN words' : words'[k].to # i
        BY <1>2, <1>4, <1>5, <1>6, <3>2, <4>1
      <4>3. QED
        BY <1>4, <3>2, <4>2
    <3>3. CASE i = end
      BY <1>4, <1>5, <1>6, <3>3
    <3>4. QED
      BY <1>2, <1>4, <2>2, <3>1, <3>2, <3>3
  <2>3. QED
    BY <1>1, <2>1, <2>2 DEF EndsAreBreaks
<1>10. QED
  BY <1>7, <1>8, <1>9

LEMMA LettersBreaker ==
  ASSUME BreakerInv, Letters
  PROVE  BreakerInv'
<1> USE DEF BreakerInv
<1>1. /\ options.letterRendering
      /\ nextIndex' = Len(text) /\ lastEnd' = Len(text)
      /\ words' = [i \in DOMAIN text |-> [from |-> i, to |-> i, required |-> FALSE]]
      /\ UNCHANGED <<text, options>>
  BY DEF Letters
<1>2. Len(text) \in Nat /\ DOMAIN text = 1..Len(text)
  BY TextType
<1>3. words' \in Seq(Words) /\ Len(words') = Len(text) /\ DOMAIN words' = 1..Len(text)
  BY <1>1, <1>2 DEF Words
<1>4. BreakerType' /\ EndsAreBreaks'
  BY <1>1, <1>2, <1>3 DEF BreakerType, EndsAreBreaks
<1>5. Contiguous'
  BY <1>1, <1>2, <1>3 DEF Contiguous, End
<1>6. QED
  BY <1>4, <1>5

LEMMA BreakerInvariant == Spec => []BreakerInv
<1>1. BreakerInv /\ [Next]_vars => BreakerInv'
  <2> SUFFICES ASSUME BreakerInv, [Next]_vars PROVE BreakerInv'
    OBVIOUS
  <2>1. CASE UNCHANGED <<text, options, nextIndex, lastEnd, words>>
    BY <2>1 DEF BreakerInv, BreakerType, Contiguous, EndsAreBreaks, End, BreaksAfter
  <2>2. QED
    BY <2>1, NextBreaker, LettersBreaker DEF Next, Measure, vars
<1>2. QED
  BY <1>1, InitBreaker, PTL DEF Spec
-----------------------------------------------------------------------------
(***************************************************************************)
(* parseTextBounds.                                                         *)
(***************************************************************************)
Shows(w) == ~Blank(w) \/ options.decorated
BoundOf(w) == [word |-> w, at |-> Units(1, w.from - 1), length |-> Units(w.from, w.to)]

MeasuredType ==
  /\ measured \in 0..Len(words) /\ (measured > 0 => nextIndex = Len(text))
  /\ failed \in BOOLEAN
MeasuredBounds ==
  /\ bounds \in Seq({BoundOf(w) : w \in Words})
  /\ offset = Units(1, End(measured))
  /\ \A k \in DOMAIN bounds : \E m \in 1..measured : bounds[k] = BoundOf(words[m])
  /\ failed => \E i \in DOMAIN text : text[i].units > text[i].data
  /\ ~failed => \A w : (\E k \in DOMAIN bounds : bounds[k].word = w) <=>
                       (\E m \in 1..measured : words[m] = w /\ Shows(w))
Measured == MeasuredType /\ MeasuredBounds

LengthsOf == [i \in DOMAIN text |-> text[i].units]
DataLengthsOf == [i \in DOMAIN text |-> text[i].data]

LEMMA LengthsType ==
  ASSUME BreakerType
  PROVE  /\ LengthsOf \in [1..Len(text) -> Nat] /\ DataLengthsOf \in [1..Len(text) -> Nat]
         /\ Len(text) \in Nat
         /\ \A a, b : Units(a, b) = Span(LengthsOf, a, b) /\ Data(a, b) = Span(DataLengthsOf, a, b)
<1>1. text \in Seq(Characters) /\ Len(text) \in Nat /\ DOMAIN text = 1..Len(text)
  BY TextType
<1>2. \A i \in 1..Len(text) : text[i].units \in Nat /\ text[i].data \in Nat
  <2>1. \A i \in 1..Len(text) : text[i] \in Characters
    BY <1>1
  <2>2. QED
    BY <2>1 DEF Characters
<1>3. QED
  BY <1>1, <1>2 DEF LengthsOf, DataLengthsOf, Units, Data

\* The length of the words before the m-th, and of the m-th, are parts of the text's.
LEMMA WordSpan ==
  ASSUME BreakerInv, NEW m \in 1..Len(words)
  PROVE  /\ words[m] \in Words /\ words[m].to \in 0..Len(text)
         /\ words[m].from = End(m - 1) + 1 /\ End(m - 1) \in 0..words[m].to
         /\ words[m].from - 1 = End(m - 1) /\ End(m) = words[m].to
         /\ Units(1, End(m - 1)) + Units(words[m].from, words[m].to) = Units(1, words[m].to)
<1>1. /\ words \in Seq(Words) /\ nextIndex \in 0..Len(text) /\ Len(text) \in Nat
  BY TextType DEF BreakerInv, BreakerType
<1>2. /\ words[m] \in Words /\ words[m].from \in Nat /\ words[m].to \in Nat
      /\ words[m].from = End(m - 1) + 1 /\ words[m].to \in words[m].from..nextIndex
  <2>1. words[m] \in Words /\ m \in DOMAIN words
    BY <1>1
  <2>2. QED
    BY <2>1 DEF BreakerInv, Contiguous, Words
<1>3. End(m - 1) \in Nat
  <2>1. CASE m = 1
    BY <2>1 DEF End
  <2>2. CASE m # 1
    <3>1. m - 1 \in 1..Len(words) /\ m - 1 # 0
      BY <1>1, <2>2
    <3>2. words[m - 1] \in Words
      BY <1>1, <3>1
    <3>3. QED
      BY <3>1, <3>2 DEF End, Words
  <2>3. QED
    BY <2>1, <2>2
<1>4. words[m].to \in 0..Len(text) /\ End(m - 1) \in 0..words[m].to
  BY <1>1, <1>2, <1>3
<1>5. End(m) = words[m].to
  BY DEF End
<1>6. Span(LengthsOf, 1, End(m - 1)) + Span(LengthsOf, End(m - 1) + 1, words[m].to)
        = Span(LengthsOf, 1, words[m].to)
  <2>1. End(m - 1) \in 0..Len(text) /\ words[m].to \in End(m - 1)..Len(text)
    BY <1>1, <1>3, <1>4
  <2>2. LengthsOf \in [1..Len(text) -> Nat]
    BY LengthsType DEF BreakerInv
  <2>3. QED
    BY <1>1, <2>1, <2>2, SpanSplit
<1>7. \A a, b : Units(a, b) = Span(LengthsOf, a, b)
  BY LengthsType DEF BreakerInv
<1>8. QED
  BY <1>2, <1>3, <1>4, <1>5, <1>6, <1>7

LEMMA InitMeasured == Init => Measured
<1> SUFFICES ASSUME Init PROVE Measured
  OBVIOUS
<1>1. MeasuredType
  <2>1. measured \in 0..Len(words) /\ ~(measured > 0)
    BY DEF Init
  <2>2. failed \in BOOLEAN
    BY DEF Init
  <2>3. QED
    BY <2>1, <2>2 DEF MeasuredType
<1>2. Units(1, 0) = 0
  <2>1. 1..0 = {}
    OBVIOUS
  <2>2. Units(1, 0) = Cardinality({})
    BY <2>1 DEF Units, Span
  <2>3. QED
    BY <2>2, FS_EmptySet
<1>3. MeasuredBounds
  BY <1>2 DEF Init, MeasuredBounds, End
<1>4. QED
  BY <1>1, <1>3 DEF Measured

LEMMA MeasureMeasured ==
  ASSUME BreakerInv, Measured, Measure
  PROVE  Measured'
<1> USE DEF Measured
<1> DEFINE m == measured + 1
           w == words[m]
<1>1. /\ nextIndex = Len(text) /\ measured < Len(words) /\ ~failed
      /\ measured' = m /\ UNCHANGED <<text, options, nextIndex, lastEnd, words>>
      /\ failed' = ((Shows(w) \/ ~options.rangeBounds)
                      /\ offset + Units(w.from, w.to) > Data(1, Len(text)))
      /\ bounds' = IF Shows(w) /\ ~failed'
                    THEN Append(bounds, [word |-> w, at |-> offset, length |-> Units(w.from, w.to)])
                    ELSE bounds
      /\ offset' = offset + Units(w.from, w.to)
  BY DEF Measure, Shows
<1>2. m \in 1..Len(words) /\ Len(words) \in Nat /\ measured \in Nat /\ m - 1 = measured
  BY <1>1 DEF BreakerInv, BreakerType, MeasuredType
<1>3. /\ w \in Words /\ w.to \in 0..Len(text) /\ w.from - 1 = End(measured) /\ End(m) = w.to
      /\ offset + Units(w.from, w.to) = Units(1, w.to)
      /\ offset = Units(1, w.from - 1)
  BY <1>2, WordSpan DEF MeasuredBounds
<1>4. \A a, b : Units(a, b)' = Units(a, b) /\ Data(a, b)' = Data(a, b)
  BY <1>1 DEF Units, Data
<1>5. MeasuredType'
  BY <1>1, <1>2 DEF MeasuredType
<1>6. offset' = Units(1, End(measured))'
  BY <1>1, <1>3, <1>4 DEF End
<1>7. \A v : BoundOf(v)' = BoundOf(v) /\ (Shows(v)' <=> Shows(v))
  BY <1>1, <1>4 DEF BoundOf, Shows, Blank
<1>8. bounds' = IF Shows(w) /\ ~failed' THEN Append(bounds, BoundOf(w)) ELSE bounds
  BY <1>1, <1>3 DEF BoundOf
<1> HIDE DEF m, w
<1>9. bounds \in Seq({BoundOf(v) : v \in Words}) /\ BoundOf(w) \in {BoundOf(v) : v \in Words}
  BY <1>3 DEF MeasuredBounds
<1>10. bounds' \in Seq({BoundOf(v) : v \in Words})
  BY <1>8, <1>9
<1>11. \A i \in 1..m : i \in 1..measured \/ i = m
  BY <1>2
<1>12. \A k \in DOMAIN bounds' : \/ k \in DOMAIN bounds /\ bounds'[k] = bounds[k]
                                \/ bounds'[k] = BoundOf(w)
  BY <1>8, <1>9
<1>13. \A k \in DOMAIN bounds' : \E i \in 1..m : bounds'[k] = BoundOf(words[i])
  <2>1. \A i \in 1..measured : i \in 1..m
    BY <1>2 DEF m
  <2>2. m \in 1..m /\ w = words[m]
    BY <1>2 DEF w
  <2>3. QED
    BY <1>12, <2>1, <2>2 DEF MeasuredBounds
<1>14. failed' => \E i \in DOMAIN text : text[i].units > text[i].data
  <2> SUFFICES ASSUME failed', \A i \in DOMAIN text : ~(text[i].units > text[i].data)
               PROVE  FALSE
    OBVIOUS
  <2>1. /\ Len(text) \in Nat /\ LengthsOf \in [1..Len(text) -> Nat]
        /\ DataLengthsOf \in [1..Len(text) -> Nat]
        /\ \A a, b : Units(a, b) = Span(LengthsOf, a, b) /\ Data(a, b) = Span(DataLengthsOf, a, b)
    BY LengthsType DEF BreakerInv
  <2>2. \A i \in 1..Len(text) : LengthsOf[i] <= DataLengthsOf[i]
    BY TextType, <2>1 DEF BreakerInv, LengthsOf, DataLengthsOf, Characters
  <2>3. w.to \in 0..Len(text) /\ Len(text) \in w.to..Len(text) /\ 1 \in 1..(Len(text) + 1)
    BY <1>3, <2>1
  <2>4. Span(LengthsOf, 1, w.to) <= Span(DataLengthsOf, 1, Len(text))
    BY <2>1, <2>2, <2>3, SpanMonotone
  <2>5. Span(LengthsOf, 1, w.to) \in Nat /\ Span(DataLengthsOf, 1, Len(text)) \in Nat
    <3>1. Len(text) \in 0..Len(text)
      BY <2>1
    <3>2. QED
      BY <2>1, <2>3, <3>1, PlacesFinite
  <2>6. Units(1, w.to) > Data(1, Len(text))
    BY <1>1, <1>3 DEF w
  <2>7. QED
    BY <2>1, <2>4, <2>5, <2>6
<1>15. ~failed' => \A v : (\E k \in DOMAIN bounds' : bounds'[k].word = v) <=>
                         (\E i \in 1..m : words[i] = v /\ Shows(v))
  <2> SUFFICES ASSUME ~failed', NEW v
               PROVE  (\E k \in DOMAIN bounds' : bounds'[k].word = v) <=>
                      (\E i \in 1..m : words[i] = v /\ Shows(v))
    OBVIOUS
  <2>1. (\E k \in DOMAIN bounds : bounds[k].word = v) <=>
        (\E i \in 1..measured : words[i] = v /\ Shows(v))
    BY <1>1 DEF MeasuredBounds
  <2>2. (\E i \in 1..m : words[i] = v /\ Shows(v)) <=>
        (\E i \in 1..measured : words[i] = v /\ Shows(v)) \/ (w = v /\ Shows(v))
    BY <1>2, <1>11 DEF w, m
  <2>3. CASE Shows(w)
    <3>1. bounds' = Append(bounds, BoundOf(w)) /\ BoundOf(w).word = w
      BY <1>8, <2>3 DEF BoundOf
    <3>2. (\E k \in DOMAIN bounds' : bounds'[k].word = v) <=>
          (\E k \in DOMAIN bounds : bounds[k].word = v) \/ w = v
      <4> DEFINE b == BoundOf(w)
      <4>1. /\ DOMAIN bounds = 1..Len(bounds) /\ Len(bounds) \in Nat
            /\ DOMAIN bounds' = 1..(Len(bounds) + 1)
            /\ bounds'[Len(bounds) + 1] = b
            /\ \A k \in 1..Len(bounds) : bounds'[k] = bounds[k]
        BY <1>9, <3>1
      <4> HIDE DEF b
      <4>2. \A k : k \in 1..(Len(bounds) + 1) <=> k \in 1..Len(bounds) \/ k = Len(bounds) + 1
        BY <4>1
      <4>3. b.word = w
        BY <3>1 DEF b
      <4>4. QED
        BY <4>1, <4>2, <4>3
    <3>3. QED
      BY <2>1, <2>2, <2>3, <3>2
  <2>4. CASE ~Shows(w)
    BY <1>8, <2>1, <2>2, <2>4
  <2>5. QED
    BY <2>3, <2>4
<1>16. MeasuredBounds'
  <2>1. {BoundOf(v) : v \in Words}' = {BoundOf(v) : v \in Words}
    BY <1>7 DEF Words
  <2>2. QED
    BY <1>1, <1>6, <1>7, <1>10, <1>13, <1>14, <1>15, <2>1 DEF MeasuredBounds, m
<1>17. QED
  BY <1>5, <1>16

LEMMA MeasuredInvariant == Spec => []Measured
<1>1. BreakerInv /\ BreakerInv' /\ Measured /\ [Next]_vars => Measured'
  <2> SUFFICES ASSUME BreakerInv, BreakerInv', Measured, [Next]_vars PROVE Measured'
    OBVIOUS
  <2>1. CASE next \/ Letters
    <3>1. /\ nextIndex < Len(text) /\ UNCHANGED <<text, options, offset, bounds, measured, failed>>
      BY <2>1 DEF next, Letters
    <3>2. measured = 0
      <4>1. Len(text) \in Nat /\ nextIndex \in Nat /\ measured \in Nat
        <5>1. Len(text) \in Nat
          BY TextType DEF BreakerInv
        <5>2. nextIndex \in Nat /\ Len(words) \in Nat
          BY <5>1 DEF BreakerInv, BreakerType
        <5>3. QED
          BY <5>1, <5>2 DEF Measured, MeasuredType
      <4>2. QED
        BY <3>1, <4>1 DEF Measured, MeasuredType
    <3>3. 1..measured = {} /\ End(measured) = 0 /\ End(measured)' = 0
      BY <3>1, <3>2 DEF End
    <3>4. MeasuredType'
      <4>1. Len(words') \in Nat
        BY DEF BreakerInv, BreakerType
      <4>2. QED
        BY <3>1, <3>2, <4>1 DEF Measured, MeasuredType
    <3>5. \A a, b : Units(a, b)' = Units(a, b)
      BY <3>1 DEF Units
    <3>6. \A w : BoundOf(w)' = BoundOf(w) /\ (Shows(w)' <=> Shows(w))
      BY <3>1, <3>5 DEF BoundOf, Shows, Blank
    <3>7. {BoundOf(v) : v \in Words}' = {BoundOf(v) : v \in Words}
      BY <3>6 DEF Words
    <3>8. MeasuredBounds'
      BY <3>1, <3>3, <3>5, <3>6, <3>7 DEF Measured, MeasuredBounds
    <3>9. QED
      BY <3>4, <3>8 DEF Measured
  <2>2. CASE Measure
    BY <2>2, MeasureMeasured
  <2>3. CASE UNCHANGED vars
    BY <2>3 DEF vars, Measured, MeasuredType, MeasuredBounds, BoundOf, Shows, Blank, Units, End
  <2>4. QED
    BY <2>1, <2>2, <2>3 DEF Next
<1>2. QED
  BY <1>1, InitMeasured, BreakerInvariant, PTL DEF Spec

\* Whatever the text, a piece that shows is measured by its own part of the node and
\* by no other, and the parse fails only where text-transform made a character longer.
THEOREM BoundsAreTheWords == Spec => []BoundsAreOwn
<1>1. BreakerInv /\ Measured => BoundsAreOwn
  <2> SUFFICES ASSUME BreakerInv, Measured PROVE BoundsAreOwn
    OBVIOUS
  <2>1. ASSUME \A i \in DOMAIN text : text[i].units = text[i].data, NEW k \in DOMAIN bounds
        PROVE  /\ bounds[k].at = Data(1, bounds[k].word.from - 1)
               /\ bounds[k].length = Data(bounds[k].word.from, bounds[k].word.to)
    <3>1. [i \in DOMAIN text |-> text[i].units] = [i \in DOMAIN text |-> text[i].data]
      BY <2>1
    <3>2. \A a, b : Units(a, b) = Data(a, b)
      BY <3>1 DEF Units, Data
    <3>3. PICK w : bounds[k] = BoundOf(w)
      BY DEF Measured, MeasuredBounds
    <3>4. QED
      BY <3>2, <3>3 DEF BoundOf
  <2>2. ASSUME measured = Len(words), ~failed
        PROVE  {b.word : b \in ToSet(bounds)}
                 = {w \in ToSet(words) : ~Blank(w) \/ options.decorated}
    <3>1. DOMAIN words = 1..measured
      BY <2>2 DEF BreakerInv, BreakerType
    <3>2. \A w : w \in {b.word : b \in ToSet(bounds)} <=> \E k \in DOMAIN bounds : bounds[k].word = w
      BY DEF ToSet
    <3>3. \A w : w \in {v \in ToSet(words) : ~Blank(v) \/ options.decorated} <=>
                \E m \in 1..measured : words[m] = w /\ Shows(w)
      BY <3>1 DEF ToSet, Shows
    <3>4. QED
      BY <2>2, <3>2, <3>3 DEF Measured, MeasuredBounds
  <2>3. QED
    BY <2>1, <2>2 DEF BoundsAreOwn, Measured, MeasuredBounds
<1>2. QED
  BY <1>1, BreakerInvariant, MeasuredInvariant, PTL
-----------------------------------------------------------------------------
(***************************************************************************)
(* The classes of a text without marks.                                     *)
(***************************************************************************)
PlainClasses(lineBreak) ==
  [i \in DOMAIN text |-> [type |-> resolvedClass(text[i], lineBreak), base |-> i]]
TypeWith(o, i) == IF o.wordBreak = "break-all" THEN widened(resolvedClass(text[i], o.lineBreak))
                  ELSE resolvedClass(text[i], o.lineBreak)

LEMMA PlainClassesAre ==
  ASSUME NoMarks, NEW lineBreak
  PROVE  codePointsToCharacterClasses(text, lineBreak) = PlainClasses(lineBreak)
<1> DEFINE t == text
           g == PlainClasses(lineBreak)
           body(f) == [i \in DOMAIN t |->
             IF t[i].class \notin {"CM", "ZWJ"} THEN [type |-> resolvedClass(t[i], lineBreak), base |-> i]
             ELSE IF i > 1 /\ f[i - 1].type \notin LINE_BREAKS THEN f[i - 1]
             ELSE [type |-> "AL", base |-> i]]
<1>1. \A f : body(f) = g
  BY DEF NoMarks, IsMark, Class, PlainClasses
<1>2. g = body(g) /\ \A f : f = body(f) => f = g
  BY <1>1
<1> HIDE DEF g
<1>3. (CHOOSE f : f = body(f)) = g
  BY <1>2
<1>4. codePointsToCharacterClasses(t, lineBreak) = CHOOSE f : f = body(f)
  BY DEF codePointsToCharacterClasses
<1>5. QED
  BY <1>3, <1>4 DEF g

LEMMA ClassesWith ==
  ASSUME BreakerType, NoMarks, NEW o \in OptionRecords
  PROVE  LET cs == cssFormattedClasses(text, o)
         IN  /\ DOMAIN cs = 1..Len(text)
             /\ \A i \in 1..Len(text) : cs[i].type = TypeWith(o, i) /\ cs[i].base = i
<1>1. DOMAIN text = 1..Len(text)
  BY TextType
<1>2. codePointsToCharacterClasses(text, o.lineBreak) = PlainClasses(o.lineBreak)
  BY PlainClassesAre
<1>3. CASE o.wordBreak = "break-all"
  BY <1>1, <1>2, <1>3 DEF cssFormattedClasses, PlainClasses, TypeWith
<1>4. CASE o.wordBreak # "break-all"
  BY <1>1, <1>2, <1>4 DEF cssFormattedClasses, PlainClasses, TypeWith
<1>5. QED
  BY <1>3, <1>4

\* The classes that no option and no rule for a dash puts others in place of.
LEMMA ResolvedClasses ==
  ASSUME BreakerType, NEW i \in 1..Len(text), NEW lineBreak
  PROVE  LET type == resolvedClass(text[i], lineBreak)
         IN  /\ Class(i) \in {"PR", "PO", "OP", "HY", "NU", "SY", "IS", "CL", "CP", "RI", "AL"} => type = Class(i)
             /\ type = "RI" => Class(i) = "RI"
             /\ text[i].han => Class(i) = "ID"
<1>1. /\ text[i].dash => text[i].class \in {"BA", "NS"}
      /\ text[i].han => text[i].class = "ID"
  BY TextType, TextsAssumption DEF BreakerType
<1>2. Class(i) \in {"PR", "PO", "OP", "HY", "NU", "SY", "IS", "CL", "CP", "RI", "AL"}
        => resolvedClass(text[i], lineBreak) = Class(i)
  BY <1>1 DEF Class, resolvedClass
<1>3. resolvedClass(text[i], lineBreak) = "RI" => Class(i) = "RI"
  BY <1>1 DEF Class, resolvedClass
<1>4. QED
  BY <1>1, <1>2, <1>3 DEF Class

LEMMA PreviousNonSpace ==
  ASSUME NEW cs, NEW i \in Nat \ {0}, cs[i].type # "SP"
  PROVE  previousNonSpaceClassType(cs, i) = cs[i].type
<1> DEFINE before == {j \in 1..i : cs[j].type # "SP"}
<1>1. i \in before /\ \A j \in before : i >= j /\ j \in Nat
  OBVIOUS
<1> HIDE DEF before
<1>2. \A j \in before : (\A k \in before : j >= k) => j = i
  BY <1>1
<1>3. Max(before) = i
  BY <1>1, <1>2 DEF Max
<1>4. QED
  BY <1>1, <1>3 DEF previousNonSpaceClassType, before
-----------------------------------------------------------------------------
(***************************************************************************)
(* LB25: numbers.                                                           *)
(***************************************************************************)
NumberClasses == {"PR", "PO", "OP", "HY", "NU", "SY", "IS", "CL", "CP"}

\* What follows digits ends a number.
LEMMA DigitsEndNumber ==
  ASSUME NEW cs, NEW m \in Nat \ {0}, NEW k \in Nat, m <= k,
         cs[m].type = "NU", \A x \in m..k : cs[x].type \in {"NU", "SY", "IS"}
  PROVE  EndsNumber(cs, k)
<1> DEFINE back == {x \in 0..(k - m) : cs[k - x].type = "NU"}
<1>1. k - m \in back /\ back \in SUBSET Nat
  OBVIOUS
<1>2. Min(back) \in back /\ \A x \in back : Min(back) <= x
  BY <1>1, LeastOfSet
<1> DEFINE d == Min(back)
<1>3. /\ d \in 0..(k - m) /\ cs[k - d].type = "NU"
      /\ \A x \in 0..(d - 1) : x \notin back
  <2>1. d \in 0..(k - m) /\ cs[k - d].type = "NU"
    BY <1>2
  <2> HIDE DEF back
  <2>2. \A x \in 0..(d - 1) : ~(d <= x)
    BY <2>1
  <2>3. QED
    BY <1>2, <2>1, <2>2
<1> HIDE DEF d
<1>4. k - d \in 1..k /\ k - d \in m..k
  BY <1>3
<1>5. \A x \in (k - d + 1)..k : cs[x].type \in {"SY", "IS"}
  <2> SUFFICES ASSUME NEW x \in (k - d + 1)..k PROVE cs[x].type \in {"SY", "IS"}
    OBVIOUS
  <2>1. k - x \in 0..(d - 1) /\ k - x \in 0..(k - m) /\ x \in m..k /\ k - (k - x) = x
    BY <1>3
  <2>2. cs[x].type # "NU"
    BY <1>3, <2>1
  <2>3. QED
    BY <2>1, <2>2
<1>6. QED
  BY <1>3, <1>4, <1>5 DEF EndsNumber

LEMMA NoBreakInNumber ==
  ASSUME NEW t, NEW cs, NEW forbidden, NEW k \in Nat \ {0},
         Type(cs, k) \in NumberClasses, Type(cs, k + 1) \in NumberClasses,
         cs[k].type = Type(cs, k), ForbiddenInNumber(cs, k)
  PROVE  _lineBreakAtIndex(t, cs, forbidden, k) = "no"
<1>1. previousNonSpaceClassType(cs, k) = Type(cs, k)
  BY PreviousNonSpace DEF NumberClasses
<1>2. Type(cs, k) \notin HARD_LINE_BREAKS /\ Type(cs, k) # "ZW" /\ Type(cs, k) # "SP"
  BY DEF NumberClasses, HARD_LINE_BREAKS
<1>3. "CB" \notin {Type(cs, k), Type(cs, k + 1)}
  BY DEF NumberClasses
<1>4. QED
  BY <1>1, <1>2, <1>3 DEF _lineBreakAtIndex

LEMMA NumberHasNoBreak ==
  ASSUME BreakerType, NoMarks, options.wordBreak # "break-all",
         NEW i \in Nat, NEW j \in Nat, NEW k \in Nat, 1 <= i, i <= k, k < j, j <= Len(text),
         IsNumber(i, j)
  PROVE  ~BreaksAfter(k)
<1> DEFINE cs == cssFormattedClasses(text, options)
<1>1. Len(text) \in Nat /\ DOMAIN text = 1..Len(text) /\ options \in OptionRecords
  BY TextType
<1>2. DOMAIN cs = 1..Len(text) /\ \A x \in 1..Len(text) : cs[x].type = TypeWith(options, x)
  BY <1>1, ClassesWith
<1>3. \A x \in 1..Len(text) : Class(x) \in NumberClasses =>
         cs[x].type = Class(x) /\ Type(cs, x) = Class(x)
  BY <1>2, ResolvedClasses DEF NumberClasses, TypeWith, Type
<1> HIDE DEF cs
<1>4. PICK p \in 0..1, b \in 0..1, c \in 0..1, s \in 0..1 :
        /\ i + p + b <= j - c - s
        /\ p = 1 => Class(i) \in PREFIX_POSTFIX
        /\ b = 1 => Class(i + p) \in {"OP", "HY"}
        /\ Class(i + p + b) = "NU"
        /\ \A x \in (i + p + b)..(j - c - s) : Class(x) \in {"NU", "SY", "IS"}
        /\ c = 1 => Class(j - c - s + 1) \in {"CL", "CP"}
        /\ s = 1 => Class(j) \in PREFIX_POSTFIX
  BY DEF IsNumber
<1>5. /\ i \in Nat /\ i >= 1 /\ j \in Nat /\ j <= Len(text) /\ k \in Nat /\ i <= k /\ k < j
      /\ p \in Nat /\ p <= 1 /\ b \in Nat /\ b <= 1 /\ c \in Nat /\ c <= 1 /\ s \in Nat /\ s <= 1
      /\ k \in 1..Len(text) /\ k + 1 \in 1..Len(text)
  BY <1>1
<1>6. PICK m \in Nat, n \in Nat : m = i + p + b /\ n = j - c - s /\ m <= n
  <2>1. i + p + b \in Nat /\ j - c - s \in Nat /\ i + p + b <= j - c - s
    BY <1>4, <1>5
  <2>2. QED
    BY <2>1
<1>7. m \in 1..Len(text) /\ n \in 1..Len(text) /\ m <= n
  BY <1>1, <1>4, <1>5, <1>6
<1>8. \A x \in m..n : /\ x \in 1..Len(text) /\ Class(x) \in NumberClasses
                     /\ cs[x].type \in {"NU", "SY", "IS"} /\ Type(cs, x) = cs[x].type
  <2>1. \A x \in m..n : Class(x) \in {"NU", "SY", "IS"} /\ x \in 1..Len(text)
    BY <1>1, <1>4, <1>6, <1>7
  <2>2. QED
    BY <1>3, <2>1 DEF NumberClasses
<1>9. cs[m].type = "NU" /\ Class(m) = "NU" /\ Type(cs, m) = "NU"
  BY <1>3, <1>4, <1>6, <1>7 DEF NumberClasses
<1>10. ASSUME NEW x \in m..n PROVE EndsNumber(cs, x)
  <2>1. \A y \in m..x : cs[y].type \in {"NU", "SY", "IS"}
    BY <1>6, <1>8
  <2>2. m \in Nat \ {0} /\ x \in Nat /\ m <= x
    BY <1>6, <1>7
  <2>3. QED
    BY <1>9, <2>1, <2>2, DigitsEndNumber
<1>11. ASSUME Class(k) \in NumberClasses, Class(k + 1) \in NumberClasses, ForbiddenInNumber(cs, k)
       PROVE  ~BreaksAfter(k)
  <2>1. /\ Type(cs, k) \in NumberClasses /\ Type(cs, k + 1) \in NumberClasses
        /\ cs[k].type = Type(cs, k) /\ k \in Nat \ {0}
    BY <1>3, <1>5, <1>11
  <2>2. _lineBreakAtIndex(text, cs, forbiddenBreakpoints(text, options), k) = "no"
    BY <1>11, <2>1, NoBreakInNumber
  <2>3. QED
    BY <2>2 DEF BreaksAfter, cs
<1>12. CASE k < m
  <2>1. CASE p = 1 /\ k = i
    <3>1. Class(k) \in PREFIX_POSTFIX /\ Class(k) \in NumberClasses
      BY <1>4, <2>1 DEF PREFIX_POSTFIX, NumberClasses
    <3>2. Type(cs, k) \in PREFIX_POSTFIX
      BY <1>3, <1>5, <3>1
    <3>3. CASE b = 0
      <4>1. m = k + 1
        BY <1>5, <1>6, <2>1, <3>3
      <4>2. ForbiddenInNumber(cs, k)
        BY <1>9, <3>2, <4>1 DEF ForbiddenInNumber
      <4>3. QED
        BY <1>9, <1>11, <3>1, <4>1, <4>2 DEF NumberClasses
    <3>4. CASE b = 1
      <4>1. m = k + 2 /\ k + 1 = i + p
        BY <1>5, <1>6, <2>1, <3>4
      <4>2. Class(k + 1) \in {"OP", "HY"} /\ Class(k + 1) \in NumberClasses
        BY <1>4, <3>4, <4>1 DEF NumberClasses
      <4>3. Type(cs, k + 1) \in {"OP", "HY"} /\ Type(cs, k + 2) = "NU"
        BY <1>3, <1>5, <1>9, <4>1, <4>2
      <4>4. ForbiddenInNumber(cs, k)
        BY <3>2, <4>3 DEF ForbiddenInNumber
      <4>5. QED
        BY <1>11, <3>1, <4>2, <4>4
    <3>5. QED
      BY <1>5, <3>3, <3>4
  <2>2. CASE b = 1 /\ k = i + p
    <3>1. m = k + 1
      BY <1>5, <1>6, <2>2
    <3>2. Class(k) \in {"OP", "HY"} /\ Class(k) \in NumberClasses
      BY <1>4, <2>2 DEF NumberClasses
    <3>3. Type(cs, k) \in {"OP", "HY"} /\ Type(cs, k + 1) = "NU"
      BY <1>3, <1>5, <1>9, <3>1, <3>2
    <3>4. ForbiddenInNumber(cs, k)
      BY <3>3 DEF ForbiddenInNumber
    <3>5. QED
      BY <1>9, <1>11, <3>1, <3>2, <3>4 DEF NumberClasses
  <2>3. (p = 1 /\ k = i) \/ (b = 1 /\ k = i + p)
    BY <1>5, <1>6, <1>12
  <2>4. QED
    BY <2>1, <2>2, <2>3
<1>13. CASE m <= k /\ k < n
  <2>1. k \in m..n /\ k + 1 \in m..n
    BY <1>5, <1>6, <1>13
  <2>2. Type(cs, k + 1) \in {"NU", "SY", "IS"} /\ EndsNumber(cs, k)
    BY <1>8, <1>10, <2>1
  <2>3. ForbiddenInNumber(cs, k)
    BY <2>2 DEF ForbiddenInNumber
  <2>4. QED
    BY <1>8, <1>11, <2>1, <2>3
<1>14. CASE k = n
  <2>1. k \in m..n
    BY <1>6, <1>7, <1>14
  <2>2. Class(k) \in NumberClasses /\ Type(cs, k) \in {"NU", "SY", "IS"} /\ EndsNumber(cs, k)
    BY <1>8, <1>10, <2>1
  <2>3. CASE c = 1
    <3>1. k + 1 = j - c - s + 1
      BY <1>6, <1>14
    <3>2. Class(k + 1) \in {"CL", "CP"} /\ Class(k + 1) \in NumberClasses
      BY <1>4, <2>3, <3>1 DEF NumberClasses
    <3>3. Type(cs, k + 1) \in {"CL", "CP"}
      BY <1>3, <1>5, <3>2
    <3>4. ForbiddenInNumber(cs, k)
      BY <2>2, <3>3 DEF ForbiddenInNumber
    <3>5. QED
      BY <1>11, <2>2, <3>2, <3>4
  <2>4. CASE c = 0
    <3>1. j = k + 1 /\ s = 1
      BY <1>5, <1>6, <1>14, <2>4
    <3>2. Class(k + 1) \in PREFIX_POSTFIX /\ Class(k + 1) \in NumberClasses
      BY <1>4, <3>1 DEF NumberClasses, PREFIX_POSTFIX
    <3>3. Type(cs, k + 1) \in PREFIX_POSTFIX /\ Type(cs, k) \notin {"CL", "CP"}
      BY <1>3, <1>5, <2>2, <3>2
    <3>4. ForbiddenInNumber(cs, k)
      BY <2>2, <3>3 DEF ForbiddenInNumber
    <3>5. QED
      BY <1>11, <2>2, <3>2, <3>4
  <2>5. QED
    BY <1>5, <2>3, <2>4
<1>15. CASE k > n
  <2>1. c = 1 /\ s = 1 /\ k = n + 1 /\ j = k + 1 /\ k = j - c - s + 1
    BY <1>5, <1>6, <1>15
  <2>2. Class(k) \in {"CL", "CP"} /\ Class(k) \in NumberClasses
    BY <1>4, <2>1 DEF NumberClasses
  <2>3. Class(k + 1) \in PREFIX_POSTFIX /\ Class(k + 1) \in NumberClasses
    BY <1>4, <2>1 DEF NumberClasses, PREFIX_POSTFIX
  <2>4. k - 1 \in m..n
    BY <1>6, <1>7, <2>1
  <2>5. EndsNumber(cs, k - 1)
    BY <1>10, <2>4
  <2>6. Type(cs, k) \in {"CL", "CP"} /\ Type(cs, k + 1) \in PREFIX_POSTFIX
    BY <1>3, <1>5, <2>2, <2>3
  <2>7. ForbiddenInNumber(cs, k)
    BY <2>5, <2>6 DEF ForbiddenInNumber
  <2>8. QED
    BY <1>11, <2>2, <2>3, <2>7
<1>16. QED
  BY <1>5, <1>6, <1>12, <1>13, <1>14, <1>15

\* LB25 for every text: no word ends inside a number with its sign, brackets and
\* unit, though the rules look at pairs of characters and at what is behind them.
THEOREM NumbersNeverBreak == Spec => []NumbersStay
<1>1. BreakerInv => NumbersStay
  <2> SUFFICES ASSUME BreakerInv, options.wordBreak # "break-all", NoMarks,
                      NEW i \in DOMAIN text, NEW j \in DOMAIN text, i < j, IsNumber(i, j),
                      NEW k \in DOMAIN words, words[k].to \in i..(j - 1),
                      ~options.letterRendering
               PROVE  FALSE
    BY DEF NumbersStay
  <2>1. /\ Len(text) \in Nat /\ DOMAIN text = 1..Len(text)
        /\ nextIndex \in 0..Len(text) /\ words \in Seq(Words)
    BY TextType DEF BreakerInv, BreakerType
  <2>2. words[k] \in Words
    BY <2>1
  <2>3. words[k].to \in Nat /\ words[k].from \in Nat
    BY <2>2 DEF Words
  <2>4. /\ words[k].to <= nextIndex
        /\ i \in Nat /\ j \in Nat /\ 1 <= i /\ j <= Len(text)
        /\ i <= words[k].to /\ words[k].to < j
    BY <2>1, <2>3 DEF BreakerInv, Contiguous
  <2>5. words[k].to \in 1..nextIndex /\ words[k].to # Len(text)
    BY <2>1, <2>3, <2>4
  <2>6. BreaksAfter(words[k].to)
    BY <2>5 DEF BreakerInv, EndsAreBreaks
  <2>7. ~BreaksAfter(words[k].to)
    BY <2>3, <2>4, NumberHasNoBreak DEF BreakerInv
  <2>8. QED
    BY <2>6, <2>7
<1>2. QED
  BY <1>1, BreakerInvariant, PTL
-----------------------------------------------------------------------------
(***************************************************************************)
(* LB30a: flags.                                                            *)
(***************************************************************************)
\* The start of a row is found, wherever in the row the rule is asked.
LEMMA RowStart ==
  ASSUME NEW cs, NEW i \in Nat, NEW k \in Nat, 1 <= i, i <= k,
         \A x \in i..k : cs[x].type = "RI", i = 1 \/ cs[i - 1].type # "RI"
  PROVE  i = CHOOSE f \in 1..k : (\A x \in f..(k - 1) : cs[x].type = "RI")
                                 /\ (f = 1 \/ cs[f - 1].type # "RI")
<1> DEFINE Start(f) == (\A x \in f..(k - 1) : cs[x].type = "RI")
                       /\ (f = 1 \/ cs[f - 1].type # "RI")
<1>1. i \in 1..k /\ Start(i)
  OBVIOUS
<1>2. ASSUME NEW f \in 1..k, Start(f) PROVE f = i
  <2>1. CASE f < i
    <3>1. i - 1 \in f..(k - 1) /\ i # 1
      BY <2>1
    <3>2. QED
      BY <1>2, <3>1
  <2>2. CASE f > i
    <3>1. f - 1 \in i..k /\ f # 1
      BY <2>2
    <3>2. QED
      BY <1>2, <3>1
  <2>3. QED
    BY <2>1, <2>2
<1> HIDE DEF Start
<1>3. (CHOOSE f \in 1..k : Start(f)) = i
  BY <1>1, <1>2
<1>4. QED
  BY <1>3 DEF Start

LEMMA BreakInRow ==
  ASSUME BreakerType, NoMarks, NEW i \in Nat, NEW k \in Nat, 1 <= i, i <= k, k < Len(text),
         \A x \in i..(k + 1) : Class(x) = "RI", i = 1 \/ Class(i - 1) # "RI"
  PROVE  BreaksAfter(k) <=> (k - i) % 2 = 1
<1> DEFINE cs == cssFormattedClasses(text, options)
           forbidden == forbiddenBreakpoints(text, options)
<1>1. Len(text) \in Nat /\ DOMAIN text = 1..Len(text) /\ options \in OptionRecords
  BY TextType
<1>2. /\ DOMAIN cs = 1..Len(text)
      /\ \A x \in 1..Len(text) : cs[x].type = TypeWith(options, x) /\ cs[x].base = x
  BY <1>1, ClassesWith
<1>3. \A x \in 1..Len(text) : cs[x].type = "RI" <=> Class(x) = "RI"
  BY <1>2, ResolvedClasses DEF TypeWith, widened
<1>4. k \notin forbidden
  <2>1. Class(k) = "RI" /\ k \in 1..Len(text)
    BY <1>1
  <2>2. QED
    BY <2>1, ResolvedClasses DEF forbiddenBreakpoints
<1> HIDE DEF cs, forbidden
<1>5. \A x \in i..(k + 1) : x \in 1..Len(text) /\ cs[x].type = "RI" /\ Type(cs, x) = "RI"
  BY <1>1, <1>2, <1>3 DEF Type
<1>6. /\ k \in i..(k + 1) /\ k + 1 \in i..(k + 1) /\ k \in Nat \ {0}
      /\ i = 1 \/ (i - 1 \in 1..Len(text) /\ cs[i - 1].type # "RI")
  BY <1>1, <1>3
<1>7. /\ Type(cs, k) = "RI" /\ Type(cs, k + 1) = "RI"
      /\ cs[k + 1].base = k + 1 /\ cs[k].base = k
      /\ previousNonSpaceClassType(cs, k) = "RI"
  <2>1. Type(cs, k) = "RI" /\ Type(cs, k + 1) = "RI" /\ cs[k].type = "RI"
    BY <1>5, <1>6
  <2>2. cs[k + 1].base = k + 1 /\ cs[k].base = k
    BY <1>2, <1>5, <1>6
  <2>3. previousNonSpaceClassType(cs, k) = "RI"
    BY <1>6, <2>1, PreviousNonSpace
  <2>4. QED
    BY <2>1, <2>2, <2>3
<1>8. ForbiddenInFlag(cs, k) <=> (k - i + 1) % 2 # 0
  <2>1. i = CHOOSE f \in 1..k : (\A x \in f..(k - 1) : cs[x].type = "RI")
                                /\ (f = 1 \/ cs[f - 1].type # "RI")
    <3>1. \A x \in i..k : cs[x].type = "RI"
      BY <1>5
    <3>2. QED
      BY <1>6, <3>1, RowStart
  <2>2. QED
    BY <1>7, <2>1 DEF ForbiddenInFlag
<1>9. ~ForbiddenAfterSpaces(text, cs, k)
  <2>1. Class(k) = "RI"
    BY <1>6
  <2>2. QED
    BY <1>7, <2>1 DEF ForbiddenAfterSpaces, isAdjacentWithSpaceIgnored, Class
<1>10. ~(ForbiddenBetween(cs, k) \/ ForbiddenInNumber(cs, k) \/ ForbiddenInWord(cs, k))
  BY <1>7
  DEF ForbiddenBetween, ForbiddenInNumber, ForbiddenInWord, PREFIX_POSTFIX, HYPHEN,
      ALPHABETICS, Ideographic, KOREAN_SYLLABLE_BLOCK
<1>11. _lineBreakAtIndex(text, cs, forbidden, k) # "no" <=> ~ForbiddenInFlag(cs, k)
  <2>1. cs[k + 1].base # 1
    BY <1>7
  <2>2. "RI" \notin HARD_LINE_BREAKS /\ "RI" \notin LINE_BREAKS
    BY DEF HARD_LINE_BREAKS, LINE_BREAKS, SPACE
  <2>3. QED
    BY <1>4, <1>7, <1>9, <1>10, <2>1, <2>2 DEF _lineBreakAtIndex
<1>12. (k - i + 1) % 2 = 0 <=> (k - i) % 2 = 1
  OBVIOUS
<1>13. QED
  BY <1>8, <1>11, <1>12 DEF BreaksAfter, cs, forbidden

\* LB30a for every text: in a row of regional indicators a word ends after each
\* second one and nowhere else, so flags are drawn whole.
THEOREM FlagsArePairs == Spec => []FlagsArePaired
<1>1. BreakerInv => FlagsArePaired
  <2> SUFFICES ASSUME BreakerInv, NoMarks, ~options.letterRendering, Broken,
                      NEW i \in DOMAIN text, NEW j \in DOMAIN text, i < j,
                      \A x \in i..j : Class(x) = "RI", i = 1 \/ Class(i - 1) # "RI",
                      NEW k \in i..(j - 1)
               PROVE  (\E w \in ToSet(words) : w.to = k) <=> (k - i) % 2 = 1
    BY DEF FlagsArePaired
  <2>1. /\ Len(text) \in Nat /\ DOMAIN text = 1..Len(text) /\ nextIndex = Len(text)
    BY TextType DEF BreakerInv, Broken
  <2>2. /\ i \in Nat /\ 1 <= i /\ k \in Nat /\ i <= k /\ k < Len(text)
        /\ k \in 1..nextIndex /\ k # Len(text)
    <3>1. i \in Nat /\ 1 <= i /\ j \in Nat /\ j <= Len(text)
      BY <2>1
    <3>2. k \in Nat /\ i <= k /\ k < j
      BY <3>1
    <3>3. k < Len(text) /\ 1 <= k
      BY <2>1, <3>1, <3>2
    <3>4. k \in 1..Len(text) /\ k # Len(text)
      <4>1. \A x, n \in Nat : 1 <= x /\ x < n => x \in 1..n /\ x # n
        OBVIOUS
      <4>2. QED
        BY <2>1, <3>2, <3>3, <4>1
    <3>5. QED
      BY <2>1, <3>1, <3>2, <3>3, <3>4
  <2>3. \A x \in i..(k + 1) : Class(x) = "RI"
    BY <2>1
  <2>4. BreaksAfter(k) <=> (k - i) % 2 = 1
    BY <2>2, <2>3, BreakInRow DEF BreakerInv
  <2>5. (\E m \in DOMAIN words : words[m].to = k) <=> BreaksAfter(k)
    BY <2>2 DEF BreakerInv, EndsAreBreaks
  <2>6. QED
    BY <2>4, <2>5 DEF ToSet
<1>2. QED
  BY <1>1, BreakerInvariant, PTL
-----------------------------------------------------------------------------
(***************************************************************************)
(* word-break.                                                              *)
(***************************************************************************)
\* cn is the classes as they are, ca with letters and digits taken for ideographs.
Widens(cn, ca, n) ==
  /\ DOMAIN cn = 1..n /\ DOMAIN ca = 1..n
  /\ \A x \in 1..n : /\ ca[x].type = widened(cn[x].type) /\ cn[x].type # "SA"
                     /\ cn[x].base = x /\ ca[x].base = x

LEMMA WidenedAround ==
  ASSUME NEW n \in Nat, NEW cn, NEW ca, Widens(cn, ca, n), NEW k \in Nat, 1 <= k, k < n
  PROVE  /\ \A x : Type(ca, x) = widened(Type(cn, x))
         /\ previousNonSpaceClassType(ca, k) = widened(previousNonSpaceClassType(cn, k))
         /\ nextNonSpaceClassType(ca, k) = widened(nextNonSpaceClassType(cn, k))
<1>1. \A x : Type(ca, x) = widened(Type(cn, x))
  BY DEF Type, Widens, widened
<1>2. \A x \in 1..n : ca[x].type # "SP" <=> cn[x].type # "SP"
  BY DEF Widens, widened
<1>3. previousNonSpaceClassType(ca, k) = widened(previousNonSpaceClassType(cn, k))
  <2> DEFINE before == {x \in 1..k : cn[x].type # "SP"}
  <2>1. {x \in 1..k : ca[x].type # "SP"} = before
    BY <1>2
  <2>2. CASE before = {}
    BY <2>1, <2>2 DEF previousNonSpaceClassType, widened
  <2>3. CASE before # {}
    <3> DEFINE back == {k - x : x \in before}
    <3>1. back \in SUBSET Nat /\ back # {}
      BY <2>3
    <3>2. Min(back) \in back /\ \A y \in back : Min(back) <= y
      BY <3>1, LeastOfSet
    <3>3. PICK z \in before : \A x \in before : z >= x
      <4>1. PICK z \in before : Min(back) = k - z
        BY <3>2
      <4>2. \A x \in before : k - z <= k - x
        BY <3>2, <4>1
      <4>3. \A x \in before : z >= x
        BY <4>2
      <4>4. QED
        BY <4>3
    <3>4. Max(before) \in before
      BY <3>3 DEF Max
    <3>5. ca[Max(before)].type = widened(cn[Max(before)].type)
      <4> HIDE DEF before
      <4>1. Max(before) \in 1..n
        BY <3>4 DEF before
      <4>2. QED
        BY <4>1 DEF Widens
    <3>6. QED
      BY <2>1, <2>3, <3>5 DEF previousNonSpaceClassType
  <2>4. QED
    BY <2>2, <2>3
<1>4. nextNonSpaceClassType(ca, k) = widened(nextNonSpaceClassType(cn, k))
  <2> DEFINE after == {x \in (k + 1)..n : cn[x].type # "SP"}
  <2>1. {x \in (k + 1)..n : ca[x].type # "SP"} = after
    BY <1>2
  <2>2. Len(cn) = n /\ Len(ca) = n
    BY LenProperties DEF Widens
  <2>3. CASE after = {}
    BY <2>1, <2>2, <2>3 DEF nextNonSpaceClassType, widened
  <2>4. CASE after # {}
    <3>1. after \in SUBSET Nat
      OBVIOUS
    <3>2. Min(after) \in after
      BY <2>4, <3>1, LeastOfSet
    <3>3. ca[Min(after)].type = widened(cn[Min(after)].type)
      <4> HIDE DEF after
      <4>1. Min(after) \in 1..n
        BY <3>2 DEF after
      <4>2. QED
        BY <4>1 DEF Widens
    <3>4. QED
      BY <2>1, <2>2, <2>4, <3>3 DEF nextNonSpaceClassType
  <2>5. QED
    BY <2>3, <2>4
<1>5. QED
  BY <1>1, <1>3, <1>4

\* The rules allow between ideographs whatever they allow between letters and digits.
LEMMA WidenedAllows ==
  ASSUME NEW n \in Nat, NEW cn, NEW ca, NEW t, Widens(cn, ca, n),
         NEW k \in Nat, 1 <= k, k < n, Len(t) = n, t[k].class # "ZWJ",
         _lineBreakAtIndex(t, cn, {}, k) # "no"
  PROVE  _lineBreakAtIndex(t, ca, {}, k) # "no"
<1> DEFINE c == Type(cn, k)
           d == Type(cn, k + 1)
           b == Type(cn, k - 1)
           p == previousNonSpaceClassType(cn, k)
           q == nextNonSpaceClassType(cn, k)
<1>1. /\ Type(ca, k) = widened(c) /\ Type(ca, k + 1) = widened(d) /\ Type(ca, k - 1) = widened(b)
      /\ previousNonSpaceClassType(ca, k) = widened(p)
      /\ nextNonSpaceClassType(ca, k) = widened(q)
      /\ \A x : Type(ca, x) # "NU"
  BY WidenedAround DEF widened
<1>2. /\ cn[k + 1].base # 1 /\ ca[k + 1].base # 1
      /\ cn[k].base = k /\ ca[k].base = k /\ \A x \in 1..k : ca[x].type # "NU"
  BY DEF Widens, widened
<1>3. CASE c \in HARD_LINE_BREAKS
  <2>1. ~(c = "CR" /\ d = "LF")
    BY <1>2 DEF _lineBreakAtIndex
  <2>2. widened(c) \in HARD_LINE_BREAKS /\ ~(widened(c) = "CR" /\ widened(d) = "LF")
    BY <1>3, <2>1 DEF HARD_LINE_BREAKS, widened
  <2>3. QED
    BY <1>1, <1>2, <2>2 DEF _lineBreakAtIndex
<1>4. CASE c \notin HARD_LINE_BREAKS
  <2>1. c # "CR" /\ d \notin LINE_BREAKS
    BY <1>2, <1>4 DEF _lineBreakAtIndex, HARD_LINE_BREAKS
  <2>2. /\ widened(c) # "CR" /\ widened(c) \notin HARD_LINE_BREAKS
        /\ widened(d) \notin LINE_BREAKS
    BY <1>4, <2>1 DEF HARD_LINE_BREAKS, LINE_BREAKS, SPACE, widened
  <2>3. CASE p = "ZW"
    BY <1>1, <1>2, <2>2, <2>3 DEF _lineBreakAtIndex, widened
  <2>4. CASE p # "ZW"
    <3>1. ~ForbiddenAfterSpaces(t, cn, k)
      BY <1>2, <1>4, <2>1, <2>4 DEF _lineBreakAtIndex
    <3>2. ~ForbiddenAfterSpaces(t, ca, k)
      BY <1>1, <3>1 DEF ForbiddenAfterSpaces, isAdjacentWithSpaceIgnored, widened
    <3>3. widened(p) # "ZW"
      BY <2>4 DEF widened
    <3>4. CASE c = "SP"
      BY <1>1, <1>2, <2>2, <3>2, <3>3, <3>4 DEF _lineBreakAtIndex, widened
    <3>5. CASE c # "SP"
      <4>1. widened(c) # "SP" /\ c # "QU" /\ d # "QU"
        BY <1>2, <1>4, <2>1, <2>4, <3>1, <3>5 DEF _lineBreakAtIndex, widened
      <4>2. widened(c) # "QU" /\ widened(d) # "QU"
        BY <4>1 DEF widened
      <4>3. CASE "CB" \in {c, d}
        <5>1. "CB" \in {widened(c), widened(d)}
          BY <4>3 DEF widened
        <5>2. QED
          BY <1>1, <1>2, <2>2, <3>2, <3>3, <4>1, <4>2, <5>1 DEF _lineBreakAtIndex
      <4>4. CASE "CB" \notin {c, d}
        <5>1. /\ ~ForbiddenBetween(cn, k) /\ ~ForbiddenInNumber(cn, k)
              /\ ~ForbiddenInWord(cn, k) /\ ~ForbiddenInFlag(cn, k)
          BY <1>2, <1>4, <2>1, <2>4, <3>1, <3>5, <4>1, <4>4 DEF _lineBreakAtIndex
        <5>2. ~ForbiddenInNumber(ca, k)
          <6>1. ~EndsNumber(ca, k) /\ ~EndsNumber(ca, k - 1)
            BY <1>2 DEF EndsNumber
          <6>2. QED
            BY <1>1, <6>1 DEF ForbiddenInNumber
        <5>3. ~ForbiddenInWord(ca, k)
          BY <1>1, <5>1 DEF ForbiddenInWord, KOREAN_SYLLABLE_BLOCK, ALPHABETICS, widened
        <5>4. ~ForbiddenInFlag(ca, k)
          <6>1. \A x \in 1..k : ca[x].type = "RI" <=> cn[x].type = "RI"
            BY DEF Widens, widened
          <6> DEFINE A(f) == (\A x \in f..(k - 1) : ca[x].type = "RI")
                             /\ (f = 1 \/ ca[f - 1].type # "RI")
                     N(f) == (\A x \in f..(k - 1) : cn[x].type = "RI")
                             /\ (f = 1 \/ cn[f - 1].type # "RI")
          <6>2. (CHOOSE f \in 1..k : A(f)) = CHOOSE f \in 1..k : N(f)
            <7>1. \A f \in 1..k : A(f) <=> N(f)
              BY <6>1
            <7> HIDE DEF A, N
            <7>2. QED
              BY <7>1, Zenon
          <6>3. Type(ca, k) = "RI" <=> Type(cn, k) = "RI"
            BY <1>1 DEF widened
          <6>4. Type(ca, k + 1) = "RI" <=> Type(cn, k + 1) = "RI"
            BY <1>1 DEF widened
          <6>5. ForbiddenInFlag(ca, k) <=>
                  /\ Type(ca, k) = "RI" /\ Type(ca, k + 1) = "RI"
                  /\ (k - (CHOOSE f \in 1..k : A(f)) + 1) % 2 # 0
            BY <1>2 DEF ForbiddenInFlag
          <6>6. ForbiddenInFlag(cn, k) <=>
                  /\ Type(cn, k) = "RI" /\ Type(cn, k + 1) = "RI"
                  /\ (k - (CHOOSE f \in 1..k : N(f)) + 1) % 2 # 0
            BY <1>2 DEF ForbiddenInFlag
          <6> HIDE DEF A, N
          <6>7. QED
            BY <5>1, <6>2, <6>3, <6>4, <6>5, <6>6
        <5>5. ~ForbiddenBetween(ca, k)
          <6>1. EndsNumber(cn, k) \/ c # "NU"
            BY DEF EndsNumber, Type
          <6>2. c # "SA" /\ d # "SA"
            BY DEF Widens, Type
          <6>3. ASSUME widened(d) = "IN" PROVE widened(c) \notin ALPHABETICS \cup Ideographic \cup {"IN", "EX", "NU"}
            BY <5>1, <6>2, <6>3 DEF ForbiddenBetween, ALPHABETICS, Ideographic, widened
          <6>4. ~(widened(c) = "PR" /\ widened(d) \in Ideographic)
            BY <5>1, <6>2 DEF ForbiddenBetween, ForbiddenInNumber, PREFIX_POSTFIX, ALPHABETICS, Ideographic, widened
          <6>5. ~(widened(c) \in Ideographic /\ widened(d) = "PO")
            BY <5>1, <6>1, <6>2 DEF ForbiddenBetween, ForbiddenInNumber, PREFIX_POSTFIX, ALPHABETICS, Ideographic, widened
          <6>6. QED
            BY <1>1, <5>1, <6>3, <6>4, <6>5
            DEF ForbiddenBetween, PREFIX_POSTFIX, HYPHEN, ALPHABETICS, widened
        <5>6. QED
          BY <1>1, <1>2, <2>2, <3>2, <3>3, <4>1, <4>2, <5>2, <5>3, <5>4, <5>5
          DEF _lineBreakAtIndex
      <4>5. QED
        BY <4>3, <4>4
    <3>6. QED
      BY <3>4, <3>5
  <2>5. QED
    BY <2>3, <2>4
<1>5. QED
  BY <1>3, <1>4

\* Ideographs may be parted from each other.
LEMMA IdeographsPart ==
  ASSUME NEW n \in Nat, NEW cs, NEW t, DOMAIN cs = 1..n, \A x \in 1..n : cs[x].base = x,
         NEW k \in Nat, 1 <= k, k < n, Len(t) = n, t[k].class # "ZWJ",
         cs[k].type = "ID", cs[k + 1].type = "ID"
  PROVE  _lineBreakAtIndex(t, cs, {}, k) # "no"
<1>1. Type(cs, k) = "ID" /\ Type(cs, k + 1) = "ID" /\ cs[k + 1].base # 1
  BY DEF Type
<1>2. previousNonSpaceClassType(cs, k) = "ID"
  BY PreviousNonSpace
<1>3. ~ForbiddenAfterSpaces(t, cs, k)
  BY <1>1, <1>2 DEF ForbiddenAfterSpaces, isAdjacentWithSpaceIgnored
<1>4. /\ ~ForbiddenBetween(cs, k) /\ ~ForbiddenInNumber(cs, k)
      /\ ~ForbiddenInWord(cs, k) /\ ~ForbiddenInFlag(cs, k)
  BY <1>1 DEF ForbiddenBetween, ForbiddenInNumber, ForbiddenInWord, ForbiddenInFlag,
              PREFIX_POSTFIX, HYPHEN, ALPHABETICS, Ideographic, KOREAN_SYLLABLE_BLOCK
<1>5. "ID" \notin HARD_LINE_BREAKS /\ "ID" \notin LINE_BREAKS
  BY DEF HARD_LINE_BREAKS, LINE_BREAKS, SPACE
<1>6. QED
  BY <1>1, <1>2, <1>3, <1>4, <1>5 DEF _lineBreakAtIndex

\* For every text without marks, break-all only adds opportunities, between letters
\* and digits all of them, and keep-all only takes away those after a Han ideograph.
THEOREM WordBreakMonotone == Spec => []WordBreakIsMonotone
<1>1. BreakerInv => WordBreakIsMonotone
  <2> SUFFICES ASSUME BreakerInv, NoMarks PROVE WordBreakIsMonotone
    BY DEF WordBreakIsMonotone
  <2> DEFINE opt(wb) == [options EXCEPT !.wordBreak = wb]
             With(wb) == BreaksWith(opt(wb))
             cn == cssFormattedClasses(text, opt("normal"))
             ca == cssFormattedClasses(text, opt("break-all"))
             ck == cssFormattedClasses(text, opt("keep-all"))
             han == {i \in DOMAIN text : text[i].han}
  <2>1. Len(text) \in Nat /\ DOMAIN text = 1..Len(text) /\ options \in OptionRecords
    BY TextType DEF BreakerInv
  <2>2. /\ opt("normal") \in OptionRecords /\ opt("break-all") \in OptionRecords
        /\ opt("keep-all") \in OptionRecords
        /\ opt("normal").wordBreak = "normal" /\ opt("break-all").wordBreak = "break-all"
        /\ opt("keep-all").wordBreak = "keep-all"
        /\ opt("normal").lineBreak = options.lineBreak /\ opt("break-all").lineBreak = options.lineBreak
        /\ opt("keep-all").lineBreak = options.lineBreak
    BY <2>1 DEF OptionRecords
  <2>3. /\ forbiddenBreakpoints(text, opt("normal")) = {}
        /\ forbiddenBreakpoints(text, opt("break-all")) = {}
        /\ forbiddenBreakpoints(text, opt("keep-all")) = han
    BY <2>2 DEF forbiddenBreakpoints
  <2>4. /\ With("normal") = {i \in 1..(Len(text) - 1) : _lineBreakAtIndex(text, cn, {}, i) # "no"}
        /\ With("break-all") = {i \in 1..(Len(text) - 1) : _lineBreakAtIndex(text, ca, {}, i) # "no"}
        /\ With("keep-all") = {i \in 1..(Len(text) - 1) : _lineBreakAtIndex(text, ck, han, i) # "no"}
    BY <2>3 DEF BreaksWith
  <2>5. /\ DOMAIN cn = 1..Len(text) /\ DOMAIN ca = 1..Len(text)
        /\ \A x \in 1..Len(text) : /\ cn[x].type = resolvedClass(text[x], options.lineBreak)
                                   /\ ca[x].type = widened(resolvedClass(text[x], options.lineBreak))
                                   /\ cn[x].base = x /\ ca[x].base = x
    <3>1. /\ DOMAIN cn = 1..Len(text)
          /\ \A x \in 1..Len(text) : cn[x].type = TypeWith(opt("normal"), x) /\ cn[x].base = x
      BY <2>2, ClassesWith DEF BreakerInv
    <3>2. /\ DOMAIN ca = 1..Len(text)
          /\ \A x \in 1..Len(text) : ca[x].type = TypeWith(opt("break-all"), x) /\ ca[x].base = x
      BY <2>2, ClassesWith DEF BreakerInv
    <3> HIDE DEF opt, cn, ca
    <3>3. QED
      BY <2>2, <3>1, <3>2 DEF TypeWith
  <2>6. ck = cn
    BY <2>2 DEF cssFormattedClasses
  <2> HIDE DEF With, opt, cn, ca, ck, han
  <2>7. \A x \in 1..Len(text) : resolvedClass(text[x], options.lineBreak) # "SA"
    BY DEF resolvedClass
  <2>8. Widens(cn, ca, Len(text))
    BY <2>5, <2>7 DEF Widens
  <2>9. \A k \in 1..(Len(text) - 1) : /\ k \in Nat /\ 1 <= k /\ k < Len(text)
                                     /\ k \in 1..Len(text) /\ k + 1 \in 1..Len(text)
                                     /\ text[k].class # "ZWJ"
    BY <2>1 DEF NoMarks, IsMark, Class
  <2>10. With("normal") \subseteq With("break-all")
    <3> SUFFICES ASSUME NEW k \in 1..(Len(text) - 1), _lineBreakAtIndex(text, cn, {}, k) # "no"
                 PROVE  _lineBreakAtIndex(text, ca, {}, k) # "no"
      BY <2>4
    <3>1. QED
      BY <2>1, <2>8, <2>9, WidenedAllows
  <2>11. With("keep-all") = With("normal") \ han
    <3>1. ASSUME NEW k \in han PROVE _lineBreakAtIndex(text, ck, han, k) = "no"
      BY <3>1 DEF _lineBreakAtIndex
    <3>2. ASSUME NEW k, k \notin han
          PROVE _lineBreakAtIndex(text, ck, han, k) = _lineBreakAtIndex(text, cn, {}, k)
      BY <2>6, <3>2 DEF _lineBreakAtIndex
    <3>3. QED
      BY <2>4, <3>1, <3>2
  <2>12. ASSUME NEW i \in 1..(Len(text) - 1), Class(i) \in {"AL", "NU"}, Class(i + 1) \in {"AL", "NU"}
         PROVE  i \in With("break-all")
    <3>1. ASSUME NEW x \in 1..Len(text), Class(x) \in {"AL", "NU"} PROVE ca[x].type = "ID"
      <4>1. resolvedClass(text[x], options.lineBreak) = Class(x)
        BY <3>1, ResolvedClasses DEF BreakerInv
      <4>2. QED
        BY <2>5, <3>1, <4>1 DEF widened
    <3>2. ca[i].type = "ID" /\ ca[i + 1].type = "ID"
      BY <2>9, <2>12, <3>1
    <3>3. _lineBreakAtIndex(text, ca, {}, i) # "no"
      <4>1. DOMAIN ca = 1..Len(text) /\ \A x \in 1..Len(text) : ca[x].base = x
        BY <2>5
      <4>2. i \in Nat /\ 1 <= i /\ i < Len(text) /\ text[i].class # "ZWJ"
        BY <2>9
      <4>3. QED
        BY <2>1, <3>2, <4>1, <4>2, IdeographsPart
    <3>4. QED
      BY <2>4, <3>3
  <2>13. QED
    BY <2>10, <2>11, <2>12 DEF WordBreakIsMonotone, With, opt, han
<1>2. QED
  BY <1>1, BreakerInvariant, PTL
=============================================================================
