-------------------------- MODULE ListMarkersProofs --------------------------
(***************************************************************************)
(* Proofs about ListMarkers for every document.                             *)
(*                                                                         *)
(* The code numbers an item by the last item of its owner alone (Numbered:  *)
(* listItems keeps it), HTML by all items since the last value: that the    *)
(* first amounts to the second is the invariant NumberingIsHTML itself,     *)
(* whose step adds the new item to the sets of its owner.                   *)
(* A text says its number because each system undoes what its reader does:  *)
(* what is left of a number gets smaller with every symbol, so the first    *)
(* number a system would write wrongly does not exist.                      *)
(***************************************************************************)
EXTENDS ListMarkers, FiniteSetTheorems, SequenceTheorems, WellFoundedInduction, TLAPS

\* A set of numbers that is not empty has a least element: induction over Nat.
LEMMA LeastNumber ==
  ASSUME NEW S \in SUBSET Nat, S # {}
  PROVE  \E x \in S : \A y \in S : x <= y
<1>1. \E x \in S : \A y \in S : ~(<<y, x>> \in OpToRel(<, Nat))
  BY WFMin, NatLessThanWellFounded
<1>2. \A x, y \in Nat : <<y, x>> \in OpToRel(<, Nat) <=> y < x
  BY DEF OpToRel
<1>3. \A x, y \in Nat : ~(y < x) <=> x <= y
  OBVIOUS
<1>4. QED
  BY <1>1, <1>2, <1>3
-----------------------------------------------------------------------------
(***************************************************************************)
(* Owners.                                                                  *)
(***************************************************************************)
Parents(d) == \A m \in 1..Len(d) : d[m].parent \in Nat /\ d[m].parent < m
IsList(d, p) == d[p].tag \in {"OL", "UL", "MENU"}
\* f gives elements up to n their nearest list.
Climbs(d, n, f) ==
  f = [p \in 0..n |-> IF p = 0 \/ IsList(d, p) THEN p ELSE f[d[p].parent]]

\* There is such a function for every n, and its values are elements.
LEMMA ClimbExists ==
  ASSUME NEW d, Len(d) \in Nat, Parents(d), NEW n \in 0..Len(d)
  PROVE  \E f \in [0..n -> 0..n] : Climbs(d, n, f) /\ \A p \in 0..n : f[p] <= p
<1> DEFINE Good(m) == \E f \in [0..m -> 0..m] : Climbs(d, m, f) /\ \A p \in 0..m : f[p] <= p
           Bad == {m \in 0..Len(d) : ~Good(m)}
<1>1. SUFFICES ASSUME Bad # {} PROVE FALSE
  BY DEF Bad
<1> HIDE DEF Good
<1>2. Bad \in SUBSET Nat
  OBVIOUS
<1> HIDE DEF Bad
<1>3. PICK m \in Bad : \A y \in Bad : m <= y
  BY <1>1, <1>2, LeastNumber
<1>4. m \in Nat /\ m <= Len(d) /\ ~Good(m)
  BY <1>3 DEF Bad
<1>5. CASE m = 0
  <2>1. Good(0)
    <3> DEFINE f == [p \in 0..0 |-> 0]
    <3>1. f \in [0..0 -> 0..0] /\ \A p \in 0..0 : f[p] <= p
      OBVIOUS
    <3>2. Climbs(d, 0, f)
      BY DEF Climbs
    <3>3. QED
      BY <3>1, <3>2 DEF Good
  <2>2. QED
    BY <1>4, <1>5, <2>1
<1>6. CASE m # 0
  <2>1. m - 1 \in Nat /\ m - 1 \in 0..Len(d) /\ m \in 1..Len(d) /\ ~(m <= m - 1)
    BY <1>4, <1>6
  <2>2. Good(m - 1)
    BY <1>3, <2>1 DEF Bad
  <2>3. PICK g \in [0..(m - 1) -> 0..(m - 1)] :
          Climbs(d, m - 1, g) /\ \A p \in 0..(m - 1) : g[p] <= p
    BY <2>2 DEF Good
  <2> DEFINE f == [p \in 0..m |-> IF p < m THEN g[p] ELSE IF IsList(d, m) THEN m ELSE g[d[m].parent]]
  <2>4. d[m].parent \in 0..(m - 1)
    BY <2>1 DEF Parents
  <2>5. f \in [0..m -> 0..m] /\ \A p \in 0..m : f[p] <= p
    <3>1. \A p \in 0..m : f[p] \in 0..m /\ f[p] <= p
      <4> SUFFICES ASSUME NEW p \in 0..m PROVE f[p] \in 0..m /\ f[p] <= p
        OBVIOUS
      <4>1. CASE p < m
        <5>1. p \in 0..(m - 1) /\ f[p] = g[p]
          BY <2>1, <4>1
        <5>2. g[p] \in 0..(m - 1) /\ g[p] <= p
          BY <2>3, <5>1
        <5>3. QED
          BY <2>1, <5>1, <5>2
      <4>2. CASE p = m
        <5>1. f[p] = IF IsList(d, m) THEN m ELSE g[d[m].parent]
          BY <2>1, <4>2
        <5>2. g[d[m].parent] \in 0..(m - 1)
          BY <2>3, <2>4
        <5>3. QED
          BY <2>1, <4>2, <5>1, <5>2
      <4>3. QED
        BY <2>1, <4>1, <4>2
    <3>2. QED
      BY <3>1
  <2>6. Climbs(d, m, f)
    <3>1. \A p \in 0..(m - 1) : f[p] = g[p]
      BY <2>1
    <3>2. \A p \in 0..(m - 1) : g[p] = IF p = 0 \/ IsList(d, p) THEN p ELSE g[d[p].parent]
      BY <2>3 DEF Climbs
    <3>3. \A p \in 1..(m - 1) : d[p].parent \in 0..(m - 1)
      BY <2>1 DEF Parents
    <3>4. \A p \in 0..m : f[p] = IF p = 0 \/ IsList(d, p) THEN p ELSE f[d[p].parent]
      <4> SUFFICES ASSUME NEW p \in 0..m
                   PROVE  f[p] = IF p = 0 \/ IsList(d, p) THEN p ELSE f[d[p].parent]
        OBVIOUS
      <4>1. CASE p = m
        BY <1>6, <2>4, <3>1, <4>1
      <4>2. CASE p # m
        <5>1. p \in 0..(m - 1)
          BY <2>1, <4>2
        <5>2. CASE p = 0
          BY <3>1, <3>2, <5>1, <5>2
        <5>3. CASE p # 0
          <6>1. p \in 1..(m - 1)
            BY <5>1, <5>3
          <6>2. f[p] = g[p] /\ f[d[p].parent] = g[d[p].parent]
            BY <3>1, <3>3, <5>1, <6>1
          <6> HIDE DEF f
          <6>3. QED
            BY <3>2, <5>1, <6>2
        <5>4. QED
          BY <5>2, <5>3
      <4>3. QED
        BY <4>1, <4>2
    <3>5. QED
      BY <3>4 DEF Climbs
  <2> HIDE DEF f
  <2>7. Good(m)
    BY <2>5, <2>6 DEF Good
  <2>8. QED
    BY <1>4, <2>7
<1>7. QED
  BY <1>5, <1>6

\* getListOwner, of a document.
Owner(d, n) ==
  LET list == CHOOSE f : Climbs(d, n, f)
      owner == list[d[n].parent]
  IN  IF owner = 0 THEN d[n].parent ELSE owner

\* An element comes after its owner.
LEMMA OwnerComesBefore ==
  ASSUME NEW d, Len(d) \in Nat, Parents(d), NEW n \in 1..Len(d)
  PROVE  Owner(d, n) \in 0..(n - 1)
<1> DEFINE list == CHOOSE f : Climbs(d, n, f)
<1>1. PICK f : Climbs(d, n, f)
  <2>1. n \in 0..Len(d)
    OBVIOUS
  <2>2. QED
    BY <2>1, ClimbExists
<1>2. Climbs(d, n, list)
  BY <1>1
<1>3. d[n].parent \in 0..(n - 1)
  BY DEF Parents
<1> HIDE DEF list
<1> DEFINE Wrong == {p \in 0..n : ~(list[p] \in 0..p)}
<1>4. Wrong = {}
  <2> SUFFICES ASSUME Wrong # {} PROVE FALSE
    OBVIOUS
  <2>1. Wrong \in SUBSET Nat
    OBVIOUS
  <2>2. PICK p \in Wrong : \A q \in Wrong : p <= q
    <3> HIDE DEF Wrong
    <3>1. QED
      BY <2>1, LeastNumber
  <2>3. list[p] = IF p = 0 \/ IsList(d, p) THEN p ELSE list[d[p].parent]
    BY <1>2, <2>2 DEF Climbs
  <2>4. CASE p = 0 \/ IsList(d, p)
    <3>1. list[p] = p /\ p \in Nat
      BY <2>2, <2>3, <2>4
    <3>2. p \in 0..p
      BY <3>1
    <3>3. QED
      BY <2>2, <3>1, <3>2
  <2>5. CASE p # 0 /\ ~IsList(d, p)
    <3>1. p \in 1..Len(d)
      BY <2>2, <2>5
    <3>2. d[p].parent \in 0..(p - 1)
      BY <3>1 DEF Parents
    <3>3. d[p].parent \notin Wrong /\ d[p].parent \in 0..n
      BY <2>2, <3>2
    <3>4. QED
      BY <2>2, <2>3, <2>5, <3>2, <3>3
  <2>6. QED
    BY <2>4, <2>5
<1>5. list[d[n].parent] \in 0..(n - 1)
  BY <1>3, <1>4
<1>6. QED
  BY <1>3, <1>5 DEF Owner, list

\* getListOwner is Owner of the document that is parsed.
LEMMA OwnerOfDoc == \A n : getListOwner(n) = Owner(doc, n)
BY DEF getListOwner, Owner, Climbs, IsList
-----------------------------------------------------------------------------
(***************************************************************************)
(* Numbers.                                                                 *)
(***************************************************************************)
IsItem(d, m) == d[m].tag = "LI"
ItemsUpTo(d, i) == {m \in 1..i : IsItem(d, m)}
\* The items of owner o among the first i elements.
Own(d, i, o) == {m \in ItemsUpTo(d, i) : Owner(d, m) = o}
Before(d, n) == Own(d, n, Owner(d, n))
Valued(d, S) == {m \in S : d[m].value # <<>>}
StartOf(d, o) == IF o # 0 /\ d[o].start # <<>> THEN d[o].start[1] ELSE 1
LastOf(S) == CHOOSE m \in S : \A o \in S : o <= m
Since(S, i) == {m \in S : m > i}
\* The number that HTML gives the last of the items `before' of an owner.
NumberOf(d, before, owner) ==
  IF Valued(d, before) = {} THEN StartOf(d, owner) + Cardinality(before) - 1
  ELSE d[LastOf(Valued(d, before))].value[1]
         + Cardinality(Since(before, LastOf(Valued(d, before))))
Number(d, n) == NumberOf(d, Before(d, n), Owner(d, n))

TypeInv ==
  /\ doc \in Docs /\ k \in Nat /\ k <= Len(doc)
  /\ DOMAIN listItems = 0..Len(doc) /\ DOMAIN listIndex = 1..Len(doc)
\* listItems ends with the last item of each owner.
LastKept ==
  \A o \in 0..Len(doc) :
    /\ Own(doc, k, o) = {} => listItems[o] = <<>>
    /\ Own(doc, k, o) # {} => /\ listItems[o] \in Seq(Nat) /\ listItems[o] # <<>>
                              /\ Last(listItems[o]) \in Own(doc, k, o)
                              /\ \A m \in Own(doc, k, o) : m <= Last(listItems[o])
Numbered == \A n \in ItemsUpTo(doc, k) : listIndex[n] = Number(doc, n)
ItemsInv == TypeInv /\ LastKept /\ Numbered

\* Numbered is NumberingIsHTML.
LEMMA NumberedIsHTML ==
  ASSUME TypeInv PROVE Numbered <=> NumberingIsHTML
<1>1. Items = ItemsUpTo(doc, k)
  BY DEF Items, ItemsUpTo, IsItem
<1>2. ASSUME NEW n \in Items
      PROVE  {m \in Items : m <= n /\ getListOwner(m) = getListOwner(n)} = Before(doc, n)
  BY <1>1, <1>2, OwnerOfDoc DEF Before, Own, ItemsUpTo, TypeInv
<1> DEFINE Reference(n) ==
      LET before == {m \in Items : m <= n /\ getListOwner(m) = getListOwner(n)}
          valued == {m \in before : doc[m].value # <<>>}
          owner == getListOwner(n)
          start == IF owner # 0 /\ doc[owner].start # <<>> THEN doc[owner].start[1] ELSE 1
      IN  IF valued = {} THEN start + Cardinality(before) - 1
          ELSE LET last == CHOOSE m \in valued : \A o \in valued : o <= m
               IN  doc[last].value[1] + Cardinality({m \in before : m > last})
<1>3. ASSUME NEW n \in Items PROVE Reference(n) = Number(doc, n)
  <2>1. Reference(n) = NumberOf(doc, {m \in Items : m <= n /\ getListOwner(m) = getListOwner(n)},
                                getListOwner(n))
    BY Zenon DEF NumberOf, Valued, StartOf, LastOf, Since
  <2>2. getListOwner(n) = Owner(doc, n)
    BY OwnerOfDoc
  <2> HIDE DEF Reference
  <2>3. QED
    BY <1>2, <1>3, <2>1, <2>2, Zenon DEF Number
<1>4. NumberingIsHTML <=> \A n \in Items : listIndex[n] = Reference(n)
  BY Zenon DEF NumberingIsHTML
<1>5. QED
  BY <1>1, <1>3, <1>4, Zenon DEF Numbered

LEMMA DocShape ==
  ASSUME NEW d \in Docs
  PROVE  /\ Len(d) \in Nat /\ Parents(d)
         /\ \A m \in 1..Len(d) : /\ d[m].start \in Seq(Int) /\ d[m].value \in Seq(Int)
                                 /\ d[m].start # <<>> => d[m].start[1] \in Int
                                 /\ d[m].value # <<>> => d[m].value[1] \in Int
<1> DEFINE Shape == [tag : STRING, parent : Nat, start : Seq(Int), value : Seq(Int), type : STRING,
                     visible : BOOLEAN]
<1>1. d \in Seq(Shape) /\ \A n \in DOMAIN d : d[n].parent < n
  BY DocsAssumption
<1>2. Len(d) \in Nat /\ DOMAIN d = 1..Len(d) /\ \A n \in 1..Len(d) : d[n] \in Shape
  <2> HIDE DEF Shape
  <2>1. QED
    BY <1>1
<1>3. \A e \in Shape : e.parent \in Nat /\ e.start \in Seq(Int) /\ e.value \in Seq(Int)
  OBVIOUS
<1>4. \A q \in Seq(Int) : q # <<>> => q[1] \in Int
  OBVIOUS
<1> HIDE DEF Shape
<1>5. QED
  BY <1>1, <1>2, <1>3, <1>4 DEF Parents

\* The first i elements hold finitely many items.
LEMMA OwnFinite ==
  ASSUME NEW d, NEW i \in Nat, NEW o
  PROVE  IsFiniteSet(Own(d, i, o)) /\ Cardinality(Own(d, i, o)) \in Nat
<1>1. IsFiniteSet(1..i)
  BY FS_Interval
<1>2. Own(d, i, o) \subseteq 1..i
  BY DEF Own, ItemsUpTo
<1>3. QED
  BY <1>1, <1>2, FS_Subset, FS_CardinalityType

LEMMA LastOfIsLast ==
  ASSUME NEW i \in Nat, NEW S \in SUBSET (1..i), S # {}
  PROVE  LastOf(S) \in S /\ \A o \in S : o <= LastOf(S)
<1> DEFINE Above == {x \in Nat : \A m \in S : m <= x}
<1>1. Above \in SUBSET Nat /\ i \in Above
  OBVIOUS
<1>2. PICK x \in Above : \A y \in Above : x <= y
  <2> HIDE DEF Above
  <2>1. QED
    BY <1>1, LeastNumber
<1>3. x \in S
  <2>1. SUFFICES ASSUME x \notin S PROVE FALSE
    OBVIOUS
  <2>2. x \in Nat /\ \A m \in S : m <= x /\ m \in Nat /\ m >= 1 /\ m # x
    BY <1>2, <2>1
  <2>3. x - 1 \in Nat /\ \A m \in S : m <= x - 1
    <3>1. PICK m \in S : m \in Nat /\ m <= x /\ m >= 1 /\ m # x
      BY <2>2
    <3>2. x - 1 \in Nat
      BY <2>2, <3>1
    <3>3. ASSUME NEW q \in S PROVE q <= x - 1
      <4>1. q \in Nat /\ q <= x /\ q # x /\ x \in Nat
        BY <2>2
      <4>2. QED
        BY <4>1
    <3>4. QED
      BY <3>2, <3>3
  <2>4. x - 1 \in Above
    BY <2>3
  <2>5. QED
    BY <1>2, <2>2, <2>4
<1>4. \A m \in S : m <= x
  BY <1>2
<1>5. QED
  BY <1>3, <1>4 DEF LastOf

\* The number of a new item: its value; or else the start of its list, if it is the
\* first; or else one more than the item of its owner before.
LEMMA NextNumber ==
  ASSUME NEW d \in Docs, NEW n \in 1..Len(d), IsItem(d, n)
  PROVE  LET own == Own(d, n - 1, Owner(d, n)) IN
         /\ d[n].value # <<>> => Number(d, n) = d[n].value[1]
         /\ d[n].value = <<>> /\ own = {} => Number(d, n) = StartOf(d, Owner(d, n))
         /\ \A p \in own : d[n].value = <<>> /\ (\A m \in own : m <= p)
                             => Number(d, n) = Number(d, p) + 1
<1> DEFINE o == Owner(d, n)
           own == Own(d, n - 1, o)
           before == Before(d, n)
<1>1. /\ Len(d) \in Nat
      /\ \A m \in 1..Len(d) : d[m].value # <<>> => d[m].value[1] \in Int
      /\ \A m \in 1..Len(d) : d[m].start # <<>> => d[m].start[1] \in Int
  <2>1. /\ Len(d) \in Nat /\ Parents(d)
        /\ \A m \in 1..Len(d) : /\ d[m].start \in Seq(Int) /\ d[m].value \in Seq(Int)
                                /\ d[m].start # <<>> => d[m].start[1] \in Int
                                /\ d[m].value # <<>> => d[m].value[1] \in Int
    BY DocShape
  <2>2. QED
    BY <2>1
<1>2. o \in 0..(n - 1)
  BY <1>1, DocShape, OwnerComesBefore
<1>3. StartOf(d, o) \in Int
  BY <1>1, <1>2 DEF StartOf
<1>4. before = own \cup {n} /\ n \notin own /\ own \subseteq 1..(n - 1) /\ n - 1 \in Nat
  BY <1>1 DEF Before, Own, ItemsUpTo
<1>5. IsFiniteSet(own) /\ Cardinality(own) \in Nat
  BY <1>4, OwnFinite
<1>6. Cardinality(before) = Cardinality(own) + 1
  BY <1>4, <1>5, FS_AddElement
<1>7. Number(d, n) = NumberOf(d, before, o)
  BY DEF Number
<1> HIDE DEF before
<1>8. ASSUME d[n].value # <<>> PROVE Number(d, n) = d[n].value[1]
  <2>1. n \in Valued(d, before) /\ Valued(d, before) \subseteq before
    BY <1>4, <1>8 DEF Valued
  <2>2. before \subseteq 1..n /\ n \in Nat
    BY <1>4
  <2>3. LastOf(Valued(d, before)) = n
    <3>1. /\ LastOf(Valued(d, before)) \in 1..n
          /\ n <= LastOf(Valued(d, before))
      BY <2>1, <2>2, LastOfIsLast
    <3>2. QED
      BY <3>1, <2>2
  <2>4. Since(before, n) = {}
    <3>1. \A m \in before : m \in Nat /\ m <= n
      BY <2>2
    <3>2. \A m \in before : ~(m > n)
      BY <2>2, <3>1
    <3>3. QED
      BY <3>2 DEF Since
  <2>5. Number(d, n) = d[n].value[1] + Cardinality({})
    BY <1>7, <2>1, <2>3, <2>4 DEF NumberOf
  <2>6. d[n].value[1] \in Int
    BY <1>1, <1>8
  <2>7. QED
    BY <2>5, <2>6, FS_EmptySet
<1>9. ASSUME d[n].value = <<>>, own = {} PROVE Number(d, n) = StartOf(d, o)
  <2>1. Valued(d, before) = {}
    BY <1>4, <1>9 DEF Valued
  <2>2. Cardinality(own) = 0
    BY <1>9, FS_EmptySet
  <2>3. Number(d, n) = StartOf(d, o) + Cardinality(before) - 1
    BY <1>7, <2>1 DEF NumberOf
  <2>4. QED
    BY <1>3, <1>6, <2>2, <2>3
<1>10. ASSUME NEW p \in own, d[n].value = <<>>, \A m \in own : m <= p
       PROVE  Number(d, n) = Number(d, p) + 1
  <2>1. p \in 1..(n - 1) /\ Owner(d, p) = o
    BY <1>4 DEF own, Own
  <2>2. Before(d, p) = own
    BY <1>1, <1>4, <1>10, <2>1 DEF Before, Own, ItemsUpTo
  <2>3. Number(d, p) = NumberOf(d, own, o)
    BY <2>1, <2>2 DEF Number
  <2>4. Valued(d, before) = Valued(d, own) /\ Valued(d, own) \subseteq own
    BY <1>4, <1>10 DEF Valued
  <2> DEFINE last == LastOf(Valued(d, own))
  <2> HIDE DEF own
  <2>5. CASE Valued(d, own) = {}
    <3>1. Number(d, n) = StartOf(d, o) + Cardinality(before) - 1
      BY <1>7, <2>4, <2>5 DEF NumberOf
    <3>2. Number(d, p) = StartOf(d, o) + Cardinality(own) - 1
      BY <2>3, <2>5 DEF NumberOf
    <3>3. QED
      BY <1>3, <1>5, <1>6, <3>1, <3>2
  <2>6. CASE Valued(d, own) # {}
    <3>1. Valued(d, own) \in SUBSET (1..(n - 1))
      BY <1>4, <2>4
    <3>2. last \in Valued(d, own)
      BY <1>4, <2>6, <3>1, LastOfIsLast
    <3>3. last \in 1..(n - 1) /\ d[last].value # <<>>
      BY <3>1, <3>2 DEF Valued
    <3>4. d[last].value[1] \in Int
      BY <1>1, <3>3
    <3> HIDE DEF last
    <3>5. Since(before, last) = Since(own, last) \cup {n} /\ n \notin Since(own, last)
      BY <1>4, <3>3 DEF Since
    <3>6. IsFiniteSet(Since(own, last))
      BY <1>5, FS_Subset DEF Since
    <3>7. /\ Cardinality(Since(own, last)) \in Nat
          /\ Cardinality(Since(before, last)) = Cardinality(Since(own, last)) + 1
      BY <3>5, <3>6, FS_AddElement, FS_CardinalityType
    <3>8. /\ Number(d, n) = d[last].value[1] + Cardinality(Since(before, last))
          /\ Number(d, p) = d[last].value[1] + Cardinality(Since(own, last))
      BY <1>7, <2>3, <2>4, <2>6 DEF NumberOf, last
    <3>9. QED
      BY <3>4, <3>7, <3>8
  <2>7. QED
    BY <2>5, <2>6
<1>11. QED
  BY <1>8, <1>9, <1>10
-----------------------------------------------------------------------------
(***************************************************************************)
(* The invariant.                                                           *)
(***************************************************************************)
LEMMA InitItems == Init => ItemsInv
<1> SUFFICES ASSUME Init PROVE ItemsInv
  OBVIOUS
<1>1. TypeInv
  BY DocShape DEF Init, TypeInv
<1>2. ItemsUpTo(doc, 0) = {}
  BY DEF ItemsUpTo
<1>3. QED
  BY <1>1, <1>2 DEF Init, ItemsInv, LastKept, Numbered, Own

LEMMA ItemsStep ==
  ASSUME ItemsInv, ParseElement
  PROVE  ItemsInv'
<1> DEFINE n == k + 1
           o == Owner(doc, n)
           item == IsItem(doc, n)
<1>1. /\ doc \in Docs /\ k \in Nat /\ k < Len(doc) /\ Len(doc) \in Nat /\ Parents(doc)
      /\ doc' = doc /\ k' = n
      /\ DOMAIN listItems = 0..Len(doc) /\ DOMAIN listIndex = 1..Len(doc)
  BY DocShape DEF ItemsInv, TypeInv, ParseElement
<1>2. n \in 1..Len(doc) /\ n \in Nat /\ n - 1 = k
  BY <1>1
<1>3. o \in 0..k /\ o \in 0..Len(doc)
  BY <1>1, <1>2, OwnerComesBefore
<1>4. /\ item => /\ listIndex' = [listIndex EXCEPT ![n] = indexOf(n, listItems[o])]
                  /\ listItems' = [listItems EXCEPT ![o] = Append(@, n)]
      /\ ~item => UNCHANGED <<listItems, listIndex>>
  BY OwnerOfDoc DEF ParseElement, IsItem
<1>5. TypeInv'
  BY <1>1, <1>2, <1>4 DEF TypeInv
<1>6. ItemsUpTo(doc, n) = IF item THEN ItemsUpTo(doc, k) \cup {n} ELSE ItemsUpTo(doc, k)
  BY <1>1, <1>2 DEF ItemsUpTo
<1>7. LastKept'
  <2> SUFFICES ASSUME NEW q \in 0..Len(doc)
               PROVE  /\ Own(doc, n, q) = {} => listItems'[q] = <<>>
                      /\ Own(doc, n, q) # {} =>
                           /\ listItems'[q] \in Seq(Nat) /\ listItems'[q] # <<>>
                           /\ Last(listItems'[q]) \in Own(doc, n, q)
                           /\ \A m \in Own(doc, n, q) : m <= Last(listItems'[q])
    BY <1>1 DEF LastKept
  <2>1. /\ Own(doc, k, q) = {} => listItems[q] = <<>>
        /\ Own(doc, k, q) # {} => /\ listItems[q] \in Seq(Nat) /\ listItems[q] # <<>>
                                  /\ Last(listItems[q]) \in Own(doc, k, q)
                                  /\ \A m \in Own(doc, k, q) : m <= Last(listItems[q])
    BY DEF ItemsInv, LastKept
  <2>2. CASE item /\ q = o
    <3>1. Own(doc, n, q) = Own(doc, k, q) \cup {n}
      BY <1>6, <2>2 DEF Own
    <3>2. listItems[q] \in Seq(Nat)
      <4>1. <<>> \in Seq(Nat)
        OBVIOUS
      <4>2. QED
        BY <2>1, <4>1
    <3>3. listItems'[q] = Append(listItems[q], n)
      BY <1>1, <1>3, <1>4, <2>2
    <3>4. listItems'[q] \in Seq(Nat) /\ listItems'[q] # <<>> /\ Last(listItems'[q]) = n
      BY <1>2, <3>2, <3>3 DEF Last
    <3>5. \A m \in Own(doc, k, q) : m <= n
      BY <1>1 DEF Own, ItemsUpTo
    <3>6. n <= n /\ n \in Own(doc, n, q)
      BY <1>2, <3>1
    <3>7. \A m \in Own(doc, n, q) : m <= n
      BY <3>1, <3>5, <3>6
    <3>8. QED
      BY <3>4, <3>6, <3>7
  <2>3. CASE ~(item /\ q = o)
    <3>1. Own(doc, n, q) = Own(doc, k, q)
      BY <1>6, <2>3 DEF Own
    <3>2. listItems'[q] = listItems[q]
      BY <1>1, <1>3, <1>4, <2>3
    <3>3. QED
      BY <2>1, <3>1, <3>2
  <2>4. QED
    BY <2>2, <2>3
<1>8. Numbered'
  <2> SUFFICES ASSUME NEW m \in ItemsUpTo(doc, n) PROVE listIndex'[m] = Number(doc, m)
    BY <1>1 DEF Numbered
  <2>1. CASE m \in ItemsUpTo(doc, k)
    <3>1. m \in 1..k
      BY <2>1 DEF ItemsUpTo
    <3>2. listIndex'[m] = listIndex[m]
      BY <1>1, <1>4, <3>1
    <3>3. QED
      BY <2>1, <3>2 DEF ItemsInv, Numbered
  <2>2. CASE item /\ m = n
    <3> DEFINE own == Own(doc, k, o)
    <3>1. listIndex'[n] = indexOf(n, listItems[o])
      BY <1>1, <1>2, <1>4, <2>2
    <3>2. /\ own = {} => listItems[o] = <<>>
          /\ own # {} => /\ listItems[o] # <<>> /\ Last(listItems[o]) \in own
                         /\ \A q \in own : q <= Last(listItems[o])
      BY <1>3 DEF ItemsInv, LastKept
    <3>3. /\ doc[n].value # <<>> => Number(doc, n) = doc[n].value[1]
          /\ doc[n].value = <<>> /\ own = {} => Number(doc, n) = StartOf(doc, o)
          /\ \A p \in own : doc[n].value = <<>> /\ (\A q \in own : q <= p)
                              => Number(doc, n) = Number(doc, p) + 1
      BY <1>1, <1>2, <2>2, NextNumber
    <3>4. own # {} => listIndex[Last(listItems[o])] = Number(doc, Last(listItems[o]))
      BY <3>2 DEF ItemsInv, Numbered, Own
    <3> HIDE DEF own
    <3>5. indexOf(n, listItems[o]) =
            IF doc[n].value # <<>> THEN doc[n].value[1]
            ELSE IF own # {} THEN listIndex[Last(listItems[o])] + 1 ELSE StartOf(doc, o)
      BY <3>2, OwnerOfDoc DEF indexOf, StartOf
    <3>6. QED
      BY <2>2, <3>1, <3>2, <3>3, <3>4, <3>5
  <2>3. QED
    BY <1>6, <2>1, <2>2
<1>9. QED
  BY <1>5, <1>7, <1>8 DEF ItemsInv

LEMMA ItemsInvariant == Spec => []ItemsInv
<1>1. ASSUME ItemsInv, [Next]_vars PROVE ItemsInv'
  <2>1. CASE ParseElement
    BY <1>1, <2>1, ItemsStep
  <2>2. CASE UNCHANGED vars
    BY <1>1, <2>2 DEF vars, ItemsInv, TypeInv, LastKept, Numbered
  <2>3. QED
    BY <1>1, <2>1, <2>2 DEF Next
<1>2. QED
  BY <1>1, InitItems, PTL DEF Spec

\* Whatever the document, an item has the number that HTML gives it, though the
\* parser looks at nothing but the last item of the same owner.
THEOREM NumbersAreHTML == Spec => []NumberingIsHTML
<1>1. ItemsInv => NumberingIsHTML
  BY NumberedIsHTML DEF ItemsInv
<1>2. QED
  BY <1>1, ItemsInvariant, PTL
-----------------------------------------------------------------------------
(***************************************************************************)
(* Additive systems: the symbols fall by a factor of at most c, so what is  *)
(* left after one of them holds the next less than c times.                 *)
(***************************************************************************)
Near(x, y, c) == x > y /\ x <= c * y
Falls(s, c) ==
  /\ s \in Seq(Nat \ {0}) /\ s # <<>>
  /\ \A i \in 1..(Len(s) - 1) : Near(s[i], s[i + 1], c)

\* No symbol is behind a smaller one, nor is it c times in the text.
Canonical(out, c) ==
  \A a, b \in 1..Len(out) : a < b => out[a] >= out[b] /\ (b - a > c - 2 => out[a] > out[b])

Joined(s, t) == s \o t

LEMMA FallsConcat ==
  ASSUME NEW c \in Nat \ {0}, NEW s, NEW t, Falls(s, c), Falls(t, c),
         Near(s[Len(s)], t[1], c)
  PROVE  /\ Falls(Joined(s, t), c) /\ Joined(s, t)[1] = s[1]
         /\ Joined(s, t)[Len(Joined(s, t))] = t[Len(t)]
<1> DEFINE st == Joined(s, t)
<1>1. s \in Seq(Nat \ {0}) /\ t \in Seq(Nat \ {0}) /\ s # <<>> /\ t # <<>>
  BY DEF Falls
<1>2. Len(s) \in Nat \ {0} /\ Len(t) \in Nat \ {0}
  BY <1>1
<1>3. /\ st \in Seq(Nat \ {0}) /\ Len(st) = Len(s) + Len(t)
      /\ \A i \in 1..Len(s) : st[i] = s[i]
      /\ \A i \in 1..Len(t) : st[Len(s) + i] = t[i]
  BY <1>1 DEF Joined
<1> HIDE DEF st
<1>4. st # <<>> /\ st[1] = s[1] /\ st[Len(st)] = t[Len(t)]
  BY <1>2, <1>3
<1>5. ASSUME NEW i \in 1..(Len(st) - 1)
      PROVE  Near(st[i], st[i + 1], c)
  <2>1. CASE i < Len(s)
    <3>1. i \in 1..(Len(s) - 1) /\ st[i] = s[i] /\ st[i + 1] = s[i + 1]
      BY <1>2, <1>3, <2>1
    <3>2. QED
      BY <3>1 DEF Falls
  <2>2. CASE i = Len(s)
    <3>1. st[i] = s[Len(s)] /\ st[i + 1] = t[1]
      BY <1>2, <1>3, <2>2
    <3>2. QED
      BY <3>1
  <2>3. CASE i > Len(s)
    <3> DEFINE j == i - Len(s)
    <3>1. j \in 1..(Len(t) - 1) /\ i = Len(s) + j /\ i + 1 = Len(s) + (j + 1)
      BY <1>2, <1>3, <2>3
    <3>2. j \in 1..Len(t) /\ j + 1 \in 1..Len(t)
      BY <1>2, <3>1
    <3>3. st[i] = t[j] /\ st[i + 1] = t[j + 1]
      <4> HIDE DEF j
      <4>1. st[Len(s) + j] = t[j] /\ st[Len(s) + (j + 1)] = t[j + 1]
        BY <1>3, <3>2
      <4>2. QED
        BY <3>1, <4>1
    <3> HIDE DEF j
    <3>4. Near(t[j], t[j + 1], c)
      BY <3>1 DEF Falls
    <3>5. QED
      BY <3>3, <3>4
  <2>4. QED
    BY <1>2, <1>3, <2>1, <2>2, <2>3
<1>6. QED
  BY <1>3, <1>4, <1>5 DEF Falls, st

LEMMA DescendingFalls ==
  ASSUME NEW power \in {1, 10, 100, 1000}, NEW from \in 1..10
  PROVE  /\ Falls(Descending(power, from), 2)
         /\ Descending(power, from)[1] = from * power
         /\ Descending(power, from)[Len(Descending(power, from))] = power
<1> DEFINE s == Descending(power, from)
<1>1. \A i \in 1..from : (from + 1 - i) * power \in Nat \ {0}
  OBVIOUS
<1>2. /\ s \in Seq(Nat \ {0}) /\ Len(s) = from
      /\ \A i \in 1..from : s[i] = (from + 1 - i) * power
  BY <1>1 DEF Descending
<1> HIDE DEF s
<1>3. ASSUME NEW i \in 1..(from - 1)
      PROVE  Near(s[i], s[i + 1], 2)
  <2>1. s[i] = (from + 1 - i) * power /\ s[i + 1] = (from - i) * power
    BY <1>2
  <2>2. QED
    BY <2>1 DEF Near
<1>4. s[1] = from * power /\ s[from] = power /\ s # <<>>
  BY <1>2
<1>5. QED
  BY <1>2, <1>3, <1>4 DEF Falls, s

LEMMA RomanFalls == Falls(ROMAN, 4) /\ ROMAN[1] = 1000 /\ ROMAN[Len(ROMAN)] = 1
<1>1. ROMAN \in Seq(Nat \ {0}) /\ ROMAN # <<>> /\ Len(ROMAN) = 13
  BY DEF ROMAN
<1>2. /\ ROMAN[1] = 1000 /\ ROMAN[2] = 900 /\ ROMAN[3] = 500 /\ ROMAN[4] = 400
      /\ ROMAN[5] = 100 /\ ROMAN[6] = 90 /\ ROMAN[7] = 50 /\ ROMAN[8] = 40
      /\ ROMAN[9] = 10 /\ ROMAN[10] = 9 /\ ROMAN[11] = 5 /\ ROMAN[12] = 4 /\ ROMAN[13] = 1
  BY DEF ROMAN
<1>3. ASSUME NEW i \in 1..12
      PROVE  Near(ROMAN[i], ROMAN[i + 1], 4)
  <2>1. CASE i \in 1..4
    <3>1. i = 1 \/ i = 2 \/ i = 3 \/ i = 4
      BY <2>1
    <3>2. QED
      BY <1>2, <3>1 DEF Near
  <2>2. CASE i \in 5..8
    <3>1. i = 5 \/ i = 6 \/ i = 7 \/ i = 8
      BY <2>2
    <3>2. QED
      BY <1>2, <3>1 DEF Near
  <2>3. CASE i \in 9..12
    <3>1. i = 9 \/ i = 10 \/ i = 11 \/ i = 12
      BY <2>3
    <3>2. QED
      BY <1>2, <3>1 DEF Near
  <2>4. QED
    BY <2>1, <2>2, <2>3
<1>4. Len(ROMAN) - 1 = 12
  <2>1. Len(ROMAN) = 13
    BY <1>1
  <2>2. QED
    BY <2>1
<1>5. QED
  BY <1>1, <1>3, <1>4, <1>2 DEF Falls

LEMMA ArmenianFalls ==
  /\ Falls(ARMENIAN, 2) /\ ARMENIAN[1] = 9000 /\ ARMENIAN[Len(ARMENIAN)] = 1
  /\ Falls(GEORGIAN, 2) /\ GEORGIAN[1] = 10000 /\ GEORGIAN[Len(GEORGIAN)] = 1
<1> DEFINE d4 == Descending(1000, 9)
           d3 == Descending(100, 9)
           d2 == Descending(10, 9)
           d1 == Descending(1, 9)
           d5 == Descending(1000, 10)
<1>1. /\ Falls(d1, 2) /\ d1[1] = 9 /\ d1[Len(d1)] = 1
      /\ Falls(d2, 2) /\ d2[1] = 90 /\ d2[Len(d2)] = 10
      /\ Falls(d3, 2) /\ d3[1] = 900 /\ d3[Len(d3)] = 100
      /\ Falls(d4, 2) /\ d4[1] = 9000 /\ d4[Len(d4)] = 1000
      /\ Falls(d5, 2) /\ d5[1] = 10000 /\ d5[Len(d5)] = 1000
  BY DescendingFalls
<1> HIDE DEF d1, d2, d3, d4, d5
<1>2. \A x, y : Falls(x, 2) /\ Falls(y, 2) /\ Near(x[Len(x)], y[1], 2) =>
        /\ Falls(Joined(x, y), 2) /\ Joined(x, y)[1] = x[1]
        /\ Joined(x, y)[Len(Joined(x, y))] = y[Len(y)]
  <2>1. 2 \in Nat \ {0}
    OBVIOUS
  <2>2. QED
    BY <2>1, FallsConcat
<1> DEFINE All(d) == Joined(Joined(Joined(d, d3), d2), d1)
           Fine(d) == Falls(All(d), 2) /\ All(d)[1] = d[1] /\ All(d)[Len(All(d))] = 1
<1>3. ASSUME NEW d, Falls(d, 2), d[Len(d)] = 1000 PROVE Fine(d)
  <2> DEFINE e == Joined(d, d3)
             g == Joined(e, d2)
  <2>1. /\ Falls(e, 2) /\ e[1] = d[1] /\ e[Len(e)] = 100
    <3>1. Near(d[Len(d)], d3[1], 2)
      BY <1>1, <1>3 DEF Near
    <3>2. QED
      BY <1>2, <1>1, <1>3, <3>1
  <2> HIDE DEF e
  <2>2. Falls(g, 2) /\ g[1] = e[1] /\ g[Len(g)] = 10
    <3>1. Near(e[Len(e)], d2[1], 2)
      BY <1>1, <2>1 DEF Near
    <3>2. QED
      BY <1>2, <1>1, <2>1, <3>1
  <2> HIDE DEF g
  <2>3. /\ Falls(Joined(g, d1), 2) /\ Joined(g, d1)[1] = g[1]
        /\ Joined(g, d1)[Len(Joined(g, d1))] = 1
    <3>1. Near(g[Len(g)], d1[1], 2)
      BY <1>1, <2>2 DEF Near
    <3>2. QED
      BY <1>2, <1>1, <2>2, <3>1
  <2>4. QED
    BY <2>1, <2>2, <2>3 DEF e, g
<1>4. /\ ARMENIAN = Joined(Joined(Joined(d4, d3), d2), d1)
      /\ GEORGIAN = Joined(Joined(Joined(d5, d3), d2), d1)
  BY DEF ARMENIAN, GEORGIAN, Joined, d1, d2, d3, d4, d5
<1> HIDE DEF Fine
<1>5. Fine(d4) /\ Fine(d5)
  BY <1>1, <1>3
<1>6. ARMENIAN = All(d4) /\ GEORGIAN = All(d5)
  BY <1>4
<1> HIDE DEF All
<1>7. QED
  BY <1>1, <1>5, <1>6 DEF Fine

\* The factor: no Roman symbol stands four times in a number, no other twice.
Factor(type) == IF type \in {"lower-roman", "upper-roman"} THEN 4 ELSE 2

Reaches(s, c, max) == \A value \in 1..max : value < c * s[1]

LEMMA AdditiveFalls ==
  ASSUME NEW type \in DOMAIN Additive
  PROVE  /\ Falls(Additive[type].integers, Factor(type))
         /\ Reaches(Additive[type].integers, Factor(type), Additive[type].max)
         /\ Additive[type].integers[Len(Additive[type].integers)] = 1
<1>1. type \in {"lower-roman", "upper-roman", "armenian", "upper-armenian", "lower-armenian", "georgian"}
  BY DEF Additive
<1>2. CASE type \in {"lower-roman", "upper-roman"}
  <2>1. Additive[type] = [max |-> 3999, integers |-> ROMAN] /\ Factor(type) = 4
    BY <1>2 DEF Additive, Factor
  <2>2. Additive[type].max = 3999 /\ Additive[type].integers = ROMAN
    BY <2>1
  <2>3. Falls(ROMAN, 4) /\ Reaches(ROMAN, 4, 3999) /\ ROMAN[Len(ROMAN)] = 1
    BY RomanFalls DEF Reaches
  <2>4. QED
    BY <2>1, <2>2, <2>3
<1>3. CASE type = "georgian"
  <2>1. Additive[type] = [max |-> 19999, integers |-> GEORGIAN] /\ Factor(type) = 2
    BY <1>3 DEF Additive, Factor
  <2>2. Additive[type].max = 19999 /\ Additive[type].integers = GEORGIAN
    BY <2>1
  <2>3. Falls(GEORGIAN, 2) /\ Reaches(GEORGIAN, 2, 19999) /\ GEORGIAN[Len(GEORGIAN)] = 1
    BY ArmenianFalls DEF Reaches
  <2>4. QED
    BY <2>1, <2>2, <2>3
<1>4. CASE type \in {"armenian", "upper-armenian", "lower-armenian"}
  <2>1. Additive[type] = [max |-> 9999, integers |-> ARMENIAN] /\ Factor(type) = 2
    BY <1>4 DEF Additive, Factor
  <2>2. Additive[type].max = 9999 /\ Additive[type].integers = ARMENIAN
    BY <2>1
  <2>3. Falls(ARMENIAN, 2) /\ Reaches(ARMENIAN, 2, 9999) /\ ARMENIAN[Len(ARMENIAN)] = 1
    BY ArmenianFalls DEF Reaches
  <2>4. QED
    BY <2>1, <2>2, <2>3
<1>5. QED
  BY <1>1, <1>2, <1>3, <1>4

\* The function of createAdditiveCounter, for the first n symbols of s.
Writing(value, s, n, f) ==
  f = [i \in 0..n |->
         IF i = 0 THEN [left |-> value, out |-> <<>>]
         ELSE [left |-> f[i - 1].left % s[i],
               out  |-> f[i - 1].out \o Times(s[i], f[i - 1].left \div s[i])]]

LEMMA WritingExists ==
  ASSUME NEW value, NEW s, NEW n \in Nat
  PROVE  \E f : Writing(value, s, n, f)
<1> DEFINE Bad == {m \in Nat : ~\E f : Writing(value, s, m, f)}
<1>1. SUFFICES ASSUME Bad # {} PROVE FALSE
  BY DEF Bad
<1>2. PICK m \in Bad : \A y \in Bad : m <= y
  BY <1>1, LeastNumber
<1>3. m \in Nat /\ ~\E f : Writing(value, s, m, f)
  BY <1>2
<1>4. CASE m = 0
  <2> DEFINE f == [i \in 0..0 |-> [left |-> value, out |-> <<>>]]
  <2>1. Writing(value, s, 0, f)
    <3>1. \A i \in 0..0 : i = 0
      OBVIOUS
    <3>2. QED
      BY <3>1 DEF Writing
  <2>2. QED
    BY <1>3, <1>4, <2>1
<1>5. CASE m # 0
  <2>1. m - 1 \in Nat /\ ~(m <= m - 1) /\ m - 1 \notin Bad
    BY <1>2, <1>3, <1>5
  <2>2. PICK g : Writing(value, s, m - 1, g)
    BY <2>1
  <2> DEFINE f == [i \in 0..m |->
                     IF i < m THEN g[i]
                     ELSE [left |-> g[m - 1].left % s[m],
                           out  |-> g[m - 1].out \o Times(s[m], g[m - 1].left \div s[m])]]
  <2>3. \A i \in 0..(m - 1) : f[i] = g[i]
    BY <2>1
  <2>4. ASSUME NEW i \in 0..m
        PROVE  f[i] = IF i = 0 THEN [left |-> value, out |-> <<>>]
                      ELSE [left |-> f[i - 1].left % s[i],
                            out  |-> f[i - 1].out \o Times(s[i], f[i - 1].left \div s[i])]
    <3>1. CASE i = m
      <4>1. m - 1 \in 0..(m - 1) /\ m \in 0..m /\ ~(m < m)
        BY <1>3, <2>1
      <4>2. f[m - 1] = g[m - 1]
        BY <2>3, <4>1
      <4>3. f[m] = [left |-> g[m - 1].left % s[m],
                    out  |-> g[m - 1].out \o Times(s[m], g[m - 1].left \div s[m])]
        BY <4>1
      <4> HIDE DEF f
      <4>4. QED
        BY <1>5, <3>1, <4>2, <4>3
    <3>2. CASE i # m /\ i = 0
      <4>1. 0 \in 0..(m - 1)
        BY <1>3, <1>5
      <4>2. f[0] = g[0] /\ g[0] = [left |-> value, out |-> <<>>]
        BY <2>2, <2>3, <4>1 DEF Writing
      <4>3. QED
        BY <3>2, <4>2
    <3>3. CASE i # m /\ i # 0
      <4>1. i \in 0..(m - 1) /\ i - 1 \in 0..(m - 1)
        BY <1>3, <3>3
      <4>2. f[i] = g[i] /\ f[i - 1] = g[i - 1]
        BY <2>3, <4>1
      <4>3. g[i] = [left |-> g[i - 1].left % s[i],
                    out  |-> g[i - 1].out \o Times(s[i], g[i - 1].left \div s[i])]
        BY <2>2, <3>3, <4>1 DEF Writing
      <4> HIDE DEF f
      <4>4. QED
        BY <3>3, <4>2, <4>3
    <3>4. QED
      BY <3>1, <3>2, <3>3
  <2>5. Writing(value, s, m, f)
    BY <2>4 DEF Writing
  <2> HIDE DEF f
  <2>6. QED
    BY <1>3, <2>5
<1>6. QED
  BY <1>4, <1>5

\* What has been written is canonical, of symbols passed, and what is left is less
\* than the last of them.
Fine(s, c, i, w) ==
  /\ w.left \in Nat /\ w.out \in Seq(Nat)
  /\ Canonical(w.out, c)
  /\ i = 0 => w.out = <<>> /\ w.left < c * s[1]
  /\ i # 0 => w.left < s[i] /\ \A j \in 1..Len(w.out) : w.out[j] >= s[i]

\* One more symbol x.
LEMMA FineStep ==
  ASSUME NEW c \in Nat \ {0}, NEW x \in Nat \ {0}, NEW left \in Nat, NEW out \in Seq(Nat),
         left < c * x, Canonical(out, c), \A j \in 1..Len(out) : out[j] > x
  PROVE  LET more == out \o Times(x, left \div x)
         IN  /\ left % x \in Nat /\ left % x < x
             /\ more \in Seq(Nat) /\ Canonical(more, c)
             /\ \A j \in 1..Len(more) : more[j] >= x
<1> DEFINE q == left \div x
           more == out \o Times(x, q)
<1>1. left % x \in Nat /\ left % x < x
  OBVIOUS
<1>2. q \in 0..(c - 1)
  <2>1. q \in Nat /\ left = (x * q) + (left % x)
    OBVIOUS
  <2>2. CASE q >= c
    <3>1. x * q >= x * c
      <4> DEFINE rest == q - c
      <4>1. rest \in Nat /\ q = c + rest
        BY <2>1, <2>2
      <4> HIDE DEF rest, q
      <4>2. x * (c + rest) = (x * c) + (x * rest) /\ x * rest \in Nat /\ x * c \in Nat
        BY <4>1
      <4>3. QED
        BY <4>1, <4>2
    <3>2. QED
      BY <1>1, <2>1, <3>1
  <2>3. QED
    BY <2>1, <2>2
<1> HIDE DEF q
<1>3. /\ Times(x, q) \in Seq(Nat) /\ Len(Times(x, q)) = q
      /\ \A j \in 1..q : Times(x, q)[j] = x
  BY <1>2 DEF Times
<1>4. /\ more \in Seq(Nat) /\ Len(more) = Len(out) + q /\ Len(out) \in Nat
      /\ \A j \in 1..Len(out) : more[j] = out[j]
      /\ \A j \in 1..q : more[Len(out) + j] = x
  BY <1>3
<1> HIDE DEF more
<1>5. ASSUME NEW j \in 1..Len(more), j > Len(out)
      PROVE  more[j] = x
  <2>1. j - Len(out) \in 1..q /\ j = Len(out) + (j - Len(out))
    BY <1>2, <1>4, <1>5
  <2>2. QED
    BY <1>4, <2>1
<1>6. \A j \in 1..Len(more) : more[j] \in Nat /\ out \in Seq(Nat)
  BY <1>4
<1>7. ASSUME NEW j \in 1..Len(more) PROVE more[j] >= x /\ (j <= Len(out) => more[j] > x)
  <2>1. CASE j <= Len(out)
    <3>1. j \in 1..Len(out)
      BY <1>4, <2>1
    <3>2. more[j] = out[j] /\ out[j] > x /\ out[j] \in Nat
      BY <1>4, <3>1
    <3>3. QED
      BY <3>2
  <2>2. CASE j > Len(out)
    BY <1>4, <1>5, <2>2
  <2>3. QED
    BY <1>4, <2>1, <2>2
<1>8. Canonical(more, c)
  <2> SUFFICES ASSUME NEW a \in 1..Len(more), NEW b \in 1..Len(more), a < b
               PROVE  more[a] >= more[b] /\ (b - a > c - 2 => more[a] > more[b])
    BY DEF Canonical
  <2>1. CASE b <= Len(out)
    <3>1. a \in 1..Len(out) /\ b \in 1..Len(out)
      BY <1>4, <2>1
    <3>2. more[a] = out[a] /\ more[b] = out[b]
      BY <1>4, <3>1
    <3>3. QED
      BY <3>1, <3>2 DEF Canonical
  <2>2. CASE b > Len(out) /\ a <= Len(out)
    <3>1. more[b] = x /\ more[a] > x /\ more[a] \in Nat
      BY <1>5, <1>6, <1>7, <2>2
    <3>2. QED
      BY <3>1
  <2>3. CASE b > Len(out) /\ a > Len(out)
    <3>1. more[b] = x /\ more[a] = x
      BY <1>5, <2>3
    <3>2. ~(b - a > c - 2)
      BY <1>2, <1>4, <2>3
    <3>3. QED
      BY <3>1, <3>2
  <2>4. QED
    BY <1>4, <2>1, <2>2, <2>3
<1>9. QED
  BY <1>1, <1>4, <1>7, <1>8 DEF more, q

LEMMA WritingFine ==
  ASSUME NEW c \in Nat \ {0}, NEW s, Falls(s, c), NEW value \in Nat, value < c * s[1],
         NEW f, Writing(value, s, Len(s), f)
  PROVE  Canonical(f[Len(s)].out, c) /\ f[Len(s)].out \in Seq(Nat)
<1> DEFINE Bad == {m \in 0..Len(s) : ~Fine(s, c, m, f[m])}
<1>1. /\ s \in Seq(Nat \ {0}) /\ Len(s) \in Nat \ {0}
      /\ \A i \in 1..Len(s) : s[i] \in Nat \ {0}
  BY DEF Falls
<1>2. SUFFICES ASSUME Bad # {} PROVE FALSE
  <2>1. Len(s) \in 0..Len(s) /\ Len(s) \notin Bad
    BY <1>1, <1>2
  <2>2. QED
    BY <2>1 DEF Fine
<1> Bad \in SUBSET Nat
  BY <1>1
<1>3. PICK m \in Bad : \A y \in Bad : m <= y
  BY <1>1, <1>2, LeastNumber
<1>4. m \in 0..Len(s) /\ ~Fine(s, c, m, f[m])
  BY <1>3
<1>5. f[m] = IF m = 0 THEN [left |-> value, out |-> <<>>]
             ELSE [left |-> f[m - 1].left % s[m],
                   out  |-> f[m - 1].out \o Times(s[m], f[m - 1].left \div s[m])]
  BY <1>4 DEF Writing
<1>6. CASE m = 0
  <2>1. f[m].left = value /\ f[m].out = <<>>
    BY <1>5, <1>6
  <2>2. Canonical(<<>>, c) /\ <<>> \in Seq(Nat)
    BY DEF Canonical
  <2>3. QED
    BY <1>4, <1>6, <2>1, <2>2 DEF Fine
<1>7. CASE m # 0
  <2> DEFINE w == f[m - 1]
             x == s[m]
  <2>1. m \in 1..Len(s) /\ m - 1 \in 0..Len(s) /\ ~(m <= m - 1) /\ m - 1 \notin Bad
    BY <1>1, <1>3, <1>4, <1>7
  <2>2. Fine(s, c, m - 1, w) /\ x \in Nat \ {0}
    BY <1>1, <2>1
  <2>3. f[m].left = w.left % x /\ f[m].out = w.out \o Times(x, w.left \div x)
    <3> DEFINE left == w.left % x
               out == w.out \o Times(x, w.left \div x)
    <3>1. f[m] = [left |-> left, out |-> out]
      BY <1>5, <1>7
    <3> HIDE DEF left, out
    <3>2. f[m].left = left /\ f[m].out = out
      BY <3>1
    <3>3. QED
      BY <3>2 DEF left, out
  <2> HIDE DEF w, x
  <2>4. w.left \in Nat /\ w.out \in Seq(Nat) /\ Canonical(w.out, c)
    BY <2>2 DEF Fine
  <2>5. w.left < c * x /\ \A j \in 1..Len(w.out) : w.out[j] > x
    <3>1. CASE m = 1
      BY <2>2, <3>1 DEF Fine, x
    <3>2. CASE m # 1
      <4>1. m - 1 \in 1..(Len(s) - 1) /\ m - 1 \in 1..Len(s) /\ m - 1 # 0 /\ (m - 1) + 1 = m
        BY <1>1, <2>1, <3>2
      <4>2. s[m - 1] > x /\ s[m - 1] <= c * x /\ s[m - 1] \in Nat
        BY <1>1, <4>1 DEF Falls, Near, x
      <4>3. w.left < s[m - 1] /\ \A j \in 1..Len(w.out) : w.out[j] >= s[m - 1]
        BY <2>2, <4>1 DEF Fine
      <4>4. c * x \in Nat /\ \A j \in 1..Len(w.out) : w.out[j] \in Nat
        <5>1. c * x \in Nat
          BY <2>2
        <5>2. w.out \in Seq(Nat)
          BY <2>4
        <5>3. QED
          BY <5>1, <5>2, ElementOfSeq
      <4> DEFINE last == s[m - 1]
                 most == c * x
      <4>5. /\ last \in Nat /\ most \in Nat /\ x \in Nat /\ w.left \in Nat
            /\ last > x /\ last <= most /\ w.left < last
            /\ \A j \in 1..Len(w.out) : w.out[j] >= last /\ w.out[j] \in Nat
        BY <2>2, <2>4, <4>2, <4>3, <4>4
      <4> HIDE DEF last, most
      <4>6. w.left < most /\ \A j \in 1..Len(w.out) : w.out[j] > x
        BY <4>5
      <4>7. QED
        BY <4>6 DEF most
    <3>3. QED
      BY <3>1, <3>2
  <2>6. Fine(s, c, m, f[m])
    <3> DEFINE more == w.out \o Times(x, w.left \div x)
    <3>1. /\ w.left % x \in Nat /\ w.left % x < x
          /\ more \in Seq(Nat) /\ Canonical(more, c)
          /\ \A j \in 1..Len(more) : more[j] >= x
      BY <2>2, <2>4, <2>5, FineStep
    <3> HIDE DEF more
    <3>2. f[m].left = w.left % x /\ f[m].out = more
      BY <2>3 DEF more
    <3>3. QED
      BY <1>7, <3>1, <3>2 DEF Fine, x
  <2>7. QED
    BY <1>4, <2>6
<1>8. QED
  BY <1>6, <1>7

LEMMA AdditiveText ==
  ASSUME NEW type \in DOMAIN Additive, NEW value \in 1..Additive[type].max
  PROVE  /\ createAdditiveCounter(value, type).system = type
         /\ Canonical(createAdditiveCounter(value, type).symbols, Factor(type))
         /\ createAdditiveCounter(value, type).symbols \in Seq(Nat)
<1> DEFINE s == Additive[type].integers
           f == CHOOSE g : Writing(value, s, Len(s), g)
<1>1. /\ Falls(s, Factor(type)) /\ value < Factor(type) * s[1] /\ Factor(type) \in Nat \ {0}
      /\ value \in Nat
  <2>1. Additive[type].max \in Nat
    BY DEF Additive
  <2>2. QED
    BY <2>1, AdditiveFalls DEF Factor, Reaches
<1>2. Len(s) \in Nat
  BY <1>1 DEF Falls
<1> HIDE DEF s
<1>3. Writing(value, s, Len(s), f)
  BY <1>2, WritingExists
<1>4. createAdditiveCounter(value, type) = Text(type, FALSE, f[Len(s)].out)
  BY DEF createAdditiveCounter, Writing, s
<1> HIDE DEF f
<1>5. Canonical(f[Len(s)].out, Factor(type)) /\ f[Len(s)].out \in Seq(Nat)
  BY <1>1, <1>3, WritingFine
<1>6. QED
  BY <1>4, <1>5 DEF Text

\* The families of styles between which createCounterText tells have no style in common.
LEMMA FamiliesApart ==
  ASSUME NEW t
  PROVE  /\ t \in Numeric =>
              /\ t \notin {"disc", "circle", "square", "decimal-leading-zero"}
              /\ t \notin DOMAIN Range1 /\ t \notin DOMAIN Symbols
              /\ t \notin DOMAIN Additive /\ t \notin DOMAIN CJK
         /\ t \in DOMAIN Range1 =>
              /\ t \notin {"disc", "circle", "square", "decimal-leading-zero"}
              /\ t \notin Numeric /\ t \notin DOMAIN Symbols
              /\ t \notin DOMAIN Additive /\ t \notin DOMAIN CJK
         /\ t \in DOMAIN Symbols =>
              /\ t \notin {"disc", "circle", "square", "decimal-leading-zero"}
              /\ t \notin Numeric /\ t \notin DOMAIN Range1
              /\ t \notin DOMAIN Additive /\ t \notin DOMAIN CJK
         /\ t \in DOMAIN Additive =>
              /\ t \notin {"disc", "circle", "square", "decimal-leading-zero"}
              /\ t \notin Numeric /\ t \notin DOMAIN Range1
              /\ t \notin DOMAIN Symbols /\ t \notin DOMAIN CJK
         /\ t \in DOMAIN CJK =>
              /\ t \notin {"disc", "circle", "square", "decimal-leading-zero"}
              /\ t \notin Numeric /\ t \notin DOMAIN Range1
              /\ t \notin DOMAIN Symbols /\ t \notin DOMAIN Additive
  BY DEF Numeric, Range1, Symbols, Additive, CJK

\* The numbers that are spelled out.
Spellable == -9999..9999
\* Which of them createCounterText calls for a style.
Chosen(value, type, suffix, text) ==
  LET Decimal == createCounterStyleFromRange(value, "decimal", 10, TRUE)
  IN  /\ type \in {"disc", "circle", "square"} => text = Text(type, FALSE, <<>>)
      /\ type = "decimal-leading-zero" => text = WithLeadingZero(Decimal, suffix)
      /\ type \in Numeric => text = createCounterStyleFromRange(value, type, 10, TRUE)
      /\ type \in DOMAIN Range1 => text = createCounterStyleFromRange(value, type, Range1[type], FALSE)
      /\ type \in DOMAIN Symbols => text = createCounterStyleFromSymbols(value, type)
      /\ type \in DOMAIN Additive =>
           text = IF value \in 1..Additive[type].max THEN createAdditiveCounter(value, type) ELSE Decimal
      /\ type \in DOMAIN CJK =>
           text = IF value \in Spellable THEN createCJKCounter(value, type, suffix)
                  ELSE createCounterStyleFromSymbols(value, "cjk-decimal")
      /\ (/\ type \notin {"disc", "circle", "square"} /\ type # "decimal-leading-zero"
          /\ type \notin Numeric /\ type \notin DOMAIN Range1 /\ type \notin DOMAIN Symbols
          /\ type \notin DOMAIN Additive /\ type \notin DOMAIN CJK) => text = Decimal
LEMMA Dispatch ==
  ASSUME NEW value, NEW styleType, NEW suffix
  PROVE  Chosen(value, parseListStyleType(styleType), suffix, createCounterText(value, styleType, suffix))
<1> DEFINE type == parseListStyleType(styleType)
           text == createCounterText(value, styleType, suffix)
           Decimal == createCounterStyleFromRange(value, "decimal", 10, TRUE)
           spelled == IF value \in Spellable THEN createCJKCounter(value, type, suffix)
                      ELSE createCounterStyleFromSymbols(value, "cjk-decimal")
<1> DEFINE dot == type \in {"disc", "circle", "square"}
           zero == type = "decimal-leading-zero"
           numeric == type \in Numeric
           letter == type \in DOMAIN Range1
           symbol == type \in DOMAIN Symbols
           additive == type \in DOMAIN Additive
           cjk == type \in DOMAIN CJK
           T1 == Text(type, FALSE, <<>>)
           T2 == WithLeadingZero(Decimal, suffix)
           T3 == createCounterStyleFromRange(value, type, 10, TRUE)
           T4 == createCounterStyleFromRange(value, type, Range1[type], FALSE)
           T5 == createCounterStyleFromSymbols(value, type)
           T6 == IF value \in 1..Additive[type].max THEN createAdditiveCounter(value, type) ELSE Decimal
<1>1. text = CASE dot -> T1 [] zero -> T2 [] numeric -> T3 [] letter -> T4 [] symbol -> T5
               [] additive -> T6 [] cjk -> spelled [] OTHER -> Decimal
  BY DEF createCounterText, Spellable
<1>2. /\ dot => ~zero /\ ~numeric /\ ~letter /\ ~symbol /\ ~additive /\ ~cjk
      /\ zero => ~dot /\ ~numeric /\ ~letter /\ ~symbol /\ ~additive /\ ~cjk
      /\ numeric => ~dot /\ ~zero /\ ~letter /\ ~symbol /\ ~additive /\ ~cjk
      /\ letter => ~dot /\ ~zero /\ ~numeric /\ ~symbol /\ ~additive /\ ~cjk
      /\ symbol => ~dot /\ ~zero /\ ~numeric /\ ~letter /\ ~additive /\ ~cjk
      /\ additive => ~dot /\ ~zero /\ ~numeric /\ ~letter /\ ~symbol /\ ~cjk
      /\ cjk => ~dot /\ ~zero /\ ~numeric /\ ~letter /\ ~symbol /\ ~additive
  <2>1. dot => ~zero
    BY DEF dot, zero
  <2> HIDE DEF type
  <2>2. QED
    BY <2>1, FamiliesApart
<1> HIDE DEF type, text, Decimal, spelled, dot, zero, numeric, letter, symbol, additive, cjk,
             T1, T2, T3, T4, T5, T6
<1>3. /\ dot => text = T1
      /\ zero => text = T2
      /\ numeric => text = T3
      /\ letter => text = T4
      /\ symbol => text = T5
      /\ additive => text = T6
      /\ cjk => text = spelled
      /\ ~dot /\ ~zero /\ ~numeric /\ ~letter /\ ~symbol /\ ~additive /\ ~cjk => text = Decimal
  <2>1. CASE dot
    BY <1>1, <1>2, <2>1
  <2>2. CASE zero
    BY <1>1, <1>2, <2>2
  <2>3. CASE numeric
    BY <1>1, <1>2, <2>3
  <2>4. CASE letter
    BY <1>1, <1>2, <2>4
  <2>5. CASE symbol
    BY <1>1, <1>2, <2>5
  <2>6. CASE additive
    BY <1>1, <1>2, <2>6
  <2>7. CASE cjk
    BY <1>1, <1>2, <2>7
  <2>8. CASE ~dot /\ ~zero /\ ~numeric /\ ~letter /\ ~symbol /\ ~additive /\ ~cjk
    BY <1>1, <2>8
  <2>9. QED
    BY <2>1, <2>2, <2>3, <2>4, <2>5, <2>6, <2>7, <2>8
<1>4. QED
  BY <1>3, Zenon DEF Chosen, type, text, Decimal, spelled, dot, zero, numeric, letter, symbol, additive, cjk,
                     T1, T2, T3, T4, T5, T6
\* Only createAdditiveCounter writes in an additive system.
LEMMA AdditiveSystem ==
  ASSUME NEW value, NEW styleType, NEW suffix,
         createCounterText(value, styleType, suffix).system \in DOMAIN Additive
  PROVE  /\ styleType \in DOMAIN Additive /\ value \in 1..Additive[styleType].max
         /\ createCounterText(value, styleType, suffix) = createAdditiveCounter(value, styleType)
<1> DEFINE type == parseListStyleType(styleType)
           Decimal == createCounterStyleFromRange(value, "decimal", 10, TRUE)
           text == createCounterText(value, styleType, suffix)
<1>1. /\ Decimal.system = "decimal"
      /\ createCounterStyleFromSymbols(value, "cjk-decimal").system = "cjk-decimal"
      /\ WithLeadingZero(Decimal, suffix).system = "decimal"
      /\ createCJKCounter(value, type, suffix).system = type
      /\ "decimal" \notin DOMAIN Additive /\ "cjk-decimal" \notin DOMAIN Additive
  <2>1. /\ Decimal.system = "decimal"
        /\ createCounterStyleFromSymbols(value, "cjk-decimal").system = "cjk-decimal"
    BY DEF createCounterStyleFromRange, createCounterStyleFromSymbols, Text
  <2>2. WithLeadingZero(Decimal, suffix).system = "decimal"
    <3> DEFINE minus == value < 0
               symbols == createCounterStyleWithSymbolResolver(Abs(value), 10, TRUE)
    <3>1. Decimal = [system |-> "decimal", minus |-> minus, symbols |-> symbols]
      BY DEF createCounterStyleFromRange, Text
    <3> HIDE DEF minus, symbols, Decimal
    <3>2. \E more : \/ WithLeadingZero(Decimal, suffix) = Decimal
                   \/ WithLeadingZero(Decimal, suffix) = [Decimal EXCEPT !.symbols = more]
      BY DEF WithLeadingZero
    <3>3. QED
      BY <3>1, <3>2
  <2>3. createCJKCounter(value, type, suffix).system = type
    BY DEF createCJKCounter, Text
  <2>4. "decimal" \notin DOMAIN Additive /\ "cjk-decimal" \notin DOMAIN Additive
    BY DEF Additive
  <2>5. QED
    BY <2>1, <2>2, <2>3, <2>4
<1>2. Chosen(value, type, suffix, text) /\ text.system \in DOMAIN Additive
  BY Dispatch
<1>3. type \in DOMAIN Additive => styleType = type
  BY DEF parseListStyleType, Additive
<1> HIDE DEF type, text, Decimal
<1>4. type \in DOMAIN Additive
  <2>1. SUFFICES ASSUME type \notin DOMAIN Additive PROVE text.system \in {type, "decimal", "cjk-decimal"}
    BY <1>1, <1>2
  <2>2. CASE type \in {"disc", "circle", "square"}
    BY <1>2, <2>2 DEF Chosen, Text
  <2>3. CASE type = "decimal-leading-zero"
    BY <1>1, <1>2, <2>3 DEF Chosen, Decimal
  <2>4. CASE type \in Numeric
    BY <1>2, <2>4 DEF Chosen, Text, createCounterStyleFromRange
  <2>5. CASE type \in DOMAIN Range1
    BY <1>2, <2>5 DEF Chosen, Text, createCounterStyleFromRange
  <2>6. CASE type \in DOMAIN Symbols
    BY <1>2, <2>6 DEF Chosen, Text, createCounterStyleFromSymbols
  <2>7. CASE type \in DOMAIN CJK
    BY <1>1, <1>2, <2>7 DEF Chosen
  <2>8. CASE /\ type \notin {"disc", "circle", "square"} /\ type # "decimal-leading-zero"
             /\ type \notin Numeric /\ type \notin DOMAIN Range1 /\ type \notin DOMAIN Symbols
             /\ type \notin DOMAIN CJK
    BY <1>1, <1>2, <2>1, <2>8 DEF Chosen, Decimal
  <2>9. QED
    BY <2>2, <2>3, <2>4, <2>5, <2>6, <2>7, <2>8
<1>5. text = createAdditiveCounter(value, type) /\ value \in 1..Additive[type].max
  BY <1>1, <1>2, <1>4 DEF Chosen, Decimal
<1>6. QED
  BY <1>3, <1>4, <1>5 DEF text

\* A marker is the text of the number of its item.
MarkersSay ==
  \A n \in 1..k : markers[n] # <<>> =>
    markers[n] = <<createCounterText(listIndex[n], doc[n].type, TRUE)>>
MarkersShape == k \in 0..Len(doc) /\ DOMAIN markers = DOMAIN doc /\ \A n \in (k + 1)..Len(doc) : markers[n] = <<>>

LEMMA MarkersInvariant == Spec => [](ItemsInv /\ MarkersShape /\ MarkersSay)
<1>1. Init => MarkersShape /\ MarkersSay
  BY DocShape DEF Init, MarkersShape, MarkersSay
<1>2. ASSUME ItemsInv, MarkersShape, MarkersSay, [Next]_vars PROVE MarkersShape' /\ MarkersSay'
  <2>1. CASE UNCHANGED vars
    BY <1>2, <2>1 DEF vars, MarkersShape, MarkersSay
  <2>2. CASE ParseElement
    <3> DEFINE n == k + 1
               text == createCounterText(listIndex'[n], doc[n].type, TRUE)
    <3>1. /\ k \in Nat /\ Len(doc) \in Nat /\ k < Len(doc) /\ k' = n /\ doc' = doc
          /\ DOMAIN doc = 1..Len(doc) /\ DOMAIN listIndex = 1..Len(doc)
      BY <1>2, <2>2, DocShape DEF ItemsInv, TypeInv, ParseElement
    <3>2. n \in 1..Len(doc)
      BY <3>1
    <3>3. \/ markers' = markers
          \/ markers' = [markers EXCEPT ![n] = <<text>>]
      BY <2>2 DEF ParseElement
    <3>4. \A m \in 1..k : listIndex'[m] = listIndex[m]
      <4>1. listIndex' = listIndex \/ \E v : listIndex' = [listIndex EXCEPT ![n] = v]
        BY <2>2 DEF ParseElement
      <4>2. \A m \in 1..k : m \in 1..Len(doc) /\ m # n
        BY <3>1
      <4>3. QED
        BY <3>1, <4>1, <4>2
    <3> HIDE DEF text
    <3>5. markers[n] = <<>>
      BY <1>2, <3>1 DEF MarkersShape
    <3>6. MarkersShape'
      BY <1>2, <3>1, <3>3 DEF MarkersShape
    <3>7. MarkersSay'
      <4> SUFFICES ASSUME NEW m \in 1..n, markers'[m] # <<>>
                   PROVE  markers'[m] = <<createCounterText(listIndex'[m], doc[m].type, TRUE)>>
        BY <3>1 DEF MarkersSay
      <4>1. CASE m = n
        BY <1>2, <3>1, <3>2, <3>3, <3>5, <4>1 DEF text, MarkersShape
      <4>2. CASE m # n
        <5>1. m \in 1..k
          BY <3>1, <4>2
        <5>2. markers'[m] = markers[m]
          <6>1. m \in DOMAIN markers
            BY <1>2, <3>1, <5>1 DEF MarkersShape
          <6>2. QED
            BY <3>3, <4>2, <6>1
        <5>3. QED
          BY <1>2, <3>4, <5>1, <5>2 DEF MarkersSay
      <4>3. QED
        BY <4>1, <4>2
    <3>8. QED
      BY <3>6, <3>7
  <2>3. QED
    BY <1>2, <2>1, <2>2 DEF Next
<1>3. QED
  BY <1>1, <1>2, ItemsInvariant, PTL DEF Spec

\* Whatever number an item has, its Roman, Armenian or Georgian marker is written as by
\* hand: the symbols of createAdditiveCounter go down, and none stands more than three times.
THEOREM AdditiveAsByHand == Spec => []AdditiveIsCanonical
<1>1. ASSUME ItemsInv, MarkersSay PROVE AdditiveIsCanonical
  <2> SUFFICES ASSUME NEW n \in Items, markers[n] # <<>>,
                      markers[n][1].system \in DOMAIN Additive
               PROVE  LET s == markers[n][1].symbols
                      IN  /\ \A i, j \in DOMAIN s : i < j => s[i] >= s[j] /\ (j > i + 2 => s[i] > s[j])
                          /\ doc[n].type \notin {"lower-roman", "upper-roman"} =>
                               \A i, j \in DOMAIN s : i < j => s[i] > s[j]
    BY DEF AdditiveIsCanonical
  <2> DEFINE type == doc[n].type
             s == markers[n][1].symbols
  <2>1. markers[n][1] = createCounterText(listIndex[n], type, TRUE)
    <3>1. markers[n] = <<createCounterText(listIndex[n], type, TRUE)>>
      BY <1>1 DEF Items, MarkersSay
    <3>2. \A v : <<v>>[1] = v
      OBVIOUS
    <3>3. QED
      BY <3>1, <3>2
  <2>2. /\ type \in DOMAIN Additive /\ listIndex[n] \in 1..Additive[type].max
        /\ markers[n][1] = createAdditiveCounter(listIndex[n], type)
    BY <2>1, AdditiveSystem
  <2>3. Canonical(s, Factor(type))
    BY <2>2, AdditiveText
  <2>4. DOMAIN s = 1..Len(s) /\ Len(s) \in Nat
    BY <2>2, AdditiveText
  <2> HIDE DEF s
  <2>5. CASE type \in {"lower-roman", "upper-roman"}
    <3>1. Factor(type) = 4
      BY <2>5 DEF Factor
    <3>2. \A i, j \in DOMAIN s : j > i + 2 => j - i > 4 - 2
      BY <2>4
    <3>3. QED
      BY <2>3, <2>4, <2>5, <3>1, <3>2 DEF Canonical, s
  <2>6. CASE type \notin {"lower-roman", "upper-roman"}
    <3>1. Factor(type) = 2
      BY <2>6 DEF Factor
    <3>2. \A i, j \in DOMAIN s : (i < j => j - i > 2 - 2) /\ (j > i + 2 => i < j)
      BY <2>4
    <3>3. \A i, j \in DOMAIN s : i < j => s[i] >= s[j] /\ s[i] > s[j]
      BY <2>3, <2>4, <3>1, <3>2 DEF Canonical
    <3>4. QED
      BY <3>2, <3>3 DEF s
  <2>7. QED
    BY <2>5, <2>6
<1>2. QED
  BY <1>1, MarkersInvariant, PTL

-----------------------------------------------------------------------------
(***************************************************************************)
(* What the symbols of a text add up to.                                   *)
(***************************************************************************)
\* The sums of Positional, over the first n symbols of s.
Summing(s, base, least, n, f) ==
  f = [i \in 0..n |-> IF i = 0 THEN 0 ELSE f[i - 1] * base + s[i] + least]

LEMMA SummingExists ==
  ASSUME NEW s, NEW base, NEW least, NEW n \in Nat
  PROVE  \E f : Summing(s, base, least, n, f)
<1> DEFINE Bad == {m \in Nat : ~\E f : Summing(s, base, least, m, f)}
<1>1. SUFFICES ASSUME Bad # {} PROVE FALSE
  BY DEF Bad
<1>2. PICK m \in Bad : \A y \in Bad : m <= y
  BY <1>1, LeastNumber
<1>3. m \in Nat /\ ~\E f : Summing(s, base, least, m, f)
  BY <1>2
<1>4. CASE m = 0
  <2> DEFINE f == [i \in 0..0 |-> 0]
  <2>1. Summing(s, base, least, 0, f)
    <3>1. \A i \in 0..0 : i = 0
      OBVIOUS
    <3>2. QED
      BY <3>1 DEF Summing
  <2>2. QED
    BY <1>3, <1>4, <2>1
<1>5. CASE m # 0
  <2>1. m - 1 \in Nat /\ ~(m <= m - 1) /\ m - 1 \notin Bad
    BY <1>2, <1>3, <1>5
  <2>2. PICK g : Summing(s, base, least, m - 1, g)
    BY <2>1
  <2> DEFINE last == g[m - 1] * base + s[m] + least
             f == [i \in 0..m |-> IF i < m THEN g[i] ELSE last]
  <2> HIDE DEF last
  <2>3. \A i \in 0..(m - 1) : f[i] = g[i]
    BY <2>1
  <2>4. ASSUME NEW i \in 0..m
        PROVE  f[i] = IF i = 0 THEN 0 ELSE f[i - 1] * base + s[i] + least
    <3>1. CASE i = m
      <4>1. m - 1 \in 0..(m - 1) /\ m \in 0..m /\ ~(m < m)
        BY <1>3, <2>1
      <4>2. f[m - 1] = g[m - 1] /\ f[m] = last
        BY <2>3, <4>1
      <4> HIDE DEF f
      <4>3. QED
        BY <1>5, <3>1, <4>2 DEF last
    <3>2. CASE i # m /\ i = 0
      <4>1. 0 \in 0..(m - 1)
        BY <1>3, <1>5
      <4>2. f[0] = g[0] /\ g[0] = 0
        BY <2>2, <2>3, <4>1 DEF Summing
      <4>3. QED
        BY <3>2, <4>2
    <3>3. CASE i # m /\ i # 0
      <4>1. i \in 0..(m - 1) /\ i - 1 \in 0..(m - 1)
        BY <1>3, <3>3
      <4>2. f[i] = g[i] /\ f[i - 1] = g[i - 1]
        BY <2>3, <4>1
      <4>3. g[i] = g[i - 1] * base + s[i] + least
        BY <2>2, <3>3, <4>1 DEF Summing
      <4> HIDE DEF f
      <4>4. QED
        BY <3>3, <4>2, <4>3
    <3>4. QED
      BY <3>1, <3>2, <3>3
  <2>5. Summing(s, base, least, m, f)
    BY <2>4 DEF Summing
  <2> HIDE DEF f
  <2>6. QED
    BY <1>3, <2>5
<1>6. QED
  BY <1>4, <1>5

\* The sums as a function: what a number read by places is, from left to right.
LEMMA PositionalSums ==
  ASSUME NEW s \in Seq(Int), NEW base \in Int, NEW least \in Int
  PROVE  \E f \in [0..Len(s) -> Int] :
           /\ f[0] = 0 /\ \A i \in 1..Len(s) : f[i] = f[i - 1] * base + s[i] + least
           /\ Positional(s, base, least) = f[Len(s)]
<1> DEFINE f == CHOOSE g : Summing(s, base, least, Len(s), g)
<1>1. Len(s) \in Nat /\ \A i \in 1..Len(s) : s[i] \in Int
  BY ElementOfSeq
<1>2. Summing(s, base, least, Len(s), f)
  BY <1>1, SummingExists
<1>3. Positional(s, base, least) = f[Len(s)]
  BY DEF Positional, Summing
<1> HIDE DEF f
<1>4. /\ f[0] = 0 /\ \A i \in 1..Len(s) : f[i] = f[i - 1] * base + s[i] + least
      /\ f = [i \in 0..Len(s) |-> f[i]]
  <2>1. 0 \in 0..Len(s) /\ \A i \in 1..Len(s) : i \in 0..Len(s) /\ i # 0
    BY <1>1
  <2>2. QED
    BY <1>2, <2>1 DEF Summing
<1>5. \A i \in 0..Len(s) : f[i] \in Int
  <2> DEFINE Bad == {i \in 0..Len(s) : f[i] \notin Int}
  <2>1. SUFFICES ASSUME Bad # {} PROVE FALSE
    OBVIOUS
  <2>2. PICK m \in Bad : \A y \in Bad : m <= y
    <3>1. Bad \in SUBSET Nat
      BY <1>1
    <3>2. QED
      BY <2>1, <3>1, LeastNumber
  <2>3. m # 0
    BY <1>4, <2>2
  <2>4. m \in 1..Len(s) /\ m - 1 \in 0..Len(s) /\ ~(m <= m - 1)
    BY <1>1, <2>2, <2>3
  <2>5. f[m - 1] \in Int
    BY <2>2, <2>4
  <2>6. f[m] = f[m - 1] * base + s[m] + least
    BY <1>4, <2>4
  <2>7. f[m - 1] * base + s[m] + least \in Int
    BY <1>1, <2>4, <2>5
  <2>8. QED
    BY <2>2, <2>6, <2>7
<1>6. f \in [0..Len(s) -> Int]
  BY <1>4, <1>5
<1>7. QED
  BY <1>3, <1>4, <1>6

LEMMA PositionalInt ==
  ASSUME NEW s \in Seq(Int), NEW base \in Int, NEW least \in Int
  PROVE  Positional(s, base, least) \in Int
BY PositionalSums

LEMMA PositionalEmpty == \A base, least \in Int : Positional(<<>>, base, least) = 0
<1>1. <<>> \in Seq(Int) /\ Len(<<>>) = 0
  OBVIOUS
<1>2. SUFFICES ASSUME NEW base \in Int, NEW least \in Int PROVE Positional(<<>>, base, least) = 0
  OBVIOUS
<1>3. PICK f \in [0..Len(<<>>) -> Int] : f[0] = 0 /\ Positional(<<>>, base, least) = f[Len(<<>>)]
  BY <1>1, PositionalSums
<1>4. QED
  BY <1>1, <1>3

\* One symbol more, at the end.
LEMMA PositionalAppend ==
  ASSUME NEW s \in Seq(Int), NEW x \in Int, NEW base \in Int, NEW least \in Int
  PROVE  Positional(s \o <<x>>, base, least) = Positional(s, base, least) * base + x + least
<1> DEFINE t == s \o <<x>>
<1>1. /\ t \in Seq(Int) /\ Len(t) = Len(s) + 1 /\ t[Len(s) + 1] = x /\ Len(s) \in Nat
      /\ \A i \in 1..Len(s) : t[i] = s[i]
  OBVIOUS
<1> HIDE DEF t
<1>2. PICK f \in [0..Len(s) -> Int] :
        /\ f[0] = 0 /\ \A i \in 1..Len(s) : f[i] = f[i - 1] * base + s[i] + least
        /\ Positional(s, base, least) = f[Len(s)]
  BY PositionalSums
<1>3. PICK g \in [0..Len(t) -> Int] :
        /\ g[0] = 0 /\ \A i \in 1..Len(t) : g[i] = g[i - 1] * base + t[i] + least
        /\ Positional(t, base, least) = g[Len(t)]
  BY <1>1, PositionalSums
<1>4. \A i \in 0..Len(s) : g[i] = f[i]
  <2> DEFINE Bad == {i \in 0..Len(s) : g[i] # f[i]}
  <2>1. SUFFICES ASSUME Bad # {} PROVE FALSE
    OBVIOUS
  <2>2. PICK m \in Bad : \A y \in Bad : m <= y
    <3>1. Bad \in SUBSET Nat
      BY <1>1
    <3>2. QED
      BY <2>1, <3>1, LeastNumber
  <2>3. m # 0
    BY <1>2, <1>3, <2>2
  <2>4. m \in 1..Len(s) /\ m \in 1..Len(t) /\ m - 1 \in 0..Len(s) /\ ~(m <= m - 1)
    BY <1>1, <2>2, <2>3
  <2>5. g[m - 1] = f[m - 1] /\ t[m] = s[m]
    BY <1>1, <2>2, <2>4
  <2>6. g[m] = f[m]
    BY <1>2, <1>3, <2>4, <2>5
  <2>7. QED
    BY <2>2, <2>6
<1>5. /\ Len(t) \in 1..Len(t) /\ Len(t) - 1 = Len(s) /\ Len(s) \in 0..Len(s)
      /\ t[Len(t)] = x
  BY <1>1
<1>6. g[Len(t)] = g[Len(s)] * base + x + least
  BY <1>3, <1>5
<1>7. QED
  BY <1>2, <1>3, <1>4, <1>5, <1>6 DEF t

\* One symbol more, at the front: a zero counts nothing there, and among symbols that
\* are added up it counts what it stands for.
LEMMA PositionalFront ==
  ASSUME NEW s \in Seq(Int), NEW x \in Int, NEW base \in Int, NEW least \in Int,
         base = 1 \/ x + least = 0
  PROVE  Positional(<<x>> \o s, base, least) = (x + least) + Positional(s, base, least)
<1> DEFINE t == <<x>> \o s
           d == x + least
<1>1. /\ t \in Seq(Int) /\ Len(t) = Len(s) + 1 /\ t[1] = x /\ Len(s) \in Nat
      /\ \A i \in 1..Len(s) : t[i + 1] = s[i] /\ s[i] \in Int
      /\ d \in Int /\ d * base = d
  OBVIOUS
<1> HIDE DEF t
<1>2. PICK f \in [0..Len(s) -> Int] :
        /\ f[0] = 0 /\ \A i \in 1..Len(s) : f[i] = f[i - 1] * base + s[i] + least
        /\ Positional(s, base, least) = f[Len(s)]
  BY PositionalSums
<1>3. PICK g \in [0..Len(t) -> Int] :
        /\ g[0] = 0 /\ \A i \in 1..Len(t) : g[i] = g[i - 1] * base + t[i] + least
        /\ Positional(t, base, least) = g[Len(t)]
  BY <1>1, PositionalSums
<1>4. \A i \in 0..Len(s) : g[i + 1] = d + f[i]
  <2> DEFINE Bad == {i \in 0..Len(s) : g[i + 1] # d + f[i]}
  <2>1. SUFFICES ASSUME Bad # {} PROVE FALSE
    OBVIOUS
  <2>2. PICK m \in Bad : \A y \in Bad : m <= y
    <3>1. Bad \in SUBSET Nat
      BY <1>1
    <3>2. QED
      BY <2>1, <3>1, LeastNumber
  <2>3. m # 0
    <3>1. 1 \in 1..Len(t) /\ 1 - 1 = 0
      BY <1>1
    <3>2. g[1] = g[0] * base + t[1] + least
      BY <1>3, <3>1
    <3>3. g[0 + 1] = d + f[0]
      BY <1>1, <1>2, <1>3, <3>2
    <3>4. QED
      BY <2>2, <3>3
  <2>4. /\ m \in 1..Len(s) /\ m + 1 \in 1..Len(t) /\ m - 1 \in 0..Len(s) /\ ~(m <= m - 1)
        /\ (m - 1) + 1 = m /\ (m + 1) - 1 = m
    BY <1>1, <2>2, <2>3
  <2>5. g[m] = d + f[m - 1] /\ t[m + 1] = s[m] /\ f[m - 1] \in Int /\ s[m] \in Int
    BY <1>1, <2>2, <2>4
  <2>6. g[m + 1] = g[m] * base + s[m] + least /\ f[m] = f[m - 1] * base + s[m] + least
    BY <1>2, <1>3, <2>4, <2>5
  <2> HIDE DEF d
  <2>7. ASSUME NEW y \in Int PROVE y * base \in Int /\ (d + y) * base = d + y * base
    <3>1. (d + y) * base = d * base + y * base
      BY <1>1
    <3>2. QED
      BY <1>1, <3>1
  <2>8. f[m - 1] * base \in Int /\ g[m] * base = d + f[m - 1] * base
    BY <2>5, <2>7
  <2>9. g[m + 1] = d + f[m]
    <3> DEFINE y == f[m - 1] * base
    <3>1. g[m + 1] = (d + y) + s[m] + least /\ f[m] = y + s[m] + least /\ y \in Int
      BY <2>6, <2>8
    <3> HIDE DEF y
    <3>2. QED
      BY <1>1, <2>5, <3>1
  <2>10. QED
    BY <2>2, <2>9
<1>5. Len(s) \in 0..Len(s) /\ Len(t) = Len(s) + 1
  BY <1>1
<1>6. QED
  BY <1>2, <1>3, <1>4, <1>5 DEF t
-----------------------------------------------------------------------------
(***************************************************************************)
(* Digits and letters: createCounterStyleWithSymbolResolver.               *)
(***************************************************************************)
\* The function of createCounterStyleWithSymbolResolver.
Spelling(value, length, isNumeric, f) ==
  f = [v \in 0..value |->
         LET w == IF isNumeric THEN v ELSE v - 1
         IN  (IF w \div length >= 1 THEN f[w \div length] ELSE <<>>)
                \o <<IF w < 0 THEN w ELSE w % length>>]
\* What it resolves, and writes for it.
Index(isNumeric, v) == IF isNumeric THEN v ELSE v - 1
Digit(length, w) == <<IF w < 0 THEN w ELSE w % length>>
Rest(length, f, w) == IF w \div length >= 1 THEN f[w \div length] ELSE <<>>

LEMMA Divided ==
  ASSUME NEW w \in Nat, NEW length \in Nat, length >= 2
  PROVE  /\ w % length \in 0..(length - 1) /\ w \div length \in Nat
         /\ w = length * (w \div length) + (w % length)
OBVIOUS

\* Each symbol leaves less.
LEMMA LessLeft ==
  ASSUME NEW length \in Nat, length >= 2, NEW isNumeric \in BOOLEAN, NEW v \in Nat,
         Index(isNumeric, v) \div length >= 1
  PROVE  /\ Index(isNumeric, v) \div length \in 0..(v - 1) /\ Index(isNumeric, v) \in Nat
         /\ Index(isNumeric, v) <= v
<1> DEFINE w == Index(isNumeric, v)
           q == w \div length
<1>1. w \in Int /\ w <= v
  BY DEF Index
<1> HIDE DEF w
<1>2. q \in Int /\ q >= 1 /\ w % length \in 0..(length - 1)
  BY <1>1 DEF w
<1>3. w = (length * q) + (w % length)
  BY <1>1
<1>4. length * q >= q + q
  <2> HIDE DEF q
  <2>1. length - 2 \in Nat /\ q \in Nat
    BY <1>2
  <2>2. (length - 2) * q \in Nat
    BY <2>1
  <2>3. (length - 2) * q = length * q - (q + q)
    BY <2>1
  <2>4. length * q \in Int
    BY <2>1
  <2>5. QED
    BY <1>2, <2>2, <2>3, <2>4
<1> HIDE DEF q
<1>5. length * q \in Int
  BY <1>2
<1>6. q < w /\ w \in Nat
  BY <1>1, <1>2, <1>3, <1>4, <1>5
<1>7. q \in 0..(v - 1) /\ w \in Nat /\ w <= v
  BY <1>1, <1>2, <1>6
<1>8. QED
  BY <1>7 DEF q, w

LEMMA SpellingExists ==
  ASSUME NEW length \in Nat, length >= 2, NEW isNumeric \in BOOLEAN, NEW value \in Nat
  PROVE  \E f : Spelling(value, length, isNumeric, f)
<1> DEFINE Bad == {m \in Nat : ~\E f : Spelling(m, length, isNumeric, f)}
           At(f, v) == Rest(length, f, Index(isNumeric, v)) \o Digit(length, Index(isNumeric, v))
<1>1. SUFFICES ASSUME Bad # {} PROVE FALSE
  BY DEF Bad
<1>2. PICK m \in Bad : \A y \in Bad : m <= y
  BY <1>1, LeastNumber
<1>3. m \in Nat /\ ~\E f : Spelling(m, length, isNumeric, f)
  BY <1>2
<1>4. \A n, f : Spelling(n, length, isNumeric, f) <=> f = [v \in 0..n |-> At(f, v)]
  BY DEF Spelling, Index, Digit, Rest
<1>5. \E g : \A v \in 0..(m - 1) : g[v] = At(g, v)
  <2>1. CASE m = 0
    BY <2>1
  <2>2. CASE m # 0
    <3>1. m - 1 \in Nat /\ ~(m <= m - 1) /\ m - 1 \notin Bad
      BY <1>2, <1>3, <2>2
    <3>2. PICK g : Spelling(m - 1, length, isNumeric, g)
      BY <3>1
    <3> HIDE DEF At
    <3>3. QED
      BY <1>4, <3>2
  <2>3. QED
    BY <2>1, <2>2
<1>6. PICK g : \A v \in 0..(m - 1) : g[v] = At(g, v)
  BY <1>5
<1> DEFINE last == At(g, m)
           f == [v \in 0..m |-> IF v < m THEN g[v] ELSE last]
<1> HIDE DEF last
<1>7. \A v \in 0..(m - 1) : f[v] = g[v]
  BY <1>3
<1>8. f[m] = last
  BY <1>3
<1> HIDE DEF f
\* What is left of v is before v, where f is g.
<1>9. ASSUME NEW v \in 0..m PROVE At(f, v) = At(g, v)
  <2> DEFINE w == Index(isNumeric, v)
             q == w \div length
  <2>1. ASSUME q >= 1 PROVE f[q] = g[q]
    <3>1. v \in Nat
      BY <1>3
    <3>2. q \in 0..(v - 1)
      BY <2>1, <3>1, LessLeft
    <3> HIDE DEF q
    <3>3. q \in 0..(m - 1)
      BY <1>3, <3>2
    <3>4. QED
      BY <1>7, <3>3
  <2>2. Rest(length, f, w) = Rest(length, g, w)
    BY <2>1 DEF Rest
  <2>3. QED
    BY <2>2
<1>10. ASSUME NEW v \in 0..m PROVE f[v] = At(f, v)
  <2>1. CASE v = m
    BY <1>8, <1>9, <2>1 DEF last
  <2>2. CASE v # m
    <3>1. v \in 0..(m - 1)
      BY <1>3, <2>2
    <3> HIDE DEF At
    <3>2. QED
      BY <1>6, <1>7, <1>9, <3>1
  <2>3. QED
    BY <2>1, <2>2
<1>11. f = [v \in 0..m |-> At(f, v)]
  <2>1. f = [v \in 0..m |-> f[v]]
    BY DEF f
  <2> HIDE DEF At
  <2>2. QED
    BY <1>10, <2>1
<1>12. QED
  BY <1>3, <1>4, <1>11

\* A positive number, and zero in digits, is read back from its symbols.
LEMMA ResolverReadsBack ==
  ASSUME NEW length \in Nat, length >= 2, NEW isNumeric \in BOOLEAN, NEW value \in Nat,
         isNumeric \/ value > 0
  PROVE  LET symbols == createCounterStyleWithSymbolResolver(value, length, isNumeric)
         IN  /\ symbols \in Seq(Nat)
             /\ Positional(symbols, length, IF isNumeric THEN 0 ELSE 1) = value
<1> DEFINE f == CHOOSE g : Spelling(value, length, isNumeric, g)
           least == IF isNumeric THEN 0 ELSE 1
           Good(v) == f[v] \in Seq(Nat) /\ Positional(f[v], length, least) = v
           Bad == {v \in 0..value : v >= least /\ ~Good(v)}
<1>1. createCounterStyleWithSymbolResolver(value, length, isNumeric) = f[value]
  BY DEF createCounterStyleWithSymbolResolver, Spelling
<1>2. Spelling(value, length, isNumeric, f)
  BY SpellingExists
<1> HIDE DEF f
<1>3. least \in {0, 1} /\ value >= least /\ value \in 0..value
  OBVIOUS
<1>4. SUFFICES ASSUME Bad # {} PROVE FALSE
  BY <1>1, <1>3
<1>5. PICK v \in Bad : \A y \in Bad : v <= y
  <2>1. Bad \in SUBSET Nat
    OBVIOUS
  <2> HIDE DEF Bad
  <2>2. QED
    BY <1>4, <2>1, LeastNumber
<1>6. v \in 0..value /\ v \in Nat /\ v >= least /\ ~Good(v)
  BY <1>5
<1> DEFINE w == Index(isNumeric, v)
           q == w \div length
           d == w % length
<1>7. w \in Nat /\ w = v - least
  BY <1>6 DEF Index
<1>8. f[v] = Rest(length, f, w) \o Digit(length, w)
  BY <1>2, <1>6 DEF Spelling, Index, Rest, Digit
<1>9. f[v] = Rest(length, f, w) \o <<d>>
  BY <1>7, <1>8 DEF Digit
<1>10. Rest(length, f, w) \in Seq(Nat) /\ Positional(Rest(length, f, w), length, least) = q
  <2>1. q \in Nat
    BY <1>7
  <2>2. CASE q >= 1
    <3>1. q \in 0..(v - 1)
      BY <1>6, <2>2, LessLeft
    <3>2. q \in 0..value /\ q >= least /\ ~(v <= q)
      <4> HIDE DEF q, least
      <4>1. QED
        BY <1>3, <1>6, <2>2, <3>1
    <3>3. Good(q)
      <4> HIDE DEF q, least, Good
      <4>1. QED
        BY <1>5, <3>2
    <3>4. Rest(length, f, w) = f[q]
      BY <2>2 DEF Rest
    <3>5. QED
      BY <3>3, <3>4
  <2>3. CASE ~(q >= 1)
    <3>1. Rest(length, f, w) = <<>> /\ q = 0
      BY <2>1, <2>3 DEF Rest
    <3>2. Positional(<<>>, length, least) = 0
      BY <1>3, PositionalEmpty
    <3>3. QED
      BY <3>1, <3>2
  <2>4. QED
    BY <2>2, <2>3
<1> DEFINE rest == Rest(length, f, w)
<1> HIDE DEF rest, w, least
<1>11. d \in 0..(length - 1) /\ q \in Nat /\ w = length * q + d
  BY <1>7, Divided
<1> HIDE DEF d, q
<1>12. Positional(rest \o <<d>>, length, least) = q * length + d + least
  <2>1. rest \in Seq(Int) /\ d \in Int /\ length \in Int /\ least \in Int
    BY <1>3, <1>10, <1>11 DEF rest
  <2>2. QED
    BY <1>10, <2>1, PositionalAppend DEF rest
<1>13. q * length + d + least = v
  <2>1. q * length = length * q /\ q * length \in Int
    BY <1>11
  <2>2. QED
    BY <1>3, <1>6, <1>7, <1>11, <2>1
<1>14. rest \o <<d>> \in Seq(Nat)
  BY <1>10, <1>11 DEF rest
<1>15. QED
  BY <1>6, <1>9, <1>12, <1>13, <1>14 DEF rest
-----------------------------------------------------------------------------
(***************************************************************************)
(* Additive systems: what is left after the last symbol, 1, is nothing.    *)
(***************************************************************************)
LEMMA Longer ==
  ASSUME NEW s \in Seq(Nat), NEW x \in Nat
  PROVE  /\ s \o <<x>> \in Seq(Nat) /\ Len(s \o <<x>>) = Len(s) + 1 /\ (s \o <<x>>)[Len(s) + 1] = x
         /\ \A i \in 1..Len(s) : (s \o <<x>>)[i] = s[i]
OBVIOUS

\* q times x more.
LEMMA AddedTimes ==
  ASSUME NEW s \in Seq(Nat), NEW x \in Nat, NEW q \in Nat
  PROVE  s \o Times(x, q) \in Seq(Nat) /\ Added(s \o Times(x, q)) = Added(s) + x * q
<1> DEFINE Good(m) == /\ s \o Times(x, m) \in Seq(Nat)
                      /\ Added(s \o Times(x, m)) = Added(s) + x * m
           Bad == {m \in Nat : ~Good(m)}
<1>1. SUFFICES ASSUME Bad # {} PROVE FALSE
  OBVIOUS
<1>2. PICK m \in Bad : \A y \in Bad : m <= y
  <2>1. Bad \in SUBSET Nat
    OBVIOUS
  <2> HIDE DEF Bad
  <2>2. QED
    BY <1>1, <2>1, LeastNumber
<1>3. m \in Nat /\ ~Good(m)
  BY <1>2
<1>4. s \in Seq(Int) /\ Added(s) \in Int
  <2>1. s \in Seq(Int)
    OBVIOUS
  <2>2. QED
    BY <2>1, PositionalInt DEF Added
<1>5. CASE m = 0
  <2>1. Times(x, 0) = <<>> /\ s \o <<>> = s
    BY DEF Times
  <2>2. s \o Times(x, 0) = s /\ x * 0 = 0
    BY <2>1
  <2>3. Good(0)
    <3> DEFINE z == s \o Times(x, 0)
               p == x * 0
    <3>1. z = s /\ p = 0
      BY <2>2
    <3> HIDE DEF z, p
    <3>2. z \in Seq(Nat) /\ Added(z) = Added(s) + p
      BY <1>4, <3>1
    <3>3. QED
      BY <3>2 DEF z, p
  <2>4. QED
    BY <1>3, <1>5, <2>3
<1>6. CASE m # 0
  <2>1. m - 1 \in Nat /\ ~(m <= m - 1) /\ (m - 1) + 1 = m
    BY <1>3, <1>6
  <2> DEFINE less == s \o Times(x, m - 1)
             more == s \o Times(x, m)
  <2>2. less \in Seq(Nat) /\ Added(less) = Added(s) + x * (m - 1)
    BY <1>2, <2>1
  <2>3. more = less \o <<x>>
    <3>1. /\ Times(x, m - 1) \in Seq(Nat) /\ Times(x, m) \in Seq(Nat)
          /\ Len(Times(x, m - 1)) = m - 1 /\ Len(Times(x, m)) = m
          /\ \A i \in 1..(m - 1) : Times(x, m - 1)[i] = x
          /\ \A i \in 1..m : Times(x, m)[i] = x
      BY <1>3, <2>1 DEF Times
    <3>2. Times(x, m) = Times(x, m - 1) \o <<x>>
      <4> DEFINE a == Times(x, m)
                 b == Times(x, m - 1)
                 c == b \o <<x>>
      <4>1. b \in Seq(Nat) /\ Len(b) = m - 1 /\ \A i \in 1..(m - 1) : b[i] = x
        BY <3>1
      <4> HIDE DEF a, b
      <4>2. c \in Seq(Nat) /\ Len(c) = m /\ c[m] = x /\ \A i \in 1..(m - 1) : c[i] = b[i]
        <5>1. /\ c \in Seq(Nat) /\ Len(c) = Len(b) + 1 /\ c[Len(b) + 1] = x
              /\ \A i \in 1..Len(b) : c[i] = b[i]
          BY <4>1, Longer
        <5> HIDE DEF c
        <5>2. Len(b) + 1 = m /\ 1..Len(b) = 1..(m - 1)
          BY <2>1, <4>1
        <5>3. QED
          BY <5>1, <5>2
      <4> HIDE DEF c
      <4>3. ASSUME NEW i \in 1..m PROVE c[i] = a[i]
        <5>1. i \in 1..(m - 1) \/ i = m
          BY <1>3
        <5>2. c[i] = x
          BY <4>1, <4>2, <5>1
        <5>3. QED
          BY <3>1, <5>2 DEF a
      <4>4. a = c
        BY <3>1, <4>2, <4>3 DEF a
      <4>5. QED
        BY <4>4 DEF a, b, c
    <3>3. s \o (Times(x, m - 1) \o <<x>>) = (s \o Times(x, m - 1)) \o <<x>>
      BY <3>1
    <3>4. QED
      BY <3>2, <3>3
  <2> HIDE DEF less, more
  <2>4. more \in Seq(Nat)
    BY <2>2, <2>3
  <2>5. Added(more) = Added(less) + x
    <3>1. less \in Seq(Int) /\ 1 \in Int /\ 0 \in Int /\ x \in Int
      BY <2>2
    <3>2. Positional(less \o <<x>>, 1, 0) = Positional(less, 1, 0) * 1 + x + 0
      BY <3>1, PositionalAppend
    <3>3. Positional(less, 1, 0) \in Int
      BY <3>1, PositionalInt
    <3>4. QED
      BY <2>3, <3>1, <3>2, <3>3 DEF Added
  <2>6. x * (m - 1) + x = x * m /\ x * (m - 1) \in Int /\ x * m \in Int
    BY <2>1
  <2>7. Added(more) = Added(s) + x * m
    BY <1>4, <2>2, <2>5, <2>6
  <2>8. QED
    BY <1>3, <2>4, <2>7 DEF more
<1>7. QED
  BY <1>5, <1>6

\* What is written and what is left make up the number.
LEMMA WritingAdds ==
  ASSUME NEW s \in Seq(Nat \ {0}), s # <<>>, s[Len(s)] = 1, NEW value \in Nat,
         NEW f, Writing(value, s, Len(s), f)
  PROVE  f[Len(s)].out \in Seq(Nat) /\ Added(f[Len(s)].out) = value
<1> DEFINE Good(m) == /\ f[m].left \in Nat /\ f[m].out \in Seq(Nat)
                      /\ Added(f[m].out) + f[m].left = value
                      /\ m # 0 => f[m].left < s[m]
           Bad == {m \in 0..Len(s) : ~Good(m)}
<1>1. /\ Len(s) \in Nat \ {0} /\ \A i \in 1..Len(s) : s[i] \in Nat \ {0}
  BY ElementOfSeq
<1>2. SUFFICES ASSUME Bad # {} PROVE FALSE
  <2>1. Good(Len(s)) /\ Len(s) # 0
    BY <1>1, <1>2
  <2>2. Added(f[Len(s)].out) \in Int
    <3>1. f[Len(s)].out \in Seq(Int)
      BY <2>1
    <3>2. QED
      BY <3>1, PositionalInt DEF Added
  <2>3. f[Len(s)].left = 0
    BY <2>1
  <2>4. QED
    BY <2>1, <2>2, <2>3
<1>3. PICK m \in Bad : \A y \in Bad : m <= y
  <2>1. Bad \in SUBSET Nat
    BY <1>1
  <2> HIDE DEF Bad
  <2>2. QED
    BY <1>2, <2>1, LeastNumber
<1>4. m \in 0..Len(s) /\ ~Good(m)
  BY <1>3
<1>5. f[m] = IF m = 0 THEN [left |-> value, out |-> <<>>]
             ELSE [left |-> f[m - 1].left % s[m],
                   out  |-> f[m - 1].out \o Times(s[m], f[m - 1].left \div s[m])]
  BY <1>4 DEF Writing
<1>6. CASE m = 0
  <2>1. f[m].left = value /\ f[m].out = <<>>
    BY <1>5, <1>6
  <2>2. Added(<<>>) = 0 /\ <<>> \in Seq(Nat)
    BY PositionalEmpty DEF Added
  <2>3. QED
    BY <1>4, <1>6, <2>1, <2>2
<1>7. CASE m # 0
  <2> DEFINE w == f[m - 1]
             x == s[m]
             rest == w.left % x
             q == w.left \div x
             out == w.out \o Times(x, q)
  <2>1. m \in 1..Len(s) /\ m - 1 \in 0..Len(s) /\ ~(m <= m - 1)
    BY <1>1, <1>4, <1>7
  <2>2. w.left \in Nat /\ w.out \in Seq(Nat) /\ Added(w.out) + w.left = value
    BY <1>3, <2>1
  <2>3. x \in Nat \ {0}
    BY <1>1, <2>1
  <2>4. f[m].left = rest /\ f[m].out = out
    <3>1. f[m] = [left |-> rest, out |-> out]
      BY <1>5, <1>7
    <3> HIDE DEF rest, out
    <3>2. QED
      BY <3>1
  <2> HIDE DEF w, x
  <2>5. q \in Nat /\ rest \in Nat /\ rest < x /\ w.left = (x * q) + rest
    <3> DEFINE left == w.left
    <3>1. left \in Nat
      BY <2>2
    <3> HIDE DEF left
    <3>2. /\ left \div x \in Nat /\ left % x \in Nat /\ left % x < x
          /\ left = (x * (left \div x)) + (left % x)
      BY <2>3, <3>1
    <3>3. QED
      BY <3>2 DEF left
  <2> HIDE DEF q, rest
  <2>6. out \in Seq(Nat) /\ Added(out) = Added(w.out) + x * q
    BY <2>2, <2>3, <2>5, AddedTimes
  <2>7. Added(w.out) \in Int /\ x * q \in Int
    <3>1. w.out \in Seq(Int)
      BY <2>2
    <3>2. Added(w.out) \in Int
      BY <3>1, PositionalInt DEF Added
    <3>3. QED
      BY <2>3, <2>5, <3>2
  <2> HIDE DEF out
  <2>8. Added(out) + rest = value
    BY <2>2, <2>5, <2>6, <2>7
  <2>9. QED
    BY <1>4, <2>4, <2>5, <2>6, <2>8 DEF x
<1>8. QED
  BY <1>6, <1>7
-----------------------------------------------------------------------------
(***************************************************************************)
(* Numbers that are spelled out: createCJKCounter.                         *)
(***************************************************************************)
\* What symbol i counts in a number that is spelled out.
SizeAt(s, i) ==
  IF s[i] >= 10 THEN s[i] * (IF i > 1 /\ s[i - 1] < 10 THEN s[i - 1] ELSE 1)
  ELSE IF i = Len(s) THEN s[i] ELSE 0
Sizes(s) == [i \in 1..Len(s) |-> SizeAt(s, i)]

LEMMA SizesAdded ==
  ASSUME NEW s \in Seq(Nat)
  PROVE  /\ SpelledOut(s) = Added(Sizes(s)) /\ Sizes(s) \in Seq(Nat) /\ Len(Sizes(s)) = Len(s)
         /\ SpelledOut(s) \in Int
<1>1. Len(s) \in Nat /\ \A i \in 1..Len(s) : s[i] \in Nat
  BY ElementOfSeq
<1>2. SpelledOut(s) = Added(Sizes(s))
  BY DEF SpelledOut, Sizes, SizeAt
<1>3. ASSUME NEW i \in 1..Len(s) PROVE SizeAt(s, i) \in Nat
  <2>1. s[i] \in Nat /\ (i > 1 => s[i - 1] \in Nat)
    BY <1>1
  <2>2. \A x, y \in Nat : x * y \in Nat
    OBVIOUS
  <2>3. (IF i > 1 /\ s[i - 1] < 10 THEN s[i - 1] ELSE 1) \in Nat
    BY <2>1
  <2>4. QED
    BY <2>1, <2>2, <2>3 DEF SizeAt
<1>4. Sizes(s) \in Seq(Nat) /\ Len(Sizes(s)) = Len(s)
  BY <1>1, <1>3 DEF Sizes
<1>5. Sizes(s) \in Seq(Int)
  BY <1>4
<1>6. Added(Sizes(s)) \in Int
  BY <1>5, PositionalInt DEF Added
<1>7. QED
  BY <1>2, <1>4, <1>6

Led(x, s) == <<x>> \o s

LEMMA LedShape ==
  ASSUME NEW s \in Seq(Nat), NEW x \in Nat
  PROVE  /\ Led(x, s) \in Seq(Nat) /\ Len(Led(x, s)) = Len(s) + 1 /\ Led(x, s)[1] = x
         /\ \A i \in 1..Len(s) : Led(x, s)[i + 1] = s[i]
         /\ Len(s) \in Nat
BY DEF Led

LEMMA LedType ==
  ASSUME NEW s \in Seq(Nat), NEW x \in Nat
  PROVE  Led(x, s) \in Seq(Nat) /\ Led(x, s)[1] = x
BY LedShape

LEMMA AddedFront ==
  ASSUME NEW s \in Seq(Nat), NEW x \in Nat
  PROVE  Added(Led(x, s)) = x + Added(s)
<1>1. s \in Seq(Int) /\ x \in Int /\ 1 \in Int /\ 0 \in Int
  OBVIOUS
<1>2. Positional(Led(x, s), 1, 0) = (x + 0) + Positional(s, 1, 0)
  BY <1>1, PositionalFront DEF Led
<1>3. Positional(s, 1, 0) \in Int
  BY <1>1, PositionalInt
<1>4. QED
  BY <1>1, <1>2, <1>3 DEF Added

\* A symbol counts the same behind one more, unless that one is a digit before a unit.
LEMMA SizeBehind ==
  ASSUME NEW s \in Seq(Nat), NEW x \in Nat, NEW i \in 1..Len(s),
         i > 1 \/ x >= 10 \/ s[i] < 10
  PROVE  SizeAt(Led(x, s), i + 1) = SizeAt(s, i)
<1> DEFINE t == Led(x, s)
<1>1. /\ Len(t) = Len(s) + 1 /\ t[1] = x /\ \A j \in 1..Len(s) : t[j + 1] = s[j]
      /\ Len(s) \in Nat
  BY LedShape
<1>2. s[i] \in Nat /\ (i > 1 => s[i - 1] \in Nat)
  <2>1. i \in 1..Len(s) /\ (i > 1 => i - 1 \in 1..Len(s))
    BY <1>1
  <2>2. QED
    BY <2>1, ElementOfSeq
<1> HIDE DEF t
<1>3. t[i + 1] = s[i] /\ (i + 1 = Len(t) <=> i = Len(s)) /\ i + 1 > 1 /\ (i + 1) - 1 = i
  BY <1>1
<1>4. i > 1 => t[i] = s[i - 1]
  <2>1. i > 1 => i - 1 \in 1..Len(s) /\ (i - 1) + 1 = i
    BY <1>1
  <2>2. QED
    BY <1>1, <2>1
<1>5. ~(i > 1) => t[i] = x
  BY <1>1
<1>6. CASE s[i] < 10
  BY <1>2, <1>3, <1>6 DEF SizeAt, t
<1>7. CASE s[i] >= 10 /\ i > 1
  BY <1>2, <1>3, <1>4, <1>7 DEF SizeAt, t
<1>8. CASE s[i] >= 10 /\ ~(i > 1)
  <2>1. ~(t[i] < 10)
    BY <1>5, <1>2, <1>8
  <2>2. QED
    BY <1>2, <1>3, <2>1, <1>8 DEF SizeAt, t
<1>9. QED
  BY <1>2, <1>6, <1>7, <1>8

LEMMA SpelledFront ==
  ASSUME NEW s \in Seq(Nat), NEW x \in Nat, s = <<>> \/ x >= 10 \/ s[1] < 10
  PROVE  SpelledOut(Led(x, s)) = SpelledOut(s) + (IF x >= 10 \/ s = <<>> THEN x ELSE 0)
<1> DEFINE t == Led(x, s)
           y == IF x >= 10 \/ s = <<>> THEN x ELSE 0
           u == Led(y, Sizes(s))
<1>1. /\ t \in Seq(Nat) /\ Len(t) = Len(s) + 1 /\ t[1] = x /\ Len(s) \in Nat
  BY LedShape
<1>2. Sizes(s) \in Seq(Nat) /\ Len(Sizes(s)) = Len(s) /\ SpelledOut(s) = Added(Sizes(s))
  BY SizesAdded
<1>3. y \in Nat
  OBVIOUS
<1>4. u \in Seq(Nat) /\ Len(u) = Len(s) + 1 /\ u[1] = y /\ \A i \in 1..Len(s) : u[i + 1] = Sizes(s)[i]
  <2> HIDE DEF y
  <2>1. /\ u \in Seq(Nat) /\ Len(u) = Len(Sizes(s)) + 1 /\ u[1] = y
        /\ \A i \in 1..Len(Sizes(s)) : u[i + 1] = Sizes(s)[i]
    BY <1>2, <1>3, LedShape
  <2> HIDE DEF u
  <2>2. QED
    BY <1>2, <2>1
<1>5. SizeAt(t, 1) = y
  <2>1. s = <<>> <=> Len(t) = 1
    BY <1>1
  <2> HIDE DEF t
  <2>2. QED
    BY <1>1, <2>1 DEF SizeAt
<1>6. ASSUME NEW i \in 1..Len(s) PROVE SizeAt(t, i + 1) = Sizes(s)[i]
  <2>1. i > 1 \/ x >= 10 \/ s[i] < 10
    BY <1>1
  <2>2. QED
    BY <2>1, SizeBehind DEF Sizes
<1> HIDE DEF t, y, u
<1>7. Sizes(t) = u
  <2>1. ASSUME NEW i \in 1..(Len(s) + 1) PROVE SizeAt(t, i) = u[i]
    <3>1. CASE i = 1
      BY <1>4, <1>5, <3>1
    <3>2. CASE i # 1
      <4>1. i - 1 \in 1..Len(s) /\ (i - 1) + 1 = i
        BY <1>1, <3>2
      <4>2. QED
        BY <1>4, <1>6, <4>1
    <3>3. QED
      BY <3>1, <3>2
  <2>2. Sizes(t) = [i \in 1..Len(u) |-> u[i]]
    BY <1>1, <1>4, <2>1 DEF Sizes
  <2>3. u = [i \in 1..Len(u) |-> u[i]]
    BY <1>4
  <2>4. QED
    BY <2>2, <2>3
<1>8. Added(u) = y + Added(Sizes(s))
  BY <1>2, <1>3, AddedFront DEF u
<1>9. SpelledOut(t) = Added(Sizes(t))
  BY <1>1, SizesAdded
<1>10. SpelledOut(s) \in Int
  BY SizesAdded
<1>11. SpelledOut(t) = SpelledOut(s) + y
  BY <1>2, <1>3, <1>7, <1>8, <1>9, <1>10
<1>12. QED
  BY <1>11 DEF t, y

\* A digit before a power of ten.
LEMMA SpelledTimes ==
  ASSUME NEW s \in Seq(Nat), NEW c \in 0..9, NEW power \in Nat, power >= 10
  PROVE  SpelledOut(Led(c, Led(power, s))) = SpelledOut(s) + c * power
<1> DEFINE r == Led(power, s)
           t == Led(c, r)
           y == power * c
           v == Led(y, Sizes(s))
           u == Led(0, v)
<1>1. /\ r \in Seq(Nat) /\ Len(r) = Len(s) + 1 /\ r[1] = power /\ Len(s) \in Nat
  BY LedShape
<1>2. /\ t \in Seq(Nat) /\ Len(t) = Len(r) + 1 /\ t[1] = c /\ c \in Nat
      /\ \A i \in 1..Len(r) : t[i + 1] = r[i]
  <2>1. c \in Nat
    OBVIOUS
  <2> HIDE DEF r
  <2>2. QED
    BY <1>1, <2>1, LedShape
<1>3. Sizes(s) \in Seq(Nat) /\ Len(Sizes(s)) = Len(s) /\ SpelledOut(s) = Added(Sizes(s))
  BY SizesAdded
<1>4. y \in Nat /\ 0 \in Nat /\ y = c * power
  OBVIOUS
<1>5. v \in Seq(Nat) /\ Len(v) = Len(s) + 1 /\ v[1] = y /\ \A i \in 1..Len(s) : v[i + 1] = Sizes(s)[i]
  <2> HIDE DEF y
  <2>1. /\ v \in Seq(Nat) /\ Len(v) = Len(Sizes(s)) + 1 /\ v[1] = y
        /\ \A i \in 1..Len(Sizes(s)) : v[i + 1] = Sizes(s)[i]
    BY <1>3, <1>4, LedShape
  <2> HIDE DEF v
  <2>2. QED
    BY <1>3, <2>1
<1>6. u \in Seq(Nat) /\ Len(u) = Len(v) + 1 /\ u[1] = 0 /\ \A i \in 1..Len(v) : u[i + 1] = v[i]
  BY <1>4, <1>5, LedShape
<1>7. ASSUME NEW i \in 1..Len(s) PROVE SizeAt(t, i + 2) = Sizes(s)[i]
  <2>1. i + 1 \in 1..Len(r) /\ i + 1 > 1 /\ (i + 1) + 1 = i + 2
    BY <1>1
  <2>2. SizeAt(t, (i + 1) + 1) = SizeAt(r, i + 1)
    BY <1>1, <1>2, <2>1, SizeBehind
  <2>3. SizeAt(r, i + 1) = SizeAt(s, i)
    BY SizeBehind
  <2>4. QED
    BY <2>1, <2>2, <2>3 DEF Sizes
<1> HIDE DEF t, r, u, v
<1>8. t[2] = power
  <2>1. 1 \in 1..Len(r) /\ 1 + 1 = 2
    BY <1>1
  <2>2. QED
    BY <1>1, <1>2, <2>1
<1>9. SizeAt(t, 1) = 0 /\ SizeAt(t, 2) = y
  <2>1. Len(t) # 1 /\ ~(t[1] >= 10) /\ t[1] < 10
    BY <1>1, <1>2
  <2>2. SizeAt(t, 1) = 0
    BY <2>1 DEF SizeAt
  <2>3. SizeAt(t, 2) = power * t[1]
    BY <1>8, <2>1 DEF SizeAt
  <2>4. QED
    BY <1>2, <2>2, <2>3
<1> HIDE DEF y
<1>10. Sizes(t) = u
  <2>1. ASSUME NEW i \in 1..(Len(s) + 2) PROVE SizeAt(t, i) = u[i]
    <3>1. CASE i = 1
      BY <1>6, <1>9, <3>1
    <3>2. CASE i = 2
      <4>1. 1 \in 1..Len(v) /\ 1 + 1 = 2
        BY <1>1, <1>5
      <4>2. u[2] = v[1]
        BY <1>6, <4>1
      <4>3. QED
        BY <1>5, <1>9, <3>2, <4>2
    <3>3. CASE i > 2
      <4>1. /\ i - 2 \in 1..Len(s) /\ (i - 2) + 2 = i /\ (i - 2) + 1 = i - 1 /\ (i - 1) + 1 = i
            /\ i - 1 \in 1..Len(v)
        BY <1>1, <1>5, <3>3
      <4>2. u[i] = v[i - 1] /\ v[i - 1] = Sizes(s)[i - 2]
        BY <1>5, <1>6, <4>1
      <4>3. QED
        BY <1>7, <4>1, <4>2
    <3>4. QED
      BY <3>1, <3>2, <3>3
  <2>2. Len(t) = Len(s) + 2 /\ Len(u) = Len(s) + 2
    BY <1>1, <1>2, <1>5, <1>6
  <2>3. Sizes(t) = [i \in 1..Len(u) |-> u[i]]
    BY <2>1, <2>2 DEF Sizes
  <2>4. u = [i \in 1..Len(u) |-> u[i]]
    BY <1>6
  <2>5. QED
    BY <2>3, <2>4
<1>11. Added(u) = 0 + Added(v) /\ Added(v) = y + Added(Sizes(s))
  BY <1>3, <1>4, <1>5, AddedFront DEF u, v
<1>12. SpelledOut(t) = Added(Sizes(t)) /\ SpelledOut(s) \in Int
  BY <1>2, SizesAdded
<1>13. SpelledOut(t) = SpelledOut(s) + y
  BY <1>3, <1>4, <1>10, <1>11, <1>12
<1>14. QED
  BY <1>4, <1>13 DEF t, r
\* The powers of ten before the last digit.
Powers == {10, 100, 1000}
Thousand(power) == power = 1000
Ten(power) == power = 10

\* The digit of a power, and one more digit of createCJKCounter before the behind.
CoefficientOf(value, power) == (Abs(value) \div power) % 10
WritesOneAt(value, type, power) ==
  \/ power = 1
  \/ power = 10 /\ "ten" \in CJK[type]
  \/ power = 10 /\ "high" \in CJK[type] /\ value > 100
  \/ power > 10 /\ "hundred" \in CJK[type]
UnitOf(power) == IF power > 1 THEN <<power>> ELSE <<>>
PutDigit(value, type, suffix, power, behind) ==
  LET c == CoefficientOf(value, power)
  IN  IF Abs(value) < power THEN behind
      ELSE IF c = 0 /\ "zeros" \in CJK[type] /\ (behind # <<>> \/ suffix)
        THEN <<0>> \o behind
      ELSE IF c > 1 \/ (c = 1 /\ WritesOneAt(value, type, power)) THEN <<c>> \o UnitOf(power) \o behind
      ELSE IF c = 1 THEN UnitOf(power) \o behind ELSE behind

\* Digit c of a power, what the digits behind it are worth, and what they are with it.
Fits(v, power, c, low, high) ==
  /\ c \in 0..9 /\ low \in Int
  /\ high = low + c * power
  /\ v < power => high = low
  /\ Thousand(power) /\ ~(v < power) => c # 0

LEMMA DigitsFit ==
  ASSUME NEW value \in Spellable
  PROVE  LET v == Abs(value)
         IN  /\ Fits(v, 10, CoefficientOf(value, 10), v % 10, v % 100)
             /\ Fits(v, 100, CoefficientOf(value, 100), v % 100, v % 1000)
             /\ Fits(v, 1000, CoefficientOf(value, 1000), v % 1000, v)
<1> DEFINE v == Abs(value)
<1>1. v \in 0..9999
  BY DEF Abs, Spellable
<1>2. \A power : CoefficientOf(value, power) = (v \div power) % 10
  BY DEF CoefficientOf
<1> HIDE DEF v
<1>3. Fits(v, 10, CoefficientOf(value, 10), v % 10, v % 100)
  BY <1>1, <1>2 DEF Fits, Thousand
<1>4. Fits(v, 100, CoefficientOf(value, 100), v % 100, v % 1000)
  BY <1>1, <1>2 DEF Fits, Thousand
<1>5. Fits(v, 1000, CoefficientOf(value, 1000), v % 1000, v)
  BY <1>1, <1>2 DEF Fits, Thousand
<1>6. QED
  BY <1>3, <1>4, <1>5 DEF v

LEMMA SpelledOne ==
  ASSUME NEW x \in Nat
  PROVE  /\ SpelledOut(<<>>) = 0 /\ <<>> \in Seq(Nat)
         /\ <<x>> \in Seq(Nat) /\ <<x>>[1] = x /\ SpelledOut(<<x>>) = x
<1> DEFINE none == <<>>
<1>1. none \in Seq(Nat) /\ none = <<>> /\ Len(none) = 0 /\ <<x>> = Led(x, none)
  BY DEF Led
<1>2. Sizes(none) = none
  BY DEF Sizes
<1>3. Added(none) = 0
  BY PositionalEmpty DEF Added
<1> HIDE DEF none
<1>4. SpelledOut(none) = 0
  BY <1>1, <1>2, <1>3, SizesAdded
<1>5. SpelledOut(Led(x, none)) = 0 + x
  <2>1. none = <<>> => SpelledOut(Led(x, none)) = SpelledOut(none) + x
    BY <1>1, SpelledFront
  <2>2. QED
    BY <1>1, <1>4, <2>1
<1>6. Led(x, none) \in Seq(Nat) /\ Led(x, none)[1] = x
  BY <1>1, LedShape
<1>7. QED
  BY <1>1, <1>4, <1>5, <1>6

\* A zero may be written before the behind.
TakesZero(type, behind) == "zeros" \in CJK[type] /\ behind # <<>> => behind[1] < 10

\* The last digit.
LEMMA PutLast ==
  ASSUME NEW value \in Spellable, value # 0, NEW type \in DOMAIN CJK, NEW suffix \in BOOLEAN
  PROVE  LET s == PutDigit(value, type, suffix, 1, <<>>)
         IN  s \in Seq(Nat) /\ SpelledOut(s) = Abs(value) % 10 /\ TakesZero(type, s)
<1> DEFINE v == Abs(value)
           c == (v \div 1) % 10
           s == PutDigit(value, type, suffix, 1, <<>>)
<1>1. v \in 1..9999
  BY DEF Abs, Spellable
<1>2. c = CoefficientOf(value, 1)
  BY DEF CoefficientOf
<1> HIDE DEF v
<1>3. c \in 0..9 /\ c \in Nat /\ v % 10 = c
  BY <1>1
<1> HIDE DEF c
<1>4. \/ s = <<>> /\ c = 0
      \/ s = <<c>>
  <2>1. UnitOf(1) = <<>> /\ WritesOneAt(value, type, 1) /\ ~(Abs(value) < 1)
    <3>1. UnitOf(1) = <<>> /\ WritesOneAt(value, type, 1)
      BY DEF UnitOf, WritesOneAt
    <3>2. ~(v < 1)
      BY <1>1
    <3>3. QED
      BY <3>1, <3>2 DEF v
  <2>2. c = 0 \/ c = 1 \/ c > 1
    BY <1>3
  <2>3. <<c>> \o <<>> \o <<>> = <<c>> /\ <<0>> \o <<>> = <<0>>
    BY <1>3
  <2> DEFINE none == <<>>
             zero == <<0>>
             one == <<c>>
  <2>4. none \o none = none /\ zero \o none = zero /\ one \o none \o none = one
    BY <1>3
  <2>5. UnitOf(1) = none
    BY <2>1
  <2>6. s = PutDigit(value, type, suffix, 1, none)
    OBVIOUS
  <2> HIDE DEF none, zero, one
  <2>7. s = IF c = 0 /\ "zeros" \in CJK[type] /\ (none # none \/ suffix)
              THEN zero
            ELSE IF c > 1 \/ (c = 1 /\ WritesOneAt(value, type, 1)) THEN one
            ELSE IF c = 1 THEN none ELSE none
    <3> HIDE DEF s
    <3>1. PutDigit(value, type, suffix, 1, none) =
            IF Abs(value) < 1 THEN none
            ELSE IF c = 0 /\ "zeros" \in CJK[type] /\ (none # none \/ suffix)
              THEN zero \o none
            ELSE IF c > 1 \/ (c = 1 /\ WritesOneAt(value, type, 1)) THEN one \o UnitOf(1) \o none
            ELSE IF c = 1 THEN UnitOf(1) \o none ELSE none
      BY <1>2, Zenon DEF PutDigit, zero, one, none
    <3>2. QED
      BY <2>1, <2>4, <2>5, <2>6, <3>1, Zenon
  <2> HIDE DEF s
  <2>8. CASE c = 0
    <3>1. ~(c > 1) /\ c # 1
      BY <2>8
    <3>2. s = zero \/ s = none
      BY <2>7, <3>1, Zenon
    <3>3. QED
      BY <2>8, <3>2 DEF zero, none
  <2>9. CASE c # 0
    <3>1. s = one
      BY <2>1, <2>2, <2>7, <2>9, Zenon
    <3>2. QED
      BY <3>1 DEF one
  <2>10. QED
    BY <2>8, <2>9
<1>5. SUFFICES s \in Seq(Nat) /\ SpelledOut(s) = v % 10 /\ TakesZero(type, s)
  BY DEF v
<1> HIDE DEF s
<1>6. CASE s = <<>> /\ c = 0
  <2>1. s \in Seq(Nat) /\ SpelledOut(s) = 0
    BY <1>3, <1>6, SpelledOne
  <2>2. QED
    BY <1>3, <1>6, <2>1 DEF TakesZero
<1>7. CASE s = <<c>>
  <2>1. s \in Seq(Nat) /\ s[1] = c /\ SpelledOut(s) = c
    BY <1>3, <1>7, SpelledOne
  <2>2. s \in Seq(Nat) /\ SpelledOut(s) = v % 10 /\ s[1] < 10
    BY <1>3, <2>1
  <2>3. QED
    BY <2>2 DEF TakesZero
<1>8. QED
  BY <1>4, <1>6, <1>7

\* Every digit before it.  A zero is not written before a power of ten that stands alone:
\* the styles that write zeros write the one before ten, and thousands are not zero.
LEMMA PutBefore ==
  ASSUME NEW value \in Int, NEW type \in DOMAIN CJK, NEW suffix \in BOOLEAN,
         NEW power \in Powers, NEW behind \in Seq(Nat), NEW high,
         Fits(Abs(value), power, CoefficientOf(value, power), SpelledOut(behind), high),
         ~Thousand(power) => TakesZero(type, behind)
  PROVE  LET s == PutDigit(value, type, suffix, power, behind)
         IN  /\ s \in Seq(Nat) /\ SpelledOut(s) = high
             /\ Ten(power) => TakesZero(type, s)
<1> DEFINE v == Abs(value)
           c == CoefficientOf(value, power)
           s == PutDigit(value, type, suffix, power, behind)
           low == SpelledOut(behind)
<1>1. c = CoefficientOf(value, power) /\ v = Abs(value)
  OBVIOUS
<1>2. /\ c \in 0..9 /\ high = low + c * power /\ (v < power => high = low)
      /\ Thousand(power) /\ ~(v < power) => c # 0
  BY DEF Fits, Thousand
<1>3. /\ power \in Nat /\ power >= 10 /\ power > 1
      /\ low \in Int /\ SpelledOut(behind) = low
  BY DEF Fits, Powers
<1> HIDE DEF c, low, v
<1>4. UnitOf(power) = <<power>>
  BY <1>3 DEF UnitOf
<1>5. \/ v < power /\ s = behind
      \/ c = 0 /\ s = behind
      \/ c = 0 /\ ~(v < power) /\ "zeros" \in CJK[type] /\ s = <<0>> \o behind
      \/ c >= 1 /\ s = <<c>> \o <<power>> \o behind
      \/ c = 1 /\ ~WritesOneAt(value, type, power) /\ s = <<power>> \o behind
  <2> DEFINE a == <<0>> \o behind
             b == <<c>> \o <<power>> \o behind
             d == <<power>> \o behind
  <2>1. c = 0 \/ c = 1 \/ c > 1
    BY <1>2
  <2>2. s = IF v < power THEN behind
            ELSE IF c = 0 /\ "zeros" \in CJK[type] /\ (behind # <<>> \/ suffix)
              THEN a
            ELSE IF c > 1 \/ (c = 1 /\ WritesOneAt(value, type, power)) THEN b
            ELSE IF c = 1 THEN d ELSE behind
    BY <1>1, <1>4, Zenon DEF PutDigit
  <2> HIDE DEF s, a, b, d
  <2>3. CASE v < power
    BY <2>2, <2>3
  <2>4. CASE ~(v < power) /\ c = 0
    <3>1. ~(c > 1) /\ c # 1
      BY <2>4
    <3>2. s = behind \/ ("zeros" \in CJK[type] /\ s = a)
      BY <2>2, <2>4, <3>1, Zenon
    <3>3. QED
      BY <2>4, <3>2 DEF a
  <2>5. CASE ~(v < power) /\ c > 1
    <3>1. c # 0 /\ c >= 1
      BY <1>2, <2>5
    <3>2. s = b
      BY <2>2, <2>5, <3>1, Zenon
    <3>3. QED
      BY <3>1, <3>2 DEF b
  <2>6. CASE ~(v < power) /\ c = 1
    <3>1. c # 0 /\ c >= 1 /\ ~(c > 1)
      BY <2>6
    <3>2. s = b \/ (~WritesOneAt(value, type, power) /\ s = d)
      BY <2>2, <2>6, <3>1, Zenon
    <3>3. QED
      BY <2>6, <3>1, <3>2 DEF b, d
  <2>7. QED
    BY <2>1, <2>3, <2>4, <2>5, <2>6
<1> HIDE DEF s
<1>6. /\ <<0>> \o behind = Led(0, behind) /\ <<power>> \o behind = Led(power, behind)
      /\ <<c>> \o <<power>> \o behind = Led(c, Led(power, behind))
  <2>1. <<c>> \in Seq(Nat) /\ <<power>> \in Seq(Nat)
    BY <1>2, <1>3
  <2>2. (<<c>> \o <<power>>) \o behind = <<c>> \o (<<power>> \o behind)
    BY <2>1, ConcatAssociative
  <2>3. QED
    BY <2>2, Zenon DEF Led
<1> DEFINE zero == Led(0, behind)
           bare == Led(power, behind)
           full == Led(c, bare)
           p == c * power
<1>7. /\ zero \in Seq(Nat) /\ zero[1] = 0 /\ bare \in Seq(Nat)
      /\ full \in Seq(Nat) /\ full[1] = c
  <2>1. 0 \in Nat /\ c \in Nat
    BY <1>2
  <2>2. zero \in Seq(Nat) /\ zero[1] = 0 /\ bare \in Seq(Nat)
    BY <1>3, <2>1, LedType
  <2> HIDE DEF zero, bare
  <2>3. full \in Seq(Nat) /\ full[1] = c
    BY <2>1, <2>2, LedType
  <2>4. QED
    BY <2>2, <2>3
<1>8. p \in Int /\ (c = 0 => p = 0) /\ (c = 1 => p = power) /\ high = low + p
  BY <1>2, <1>3
<1>9. c \in Int /\ c < 10 /\ (Thousand(power) /\ ~(v < power) => c # 0) /\ (v < power => high = low)
  BY <1>2
<1>10. SpelledOut(full) = low + p
  <2>1. c \in 0..9 /\ power \in Nat /\ power >= 10
    BY <1>2, <1>3
  <2>2. SpelledOut(Led(c, Led(power, behind))) = SpelledOut(behind) + c * power
    BY <2>1, SpelledTimes
  <2>3. QED
    BY <1>3, <2>2, Zenon
<1>11. SpelledOut(bare) = low + power
  <2>1. SpelledOut(bare) = SpelledOut(behind) + (IF power >= 10 \/ behind = <<>> THEN power ELSE 0)
    BY <1>3, SpelledFront
  <2>2. QED
    BY <1>3, <2>1
<1>12. behind = <<>> \/ behind[1] < 10 => SpelledOut(zero) = low
  <2>1. 0 \in Nat
    OBVIOUS
  <2>2. behind = <<>> \/ behind[1] < 10 =>
          SpelledOut(zero) = SpelledOut(behind) + (IF 0 >= 10 \/ behind = <<>> THEN 0 ELSE 0)
    BY <2>1, SpelledFront
  <2>3. QED
    BY <1>3, <2>2
<1> HIDE DEF zero, bare, full, p
<1> DEFINE Goal == /\ s \in Seq(Nat) /\ SpelledOut(s) = high
                   /\ Ten(power) => TakesZero(type, s)
<1>13. SUFFICES Goal
  BY DEF s
<1>14. CASE s = behind /\ (v < power \/ c = 0)
  <2>1. Ten(power) => ~Thousand(power)
    BY DEF Ten, Thousand
  <2>2. QED
    BY <1>3, <1>8, <1>9, <1>14, <2>1
<1>15. CASE c = 0 /\ ~(v < power) /\ "zeros" \in CJK[type] /\ s = zero
  <2>1. behind = <<>> \/ behind[1] < 10
    BY <1>9, <1>15 DEF TakesZero
  <2>2. SpelledOut(s) = high
    BY <1>3, <1>8, <1>12, <1>15, <2>1
  <2>3. QED
    BY <1>7, <1>15, <2>2 DEF TakesZero
<1>16. CASE c >= 1 /\ s = full
  <2>1. SpelledOut(s) = high /\ s \in Seq(Nat)
    BY <1>7, <1>8, <1>10, <1>16
  <2>2. s[1] < 10
    BY <1>7, <1>9, <1>16
  <2>3. QED
    BY <2>1, <2>2 DEF TakesZero
<1>17. CASE c = 1 /\ ~WritesOneAt(value, type, power) /\ s = bare
  <2>1. SpelledOut(s) = high
    BY <1>8, <1>11, <1>17
  <2>2. ~(Ten(power) /\ "zeros" \in CJK[type])
    <3>1. "zeros" \in CJK[type] => "ten" \in CJK[type]
      BY DEF CJK
    <3>2. QED
      BY <1>17, <3>1 DEF WritesOneAt, Ten
  <2>3. QED
    BY <1>7, <1>17, <2>1, <2>2 DEF TakesZero
<1>18. \/ v < power /\ s = behind
       \/ c = 0 /\ s = behind
       \/ c = 0 /\ ~(v < power) /\ "zeros" \in CJK[type] /\ s = zero
       \/ c >= 1 /\ s = full
       \/ c = 1 /\ ~WritesOneAt(value, type, power) /\ s = bare
  BY <1>5, <1>6 DEF zero, bare, full
<1> HIDE DEF Goal
<1>19. QED
  BY <1>14, <1>15, <1>16, <1>17, <1>18, Zenon

LEMMA CJKText ==
  ASSUME NEW value \in Spellable, NEW type \in DOMAIN CJK, NEW suffix \in BOOLEAN
  PROVE  LET text == createCJKCounter(value, type, suffix)
         IN  /\ text = Text(type, value < 0, text.symbols)
             /\ text.symbols \in Seq(Nat) /\ SpelledOut(text.symbols) = Abs(value)
<1> DEFINE s1 == PutDigit(value, type, suffix, 1, <<>>)
           s2 == PutDigit(value, type, suffix, 10, s1)
           s3 == PutDigit(value, type, suffix, 100, s2)
           s4 == PutDigit(value, type, suffix, 1000, s3)
           symbols == IF value = 0 THEN <<0>> ELSE s4
           v == Abs(value)
           minus == value < 0
<1>1. createCJKCounter(value, type, suffix) = Text(type, value < 0, symbols)
  BY DEF createCJKCounter, PutDigit, CoefficientOf, WritesOneAt, UnitOf
<1>2. v \in 0..9999
  BY DEF Abs, Spellable
<1>3. symbols \in Seq(Nat) /\ SpelledOut(symbols) = v
  <2>1. CASE value = 0
    <3>1. SpelledOut(<<0>>) = 0 /\ <<0>> \in Seq(Nat)
      <4>1. 0 \in Nat
        OBVIOUS
      <4>2. QED
        BY <4>1, SpelledOne
    <3>2. v = 0
      BY <2>1 DEF Abs
    <3>3. QED
      BY <2>1, <3>1, <3>2
  <2>2. CASE value # 0
    <3>1. s1 \in Seq(Nat) /\ SpelledOut(s1) = v % 10 /\ TakesZero(type, s1)
      BY <2>2, PutLast
    <3>2. v = Abs(value)
      OBVIOUS
    <3>3. /\ Fits(v, 10, CoefficientOf(value, 10), v % 10, v % 100)
          /\ Fits(v, 100, CoefficientOf(value, 100), v % 100, v % 1000)
          /\ Fits(v, 1000, CoefficientOf(value, 1000), v % 1000, v)
      BY DigitsFit
    <3> HIDE DEF s1, v
    <3>4. /\ s2 \in Seq(Nat) /\ SpelledOut(s2) = v % 100
          /\ TakesZero(type, s2)
      <4>1. 10 \in Powers /\ value \in Int /\ Ten(10)
        BY DEF Powers, Spellable, Thousand, Ten
      <4>2. Fits(Abs(value), 10, CoefficientOf(value, 10), SpelledOut(s1), v % 100)
        BY <3>1, <3>2, <3>3
      <4>3. QED
        BY <3>1, <4>1, <4>2, PutBefore
    <3> HIDE DEF s2
    <3>5. s3 \in Seq(Nat) /\ SpelledOut(s3) = v % 1000
      <4>1. 100 \in Powers /\ value \in Int /\ ~Ten(100)
        BY DEF Powers, Spellable, Thousand, Ten
      <4>2. Fits(Abs(value), 100, CoefficientOf(value, 100), SpelledOut(s2), v % 1000)
        BY <3>2, <3>3, <3>4
      <4>3. QED
        BY <3>4, <4>1, <4>2, PutBefore
    <3> HIDE DEF s3
    <3>6. s4 \in Seq(Nat) /\ SpelledOut(s4) = v
      <4>1. 1000 \in Powers /\ value \in Int /\ Thousand(1000) /\ ~Ten(1000)
        BY DEF Powers, Spellable, Thousand, Ten
      <4>2. Fits(Abs(value), 1000, CoefficientOf(value, 1000), SpelledOut(s3), v)
        BY <3>2, <3>3, <3>5
      <4>3. QED
        BY <3>5, <4>1, <4>2, PutBefore
    <3> HIDE DEF s4
    <3>7. QED
      BY <2>2, <3>6
  <2>3. QED
    BY <2>1, <2>2
<1> HIDE DEF symbols, minus
<1>4. Text(type, minus, symbols).symbols = symbols
  BY DEF Text
<1>5. QED
  BY <1>1, <1>3, <1>4 DEF minus
-----------------------------------------------------------------------------
(***************************************************************************)
(* The text of a number says the number.                                   *)
(***************************************************************************)
\* What a text of a system is taken for.
Signed(minus, size) == IF minus THEN -size ELSE size
ReadBy(type, minus, symbols) ==
  LET text == Text(type, minus, symbols)
  IN  /\ text.system = type /\ text.minus = minus /\ text.symbols = symbols
      /\ type \in Numeric => Reads(text) = Signed(minus, Positional(symbols, 10, 0))
      /\ type \in DOMAIN Range1 => Reads(text) = Signed(minus, Positional(symbols, Range1[type], 1))
      /\ type \in DOMAIN Symbols => Reads(text) = Signed(minus, Positional(symbols, Symbols[type], 1))
      /\ type \in DOMAIN Additive => Reads(text) = Signed(minus, Added(symbols))
      /\ type \in DOMAIN CJK => Reads(text) = Signed(minus, SpelledOut(symbols))
LEMMA ReadsOf ==
  ASSUME NEW type, NEW minus \in BOOLEAN, NEW symbols
  PROVE  ReadBy(type, minus, symbols)
<1> DEFINE text == Text(type, minus, symbols)
           R1 == Positional(symbols, 10, 0)
           R2 == Positional(symbols, Range1[type], 1)
           R3 == Positional(symbols, Symbols[type], 1)
           R4 == Added(symbols)
           R5 == SpelledOut(symbols)
           numeric == type \in Numeric
           letter == type \in DOMAIN Range1
           symbol == type \in DOMAIN Symbols
           additive == type \in DOMAIN Additive
           cjk == type \in DOMAIN CJK
           size == CASE numeric -> R1 [] letter -> R2 [] symbol -> R3 [] additive -> R4 [] OTHER -> R5
<1>1. text.system = type /\ text.minus = minus /\ text.symbols = symbols
  BY DEF Text
<1> HIDE DEF text
<1>2. Reads(text) = Signed(minus, size)
  BY <1>1 DEF Reads, Signed
<1>3. /\ numeric => ~letter /\ ~symbol /\ ~additive /\ ~cjk
      /\ letter => ~numeric /\ ~symbol /\ ~additive /\ ~cjk
      /\ symbol => ~numeric /\ ~letter /\ ~additive /\ ~cjk
      /\ additive => ~numeric /\ ~letter /\ ~symbol /\ ~cjk
      /\ cjk => ~numeric /\ ~letter /\ ~symbol /\ ~additive
  BY FamiliesApart
<1>4. size = CASE numeric -> R1 [] letter -> R2 [] symbol -> R3 [] additive -> R4 [] OTHER -> R5
  OBVIOUS
<1> HIDE DEF size, R1, R2, R3, R4, R5, numeric, letter, symbol, additive, cjk
<1>5. /\ numeric => size = R1
      /\ letter => size = R2
      /\ symbol => size = R3
      /\ additive => size = R4
      /\ cjk => size = R5
  <2>1. CASE numeric
    BY <1>3, <1>4, <2>1
  <2>2. CASE letter
    BY <1>3, <1>4, <2>2
  <2>3. CASE symbol
    BY <1>3, <1>4, <2>3
  <2>4. CASE additive
    BY <1>3, <1>4, <2>4
  <2>5. CASE cjk
    BY <1>3, <1>4, <2>5
  <2>6. QED
    BY <2>1, <2>2, <2>3, <2>4, <2>5
<1>6. QED
  BY <1>1, <1>2, <1>5 DEF ReadBy, text, R1, R2, R3, R4, R5, numeric, letter, symbol, additive, cjk

\* The sign of a number and its size.
LEMMA Sign ==
  ASSUME NEW value \in Int
  PROVE  /\ Abs(value) \in Nat /\ (value < 0) \in BOOLEAN
         /\ Signed(value < 0, Abs(value)) = value
         /\ value # 0 => Abs(value) > 0
         /\ value > 0 => Abs(value) = value
BY DEF Abs, Signed

LEMMA RangeReadsBack ==
  ASSUME NEW value \in Int, NEW type, NEW length \in Nat, length >= 2, NEW isNumeric \in BOOLEAN,
         isNumeric \/ value # 0
  PROVE  LET text == createCounterStyleFromRange(value, type, length, isNumeric)
         IN  /\ text.system = type /\ text.minus = (value < 0) /\ text.symbols \in Seq(Nat)
             /\ Positional(text.symbols, length, IF isNumeric THEN 0 ELSE 1) = Abs(value)
             /\ type \in Numeric /\ length = 10 /\ isNumeric => Reads(text) = value
             /\ type \in DOMAIN Range1 /\ length = Range1[type] /\ ~isNumeric => Reads(text) = value
<1> DEFINE symbols == createCounterStyleWithSymbolResolver(Abs(value), length, isNumeric)
           minus == value < 0
<1>1. createCounterStyleFromRange(value, type, length, isNumeric) = Text(type, minus, symbols)
  BY DEF createCounterStyleFromRange
<1>2. /\ Abs(value) \in Nat /\ minus \in BOOLEAN /\ (isNumeric \/ Abs(value) > 0)
      /\ Signed(minus, Abs(value)) = value
  BY Sign
<1>3. symbols \in Seq(Nat) /\ Positional(symbols, length, IF isNumeric THEN 0 ELSE 1) = Abs(value)
  BY <1>2, ResolverReadsBack
<1>4. minus = (value < 0)
  OBVIOUS
<1> HIDE DEF symbols, minus
<1>5. ReadBy(type, minus, symbols)
  BY <1>2, ReadsOf
<1>6. CASE isNumeric
  BY <1>1, <1>2, <1>3, <1>4, <1>5, <1>6 DEF ReadBy
<1>7. CASE ~isNumeric
  BY <1>1, <1>2, <1>3, <1>4, <1>5, <1>7 DEF ReadBy
<1>8. QED
  BY <1>6, <1>7

\* What createCounterText owes a style: a text of that style, or of decimal, that
\* says the number.
Says(text, value, type) ==
  text.system \in {type, "decimal"} /\ text.symbols \in Seq(Nat) /\ Reads(text) = value

\* Numerals of decimals and letters say their number.
LEMMA NumericSays ==
  ASSUME NEW value \in Int, NEW type \in Numeric
  PROVE  Says(createCounterStyleFromRange(value, type, 10, TRUE), value, type)
<1> DEFINE ten == 10
<1>1. ten \in Nat /\ ten >= 2 /\ ten = 10
  OBVIOUS
<1> HIDE DEF ten
<1>2. Says(createCounterStyleFromRange(value, type, ten, TRUE), value, type)
  BY <1>1, RangeReadsBack DEF Says
<1>3. QED
  BY <1>1, <1>2

LEMMA DecimalSays ==
  ASSUME NEW value \in Int, NEW type
  PROVE  Says(createCounterStyleFromRange(value, "decimal", 10, TRUE), value, type)
<1>1. "decimal" \in Numeric
  BY DEF Numeric
<1>2. Says(createCounterStyleFromRange(value, "decimal", 10, TRUE), value, "decimal")
  BY <1>1, NumericSays
<1>3. QED
  BY <1>2 DEF Says

LEMMA LettersSay ==
  ASSUME NEW value \in Int, value # 0, NEW type \in DOMAIN Range1
  PROVE  Says(createCounterStyleFromRange(value, type, Range1[type], FALSE), value, type)
<1>1. Range1[type] \in Nat /\ Range1[type] >= 2
  BY DEF Range1
<1>2. QED
  BY <1>1, RangeReadsBack DEF Says

LEMMA SymbolsSay ==
  ASSUME NEW value \in Int, value > 0, NEW type \in DOMAIN Symbols
  PROVE  Says(createCounterStyleFromSymbols(value, type), value, type)
<1> DEFINE length == Symbols[type]
           symbols == createCounterStyleWithSymbolResolver(value, length, FALSE)
<1>1. length \in Nat /\ length >= 2 /\ value \in Nat
  BY DEF Symbols
<1>2. createCounterStyleFromSymbols(value, type) = Text(type, FALSE, symbols)
  BY Sign DEF createCounterStyleFromSymbols
<1> HIDE DEF length
<1>3. symbols \in Seq(Nat) /\ Positional(symbols, length, IF FALSE THEN 0 ELSE 1) = value
  BY <1>1, ResolverReadsBack
<1> HIDE DEF symbols
<1>4. ReadBy(type, FALSE, symbols)
  BY ReadsOf
<1>5. QED
  BY <1>2, <1>3, <1>4 DEF ReadBy, Says, Signed, length

LEMMA AdditiveSays ==
  ASSUME NEW type \in DOMAIN Additive, NEW value \in 1..Additive[type].max
  PROVE  Says(createAdditiveCounter(value, type), value, type)
<1> DEFINE s == Additive[type].integers
           f == CHOOSE g : Writing(value, s, Len(s), g)
           out == f[Len(s)].out
<1>1. Falls(s, Factor(type)) /\ s[Len(s)] = 1 /\ value \in Nat
  <2>1. Additive[type].max \in Nat
    BY DEF Additive
  <2>2. QED
    BY <2>1, AdditiveFalls
<1>2. createAdditiveCounter(value, type) = Text(type, FALSE, out)
  BY DEF createAdditiveCounter, Writing
<1> HIDE DEF s
<1>3. s \in Seq(Nat \ {0}) /\ s # <<>> /\ Len(s) \in Nat
  BY <1>1 DEF Falls
<1>4. Writing(value, s, Len(s), f)
  BY <1>3, WritingExists
<1> HIDE DEF f
<1>5. out \in Seq(Nat) /\ Added(out) = value
  BY <1>1, <1>3, <1>4, WritingAdds
<1> HIDE DEF out
<1>6. ReadBy(type, FALSE, out)
  BY ReadsOf
<1>7. QED
  BY <1>2, <1>5, <1>6 DEF ReadBy, Says, Signed

LEMMA SpelledSays ==
  ASSUME NEW value \in Spellable, NEW type \in DOMAIN CJK, NEW suffix \in BOOLEAN
  PROVE  Says(createCJKCounter(value, type, suffix), value, type)
<1> DEFINE text == createCJKCounter(value, type, suffix)
           symbols == text.symbols
           minus == value < 0
<1>1. symbols \in Seq(Nat) /\ SpelledOut(symbols) = Abs(value)
  BY CJKText
<1>2. text = Text(type, minus, symbols) /\ text.system = type
  <2>1. text = Text(type, minus, symbols)
    BY CJKText
  <2>2. QED
    BY <2>1 DEF Text
<1>3. minus \in BOOLEAN /\ Signed(minus, Abs(value)) = value
  <2>1. value \in Int
    BY DEF Spellable
  <2>2. QED
    BY <2>1, Sign
<1> HIDE DEF text, symbols, minus
<1>4. ReadBy(type, minus, symbols)
  BY <1>3, ReadsOf
<1>5. QED
  BY <1>1, <1>2, <1>3, <1>4 DEF ReadBy, Says, text, symbols

\* A zero in front of a decimal leaves its number.
LEMMA LeadingZeroSays ==
  ASSUME NEW value \in Int, NEW suffix \in BOOLEAN, NEW type
  PROVE  Says(WithLeadingZero(createCounterStyleFromRange(value, "decimal", 10, TRUE), suffix), value, type)
<1> DEFINE symbols == createCounterStyleWithSymbolResolver(Abs(value), 10, TRUE)
           minus == value < 0
           text == Text("decimal", minus, symbols)
           led == <<0>> \o symbols
           ten == 10
<1>1. createCounterStyleFromRange(value, "decimal", 10, TRUE) = text
  BY DEF createCounterStyleFromRange
<1>2. minus \in BOOLEAN /\ ten \in Int /\ 0 \in Int /\ "decimal" \in Numeric
  BY DEF Numeric
<1>3. text.symbols = symbols
  BY DEF Text
<1>4. Text("decimal", minus, led) = [text EXCEPT !.symbols = <<0>> \o @]
  <2>1. \A system, sign, old, new :
          [[system |-> system, minus |-> sign, symbols |-> old] EXCEPT !.symbols = new]
            = [system |-> system, minus |-> sign, symbols |-> new]
    OBVIOUS
  <2>2. [text EXCEPT !.symbols = <<0>> \o @] = [text EXCEPT !.symbols = led]
    BY <1>3
  <2> HIDE DEF minus, symbols, led
  <2>3. QED
    BY <2>1, <2>2 DEF Text
<1>5. WithLeadingZero(text, suffix) \in {text, Text("decimal", minus, led)}
  BY <1>4 DEF WithLeadingZero
<1> HIDE DEF text, minus
<1>6. Says(text, value, type)
  BY <1>1, DecimalSays
<1> HIDE DEF symbols
<1>7. symbols \in Seq(Nat)
  BY <1>3, <1>6 DEF Says
<1>8. led \in Seq(Nat) /\ symbols \in Seq(Int)
  BY <1>7
<1>9. Positional(led, ten, 0) = (0 + 0) + Positional(symbols, ten, 0)
  <2> HIDE DEF ten
  <2>1. QED
    BY <1>2, <1>8, PositionalFront
<1>10. Positional(led, ten, 0) = Positional(symbols, ten, 0)
  <2>1. Positional(symbols, ten, 0) \in Int
    BY <1>2, <1>8, PositionalInt
  <2> HIDE DEF ten, led
  <2>2. QED
    BY <1>9, <2>1
<1> HIDE DEF led
<1>11. Says(Text("decimal", minus, led), value, type)
  <2>1. ReadBy("decimal", minus, led) /\ ReadBy("decimal", minus, symbols)
    BY <1>2, ReadsOf
  <2>2. Reads(Text("decimal", minus, led)) = Reads(text)
    <3>1. Reads(Text("decimal", minus, led)) = Signed(minus, Positional(led, 10, 0))
      BY <1>2, <2>1 DEF ReadBy
    <3>2. Reads(text) = Signed(minus, Positional(symbols, 10, 0))
      BY <1>2, <2>1 DEF ReadBy, text
    <3>3. QED
      BY <1>10, <3>1, <3>2
  <2>3. QED
    BY <1>6, <1>8, <2>1, <2>2 DEF ReadBy, Says
<1>12. QED
  BY <1>1, <1>5, <1>6, <1>11

\* What a number must be for a style to write it.
LEMMA WritesOf ==
  ASSUME NEW type, NEW value \in Int, Writes(type, value)
  PROVE  /\ type \notin {"disc", "circle", "square", "hebrew"}
         /\ type \in DOMAIN Range1 => value # 0
         /\ type \in DOMAIN Symbols => value > 0
         /\ type \in DOMAIN CJK => value \in Spellable
<1> DEFINE letter == type \in DOMAIN Range1
           symbol == type \in DOMAIN Symbols
           cjk == type \in DOMAIN CJK
           plain == type \notin {"disc", "circle", "square", "hebrew"}
           A1 == value # 0
           A2 == value > 0 /\ type # "cjk-decimal"
           A3 == value \in -9999..9999
<1>1. Writes(type, value) = CASE letter -> A1 [] symbol -> A2 [] cjk -> A3 [] OTHER -> plain
  BY DEF Writes
<1>2. /\ letter => ~symbol /\ ~cjk
      /\ symbol => ~letter /\ ~cjk
      /\ cjk => ~letter /\ ~symbol
  BY FamiliesApart
<1>3. letter \/ symbol \/ cjk => plain
  BY DEF Range1, Symbols, CJK
<1> HIDE DEF letter, symbol, cjk, plain, A1, A2, A3
<1>4. plain /\ (letter => A1) /\ (symbol => A2) /\ (cjk => A3)
  <2>1. CASE letter
    BY <1>1, <1>2, <1>3, <2>1
  <2>2. CASE symbol
    BY <1>1, <1>2, <1>3, <2>2
  <2>3. CASE cjk
    BY <1>1, <1>2, <1>3, <2>3
  <2>4. CASE ~letter /\ ~symbol /\ ~cjk
    BY <1>1, <2>4
  <2>5. QED
    BY <2>1, <2>2, <2>3, <2>4
<1>5. QED
  BY <1>4 DEF letter, symbol, cjk, plain, A1, A2, A3, Spellable

\* The text of a number that a style can write says the number.
LEMMA TextSays ==
  ASSUME NEW value \in Int, NEW type, NEW suffix \in BOOLEAN, Writes(type, value)
  PROVE  Says(createCounterText(value, type, suffix), value, type)
<1> DEFINE text == createCounterText(value, type, suffix)
           Decimal == createCounterStyleFromRange(value, "decimal", 10, TRUE)
<1>1. /\ type \notin {"disc", "circle", "square"}
      /\ type \in Named => parseListStyleType(type) = type
      /\ type \notin Named => parseListStyleType(type) = "none"
      /\ type \in DOMAIN Range1 => value # 0
      /\ type \in DOMAIN Symbols => value > 0
      /\ type \in DOMAIN CJK => value \in Spellable
  BY WritesOf DEF parseListStyleType
<1> SUFFICES Says(text, value, type)
  OBVIOUS
<1>3. Says(Decimal, value, type)
  BY DecimalSays
<1>unknown. CASE type \notin Named
  <2>1. Chosen(value, "none", suffix, text)
    BY <1>1, <1>unknown, Dispatch
  <2>2. /\ "none" \notin Numeric /\ "none" \notin DOMAIN Range1 /\ "none" \notin DOMAIN Symbols
        /\ "none" \notin DOMAIN Additive /\ "none" \notin DOMAIN CJK
    BY DEF Numeric, Range1, Symbols, Additive, CJK
  <2> HIDE DEF text
  <2>3. text = Decimal
    BY <2>1, <2>2 DEF Chosen
  <2>4. QED
    BY <1>3, <2>3
<1> SUFFICES ASSUME type \in Named PROVE Says(text, value, type)
  BY <1>unknown
<1>2. Chosen(value, type, suffix, text)
  BY <1>1, Dispatch
<1> HIDE DEF text
<1>4. CASE type = "decimal-leading-zero"
  <2>1. text = WithLeadingZero(Decimal, suffix)
    BY <1>2, <1>4 DEF Chosen
  <2>2. QED
    BY <2>1, LeadingZeroSays
<1>5. CASE type \in Numeric
  <2>1. text = createCounterStyleFromRange(value, type, 10, TRUE)
    BY <1>2, <1>5 DEF Chosen
  <2>2. QED
    BY <1>5, <2>1, NumericSays
<1>6. CASE type \in DOMAIN Range1
  <2>1. text = createCounterStyleFromRange(value, type, Range1[type], FALSE)
    BY <1>2, <1>6 DEF Chosen
  <2>2. QED
    BY <1>1, <1>6, <2>1, LettersSay
<1>7. CASE type \in DOMAIN Symbols
  <2>1. text = createCounterStyleFromSymbols(value, type)
    BY <1>2, <1>7 DEF Chosen
  <2>2. QED
    BY <1>1, <1>7, <2>1, SymbolsSay
<1>8. CASE type \in DOMAIN Additive
  <2>1. text = IF value \in 1..Additive[type].max THEN createAdditiveCounter(value, type) ELSE Decimal
    BY <1>2, <1>8 DEF Chosen
  <2>2. value \in 1..Additive[type].max => Says(createAdditiveCounter(value, type), value, type)
    BY <1>8, AdditiveSays
  <2> HIDE DEF Decimal
  <2>3. QED
    BY <1>3, <2>1, <2>2
<1>9. CASE type \in DOMAIN CJK
  <2>1. text = createCJKCounter(value, type, suffix)
    BY <1>1, <1>2, <1>9 DEF Chosen
  <2>2. QED
    BY <1>1, <1>9, <2>1, SpelledSays
<1>10. CASE /\ type # "decimal-leading-zero"
            /\ type \notin Numeric /\ type \notin DOMAIN Range1 /\ type \notin DOMAIN Symbols
            /\ type \notin DOMAIN Additive /\ type \notin DOMAIN CJK
  <2>1. text = Decimal
    BY <1>1, <1>2, <1>10 DEF Chosen
  <2>2. QED
    BY <1>3, <2>1
<1>11. QED
  BY <1>4, <1>5, <1>6, <1>7, <1>8, <1>9, <1>10

\* The number of an item is an integer, as the values and starts are.
LEMMA NumberIsInt ==
  ASSUME NEW d \in Docs, NEW n \in 1..Len(d)
  PROVE  Number(d, n) \in Int
<1> DEFINE before == Before(d, n)
           o == Owner(d, n)
           valued == Valued(d, before)
           last == LastOf(valued)
           since == Since(before, last)
<1>1. /\ Len(d) \in Nat /\ Parents(d)
      /\ \A m \in 1..Len(d) : d[m].value # <<>> => d[m].value[1] \in Int
      /\ \A m \in 1..Len(d) : d[m].start # <<>> => d[m].start[1] \in Int
  <2>1. /\ Len(d) \in Nat /\ Parents(d)
        /\ \A m \in 1..Len(d) : /\ d[m].start \in Seq(Int) /\ d[m].value \in Seq(Int)
                                /\ d[m].start # <<>> => d[m].start[1] \in Int
                                /\ d[m].value # <<>> => d[m].value[1] \in Int
    BY DocShape
  <2>2. QED
    BY <2>1
<1>2. n \in Nat /\ o \in 0..(n - 1)
  BY <1>1, OwnerComesBefore
<1>3. StartOf(d, o) \in Int
  BY <1>1, <1>2 DEF StartOf
<1>4. before \in SUBSET (1..n) /\ IsFiniteSet(before) /\ Cardinality(before) \in Nat
  BY <1>2, OwnFinite DEF Before, Own, ItemsUpTo
<1>5. Number(d, n) = IF valued = {} THEN StartOf(d, o) + Cardinality(before) - 1
                     ELSE d[last].value[1] + Cardinality(since)
  BY DEF Number, NumberOf
<1>6. valued \in SUBSET (1..n) /\ \A m \in valued : d[m].value # <<>>
  BY <1>4 DEF Valued
<1>7. since \subseteq before
  BY DEF Since
<1>8. Cardinality(since) \in Nat
  BY <1>4, <1>7, FS_Subset, FS_CardinalityType
<1> HIDE DEF before, o, since, valued
<1>9. CASE valued = {}
  BY <1>3, <1>4, <1>5, <1>9
<1>10. CASE valued # {}
  <2>1. last \in valued
    BY <1>2, <1>6, <1>10, LastOfIsLast
  <2> HIDE DEF last
  <2>2. last \in 1..Len(d) /\ d[last].value # <<>>
    BY <1>1, <1>2, <1>6, <2>1
  <2>3. d[last].value[1] \in Int
    BY <1>1, <2>2
  <2>4. QED
    BY <1>5, <1>8, <1>10, <2>3
<1>11. QED
  BY <1>9, <1>10

\* Where the style of an item can write its number, its marker and the text of a counter
\* say that number, in the style or in the decimals it falls back on.
THEOREM MarkersSayTheirNumber == Spec => []MarkersReadBack
<1>1. ASSUME ItemsInv, MarkersShape, MarkersSay PROVE MarkersReadBack
  <2> SUFFICES ASSUME NEW n \in Items, markers[n] # <<>>, Writes(doc[n].type, listIndex[n])
               PROVE  /\ Reads(markers[n][1]) = listIndex[n]
                      /\ Reads(createCounterText(listIndex[n], doc[n].type, FALSE)) = listIndex[n]
                      /\ markers[n][1].system \in {doc[n].type, "decimal"}
                      /\ ToSet(markers[n][1].symbols) \subseteq Nat
    BY DEF MarkersReadBack
  <2>1. n \in 1..k /\ n \in 1..Len(doc) /\ doc \in Docs /\ listIndex[n] = Number(doc, n)
    <3>1. n \in 1..k /\ IsItem(doc, n) /\ k \in Nat /\ k <= Len(doc) /\ doc \in Docs
      BY <1>1 DEF Items, IsItem, ItemsInv, TypeInv
    <3>2. Len(doc) \in Nat
      BY <3>1, DocShape
    <3>3. n \in ItemsUpTo(doc, k)
      BY <3>1 DEF ItemsUpTo
    <3>4. QED
      BY <1>1, <3>1, <3>2, <3>3 DEF ItemsInv, Numbered
  <2>2. listIndex[n] \in Int
    BY <2>1, NumberIsInt
  <2>3. markers[n][1] = createCounterText(listIndex[n], doc[n].type, TRUE)
    <3>1. markers[n] = <<createCounterText(listIndex[n], doc[n].type, TRUE)>>
      BY <1>1, <2>1 DEF MarkersSay
    <3>2. \A v : <<v>>[1] = v
      OBVIOUS
    <3>3. QED
      BY <3>1, <3>2
  <2>4. \A suffix \in BOOLEAN :
          Says(createCounterText(listIndex[n], doc[n].type, suffix), listIndex[n], doc[n].type)
    BY <2>2, TextSays
  <2>5. Says(markers[n][1], listIndex[n], doc[n].type)
    BY <2>3, <2>4
  <2>6. \A s \in Seq(Nat) : ToSet(s) \subseteq Nat
    BY DEF ToSet
  <2>7. QED
    BY <2>4, <2>5, <2>6 DEF Says
<1>2. QED
  BY <1>1, MarkersInvariant, PTL
=============================================================================
