----------------------------- MODULE PaintProofs -----------------------------
(***************************************************************************)
(* Proofs about Paint for every document.                                   *)
(*                                                                         *)
(* Everything rests on one fact about the parser's tree: an element and the *)
(* stacking context it is painted in have the same real contexts around     *)
(* them (Tree).  Opacity and transforms make real contexts, so they can be  *)
(* read off the context.  A call on the renderer's agenda is made under the *)
(* transforms that are restored after it (RestoresAfter, TransformInv);     *)
(* where the opacity can be trusted, each call left finds the last one set  *)
(* (OpacityInv).  Each element is in one list (OnceInv), so that what is    *)
(* drawn and what the agenda still holds are each visible part once         *)
(* (PaintInv).  The parser fills each list in tree order, in the context    *)
(* elements are painted in (ListInv), so the calls planned for a context    *)
(* come in the order CSS paints them (PlanRises), and what is drawn comes   *)
(* before what the agenda still holds (OrderInv).                           *)
(***************************************************************************)
EXTENDS Paint, FiniteSetTheorems, SequenceTheorems, WellFoundedInduction, TLAPS

\* A set of numbers that is not empty has a least element: induction over Nat.
LEMMA LeastNumber ==
  ASSUME NEW S \in SUBSET Nat, S # {}
  PROVE  \E x \in S : \A y \in S : x <= y
<1>1. \E x \in S : \A y \in S : ~(<<y, x>> \in OpToRel(<, Nat))
  BY WFMin, NatLessThanWellFounded
<1>2. \A x, y \in Nat : <<y, x>> \in OpToRel(<, Nat) <=> y < x
  BY DEF OpToRel
<1>3. \A x, y \in Nat : ~(y < x) <=> x <= y
  OBVIOUS
<1>4. QED
  BY <1>1, <1>2, <1>3

\* All of a sequence but its last.
LEMMA FrontIs ==
  ASSUME NEW S, NEW q \in Seq(S), q # <<>>
  PROVE  /\ Len(q) \in Nat \ {0} /\ Last(q) = q[Len(q)]
         /\ Front(q) \in Seq(S) /\ Len(Front(q)) = Len(q) - 1
         /\ \A i \in 1..(Len(q) - 1) : Front(q)[i] = q[i]
<1>1. Len(q) \in Nat /\ Len(q) # 0 /\ Len(q) - 1 \in Int /\ 1 \in Int
  OBVIOUS
<1>2. \A i \in 1..(Len(q) - 1) : q[i] \in S
  OBVIOUS
<1>3. /\ SubSeq(q, 1, Len(q) - 1) \in Seq(S)
      /\ Len(SubSeq(q, 1, Len(q) - 1)) = IF 1 <= Len(q) - 1 THEN Len(q) - 1 - 1 + 1 ELSE 0
      /\ \A i \in 1..(Len(q) - 1 - 1 + 1) : SubSeq(q, 1, Len(q) - 1)[i] = q[1 + i - 1]
  BY <1>1, <1>2, SubSeqProperties
<1>4. Front(q) = SubSeq(q, 1, Len(q) - 1)
  BY DEF Front
<1>5. Len(Front(q)) = Len(q) - 1
  <2>1. \A k \in Nat : k # 0 => k - 1 - 1 + 1 = k - 1 /\ (~(1 <= k - 1) => k - 1 = 0)
    OBVIOUS
  <2>2. QED
    BY <1>1, <1>3, <1>4, <2>1, Zenon
<1>6. \A i \in 1..(Len(q) - 1) : Front(q)[i] = q[i]
  <2>1. /\ Len(q) - 1 - 1 + 1 = Len(q) - 1
        /\ \A i \in 1..(Len(q) - 1) : 1 + i - 1 = i
    BY <1>1
  <2>2. \A i \in 1..(Len(q) - 1) : Front(q)[i] = q[1 + i - 1]
    BY <1>3, <1>4, <2>1, Zenon
  <2>3. QED
    BY <2>1, <2>2, Zenon
<1>7. QED
  BY <1>1, <1>3, <1>4, <1>5, <1>6 DEF Last

-----------------------------------------------------------------------------
(***************************************************************************)
(* Positions.                                                               *)
(***************************************************************************)

\* There are as many positions as there are ends of elements, so no two share one.
LEMMA PositionsDiffer ==
  /\ \A m, n \in Nodes : Open[m] = Open[n] => m = n
  /\ \A m, n \in Nodes : Close[m] = Close[n] => m = n
  /\ \A m, n \in Nodes : Open[m] # Close[n]
<1> DEFINE Ends == Nodes \X {1, 2}
           Count == 2 * Cardinality(Nodes)
           end == [e \in Ends |-> IF e[2] = 1 THEN Open[e[1]] ELSE Close[e[1]]]
<1>1. IsFiniteSet(Nodes) /\ Cardinality(Nodes) \in Nat
  BY DocumentAssumption, FS_CardinalityType
<1>2. IsFiniteSet({1, 2}) /\ Cardinality({1, 2}) = 2
  <2>1. IsFiniteSet({1}) /\ Cardinality({1}) = 1
    BY FS_Singleton
  <2>2. {1, 2} = {1} \cup {2} /\ 2 \notin {1}
    OBVIOUS
  <2>3. IsFiniteSet({1} \cup {2}) /\ Cardinality({1} \cup {2}) = 1 + 1
    BY <2>1, <2>2, FS_AddElement
  <2>4. QED
    BY <2>2, <2>3
<1>3. IsFiniteSet(Ends) /\ Cardinality(Ends) = Count
  BY <1>1, <1>2, FS_Product
<1>4. Count \in Nat /\ Cardinality(1..Count) = Count
  <2>1. Count \in Nat
    BY <1>1
  <2>2. QED
    BY <2>1, FS_Interval
<1>5. {Open[n] : n \in Nodes} \cup {Close[n] : n \in Nodes} = 1..Count
  BY DocumentAssumption
<1> HIDE DEF Count
<1>6. end \in [Ends -> 1..Count]
  BY <1>5
<1>7. \A p \in 1..Count : \E e \in Ends : end[e] = p
  <2> SUFFICES ASSUME NEW p \in 1..Count PROVE \E e \in Ends : end[e] = p
    OBVIOUS
  <2>1. PICK n \in Nodes : p = Open[n] \/ p = Close[n]
    BY <1>5
  <2>2. /\ <<n, 1>> \in Ends /\ end[<<n, 1>>] = Open[n]
        /\ <<n, 2>> \in Ends /\ end[<<n, 2>>] = Close[n]
    OBVIOUS
  <2>3. QED
    BY <2>1, <2>2
<1>8. end \in Surjection(Ends, 1..Count)
  BY <1>6, <1>7 DEF Surjection
<1>9. end \in Injection(Ends, 1..Count)
  BY <1>3, <1>4, <1>8, FS_SurjSameCardinalityImpliesInj
<1>10. \A d, e \in Ends : end[d] = end[e] => d = e
  BY <1>9 DEF Injection, IsInjective
<1>11. \A n \in Nodes, i \in {1, 2} :
         /\ <<n, i>> \in Ends
         /\ end[<<n, i>>] = IF i = 1 THEN Open[n] ELSE Close[n]
  OBVIOUS
<1> HIDE DEF end, Ends
<1>12. \A m, n \in Nodes, i, j \in {1, 2} : end[<<m, i>>] = end[<<n, j>>] => m = n /\ i = j
  <2> SUFFICES ASSUME NEW m \in Nodes, NEW n \in Nodes, NEW i \in {1, 2}, NEW j \in {1, 2},
                      end[<<m, i>>] = end[<<n, j>>]
               PROVE  m = n /\ i = j
    OBVIOUS
  <2>1. <<m, i>> = <<n, j>>
    BY <1>10, <1>11
  <2>2. QED
    BY <2>1
<1>13. 1 \in {1, 2} /\ 2 \in {1, 2} /\ 1 # 2
  OBVIOUS
<1>14. ASSUME NEW m \in Nodes, NEW n \in Nodes
       PROVE  /\ Open[m] = Open[n] => m = n
              /\ Close[m] = Close[n] => m = n
              /\ Open[m] # Close[n]
  <2>1. /\ end[<<m, 1>>] = Open[m] /\ end[<<m, 2>>] = Close[m]
        /\ end[<<n, 1>>] = Open[n] /\ end[<<n, 2>>] = Close[n]
    BY <1>11, <1>13
  <2>2. QED
    BY <1>12, <1>13, <2>1
<1>15. QED
  BY <1>14

\* The elements that position p is inside of.
Around(p) == {m \in Nodes : Open[m] < p /\ p <= Close[m]}

LEMMA Positions ==
  /\ \A n \in Nodes : Open[n] \in Nat /\ Close[n] \in Nat /\ Open[n] < Close[n]
  /\ \A m, n \in Nodes : Open[m] < Open[n] /\ Open[n] < Close[m] => Close[n] < Close[m]
BY DocumentAssumption

\* How the elements around change over the opening of n, over its end, and over all of n.
LEMMA AroundChanges ==
  ASSUME NEW n \in Nodes
  PROVE  /\ Around(Open[n] + 1) = Around(Open[n]) \cup {n} /\ n \notin Around(Open[n])
         /\ Around(Close[n] + 1) = Around(Close[n]) \ {n} /\ n \in Around(Close[n])
         /\ Around(Close[n] + 1) = Around(Open[n])
<1>1. ASSUME NEW m \in Nodes
      PROVE  /\ Open[m] < Open[n] + 1 /\ Open[n] + 1 <= Close[m]
                  <=> (Open[m] < Open[n] /\ Open[n] <= Close[m]) \/ m = n
             /\ Open[m] < Close[n] + 1 /\ Close[n] + 1 <= Close[m]
                  <=> (Open[m] < Close[n] /\ Close[n] <= Close[m]) /\ m # n
             /\ Open[m] < Close[n] + 1 /\ Close[n] + 1 <= Close[m]
                  <=> Open[m] < Open[n] /\ Open[n] <= Close[m]
  <2>1. /\ Open[m] \in Nat /\ Close[m] \in Nat /\ Open[m] < Close[m]
        /\ Open[n] \in Nat /\ Close[n] \in Nat /\ Open[n] < Close[n]
        /\ Open[m] < Open[n] /\ Open[n] < Close[m] => Close[n] < Close[m]
        /\ Open[n] < Open[m] /\ Open[m] < Close[n] => Close[m] < Close[n]
    BY Positions
  <2>2. Open[m] # Close[n] /\ Open[n] # Close[m]
    BY PositionsDiffer
  <2>3. CASE m = n
    BY <2>1, <2>3
  <2>4. CASE m # n
    <3>1. Open[m] # Open[n] /\ Close[m] # Close[n]
      BY <2>4, PositionsDiffer
    <3>2. QED
      BY <2>1, <2>2, <2>4, <3>1
  <2>5. QED
    BY <2>3, <2>4
<1>2. Open[n] < Close[n] /\ ~(Open[n] < Open[n]) /\ Close[n] <= Close[n]
  BY Positions
<1>3. QED
  BY <1>1, <1>2 DEF Around

LEMMA RootIsAround ==
  /\ Root \in Nodes /\ Open[Root] = 1 /\ Close[Root] = End /\ End \in Nat
  /\ \A n \in Nodes : 1 <= Open[n] /\ Close[n] <= End
  /\ \A n \in Nodes : n # Root => 1 < Open[n] /\ Close[n] < End
<1>1. /\ Root \in Nodes /\ Open[Root] = 1 /\ Close[Root] = End /\ End \in Nat
  BY DocumentAssumption, FS_CardinalityType DEF End
<1>2. ASSUME NEW n \in Nodes PROVE Open[n] \in 1..End /\ Close[n] \in 1..End
  BY <1>1, DocumentAssumption DEF End
<1>3. ASSUME NEW n \in Nodes, n # Root PROVE Open[n] # 1 /\ Close[n] # End
  BY <1>1, <1>3, PositionsDiffer
<1>4. QED
  BY <1>1, <1>2, <1>3

\* The elements around an element, and those around its positions.
LEMMA AncestorsAre ==
  ASSUME NEW n \in Nodes
  PROVE  /\ Ancestors(n) = Around(Open[n]) /\ Ancestors(n) = Around(Close[n]) \ {n}
         /\ Ancestors(n) \subseteq Nodes /\ n \notin Ancestors(n) /\ IsFiniteSet(Ancestors(n))
<1>1. ASSUME NEW m \in Nodes
      PROVE  /\ Open[m] < Open[n] /\ Close[n] < Close[m] <=> Open[m] < Open[n] /\ Open[n] <= Close[m]
             /\ Open[m] < Open[n] /\ Close[n] < Close[m]
                  <=> (Open[m] < Close[n] /\ Close[n] <= Close[m]) /\ m # n
  <2>1. /\ Open[m] \in Nat /\ Close[m] \in Nat /\ Open[m] < Close[m]
        /\ Open[n] \in Nat /\ Close[n] \in Nat /\ Open[n] < Close[n]
        /\ Open[m] < Open[n] /\ Open[n] < Close[m] => Close[n] < Close[m]
        /\ Open[n] < Open[m] /\ Open[m] < Close[n] => Close[m] < Close[n]
    BY Positions
  <2>2. Open[m] # Close[n] /\ Open[n] # Close[m]
    BY PositionsDiffer
  <2>3. CASE m = n
    BY <2>1, <2>3
  <2>4. CASE m # n
    <3>1. Open[m] # Open[n] /\ Close[m] # Close[n]
      BY <2>4, PositionsDiffer
    <3>2. QED
      BY <2>1, <2>2, <2>4, <3>1
  <2>5. QED
    BY <2>3, <2>4
<1>2. Ancestors(n) = Around(Open[n]) /\ Ancestors(n) = Around(Close[n]) \ {n}
  BY <1>1 DEF Ancestors, Around
<1>3. IsFiniteSet(Ancestors(n))
  BY DocumentAssumption, FS_Subset DEF Ancestors
<1>4. QED
  BY <1>2, <1>3 DEF Ancestors

Self(n) == Ancestors(n) \cup {n}

LEMMA SelfFinite ==
  ASSUME NEW n \in Nodes PROVE Self(n) \subseteq Nodes /\ IsFiniteSet(Self(n))
BY AncestorsAre, FS_AddElement DEF Self

\* The last of the elements around a position, itself included, has just those around it.
LEMMA InnermostSelf ==
  ASSUME NEW p \in Nat, NEW m \in Around(p), \A x \in Around(p) : Open[x] <= Open[m]
  PROVE  Self(m) = Around(p)
<1>1. ASSUME NEW x \in Nodes
      PROVE  x \in Self(m) <=> x \in Around(p)
  <2>1. /\ Open[m] \in Nat /\ Close[m] \in Nat /\ Open[x] \in Nat /\ Close[x] \in Nat
        /\ Open[x] < Open[m] /\ Open[m] < Close[x] => Close[m] < Close[x]
        /\ Open[m] < p /\ p <= Close[m] /\ m \in Nodes
        /\ Open[x] = Open[m] => x = m
    BY Positions, PositionsDiffer DEF Around
  <2>2. CASE x = m
    BY <2>2 DEF Self
  <2>3. CASE x # m
    <3>1. x \in Self(m) <=> Open[x] < Open[m] /\ Close[m] < Close[x]
      BY <2>3 DEF Self, Ancestors
    <3>2. x \in Around(p) <=> Open[x] < p /\ p <= Close[x]
      BY DEF Around
    <3>3. x \in Around(p) => Open[x] <= Open[m]
      OBVIOUS
    <3>4. QED
      BY <2>1, <2>3, <3>1, <3>2, <3>3
  <2>4. QED
    BY <2>2, <2>3
<1>2. Self(m) \subseteq Nodes /\ Around(p) \subseteq Nodes
  BY SelfFinite DEF Around
<1>3. QED
  BY <1>1, <1>2

-----------------------------------------------------------------------------
(***************************************************************************)
(* Contexts, of a style.                                                    *)
(***************************************************************************)
Real(st, n) ==
  \/ n = Root \/ (st[n].positioned /\ ~st[n].auto)
  \/ st[n].translucent \/ st[n].transformed \/ st[n].body
IsContext(st, n) == Real(st, n) \/ st[n].positioned \/ st[n].float
Visible(st, n) == \A m \in Self(n) : st[m].visible
\* The contexts that are open at p or before.
Contexts(st, p) == {n \in Nodes : n = Root \/ (IsContext(st, n) /\ Visible(st, n) /\ Open[n] < p)}
\* The real contexts around n, and those with n itself.
RealsAbove(st, n) == {m \in Ancestors(n) : Real(st, m)}
Reals(st, n) == {m \in Self(n) : Real(st, m)}
Factors(st, n) == {m \in Self(n) : st[m].translucent}
Transforms(st, n) == {m \in Self(n) : st[m].transformed}
TransformsAbove(st, n) == {m \in Ancestors(n) : st[m].transformed}

LEMMA StyleNames ==
  \A n : /\ createsRealStackingContext(n) <=> Real(style, n)
         /\ HasContext(n) <=> IsContext(style, n)
         /\ Shown(n) <=> Visible(style, n)
         /\ Translucent(n) = Factors(style, n)
BY DEF createsRealStackingContext, HasContext, createsStackingContext, Shown, Translucent,
       Real, IsContext, Visible, Factors, Self

\* Opacity and transforms make real contexts: elements with the same real contexts
\* around them have the same of both.
LEMMA RealsTell ==
  ASSUME NEW st, NEW m \in Nodes, NEW n \in Nodes
  PROVE  /\ Reals(st, m) = Reals(st, n) => /\ Factors(st, m) = Factors(st, n)
                                           /\ Transforms(st, m) = Transforms(st, n)
         /\ RealsAbove(st, m) = Reals(st, n) =>
              /\ TransformsAbove(st, m) = Transforms(st, n)
              /\ Factors(st, m) = IF st[m].translucent THEN Factors(st, n) \cup {m}
                                  ELSE Factors(st, n)
         /\ ~Real(st, n) => Reals(st, n) = RealsAbove(st, n)
         /\ m \notin RealsAbove(st, m)
<1>1. \A x : /\ st[x].translucent => Real(st, x)
             /\ st[x].transformed => Real(st, x)
  BY DEF Real
<1>2. \A x : /\ x \in Reals(st, m) <=> x \in Self(m) /\ Real(st, x)
             /\ x \in Reals(st, n) <=> x \in Self(n) /\ Real(st, x)
             /\ x \in RealsAbove(st, m) <=> x \in Ancestors(m) /\ Real(st, x)
             /\ x \in RealsAbove(st, n) <=> x \in Ancestors(n) /\ Real(st, x)
             /\ x \in Self(m) <=> x \in Ancestors(m) \/ x = m
             /\ x \in Self(n) <=> x \in Ancestors(n) \/ x = n
             /\ m \notin Ancestors(m)
  BY AncestorsAre DEF Reals, RealsAbove, Self
<1>3. ASSUME Reals(st, m) = Reals(st, n)
      PROVE  Factors(st, m) = Factors(st, n) /\ Transforms(st, m) = Transforms(st, n)
  BY <1>1, <1>2, <1>3 DEF Factors, Transforms
<1>4. ASSUME RealsAbove(st, m) = Reals(st, n)
      PROVE  /\ TransformsAbove(st, m) = Transforms(st, n)
             /\ Factors(st, m) = IF st[m].translucent THEN Factors(st, n) \cup {m}
                                 ELSE Factors(st, n)
  <2>1. \A x : st[x].translucent => (x \in Ancestors(m) <=> x \in Self(n))
    BY <1>1, <1>2, <1>4
  <2>2. \A x : st[x].transformed => (x \in Ancestors(m) <=> x \in Self(n))
    BY <1>1, <1>2, <1>4
  <2>3. \A x : x \in Factors(st, m) <=> x \in Factors(st, n) \/ (x = m /\ st[m].translucent)
    BY <1>2, <2>1 DEF Factors
  <2>4. QED
    BY <2>2, <2>3 DEF TransformsAbove, Transforms
<1>5. ~Real(st, n) => Reals(st, n) = RealsAbove(st, n)
  BY <1>2
<1>6. QED
  BY <1>2, <1>3, <1>4, <1>5

-----------------------------------------------------------------------------
(***************************************************************************)
(* getRealParentStackingContext.                                            *)
(***************************************************************************)
Rises(st, par) == par \in [Nodes -> Nodes] /\ \A x \in Nodes : x # Root => Open[par[x]] < Open[x]
Climbs(st, par, f) == f = [x \in Nodes |-> IF Real(st, x) THEN x ELSE f[par[x]]]

\* The parents come first, so the recursion has a solution.
LEMMA ClimbExists ==
  ASSUME NEW st, NEW par, Rises(st, par)
  PROVE  \E f : Climbs(st, par, f)
<1> DEFINE Holds(f, x) == f[x] = IF Real(st, x) THEN x ELSE f[par[x]]
           Upto(f, m) == \A x \in Nodes : Open[x] <= m => Holds(f, x)
           Bad == {m \in Nat : ~\E f \in [Nodes -> Nodes] : Upto(f, m)}
<1>1. /\ Real(st, Root) /\ par \in [Nodes -> Nodes]
      /\ \A x \in Nodes : ~Real(st, x) => Open[par[x]] < Open[x]
      /\ \A x \in Nodes : Open[x] \in Nat /\ 1 <= Open[x] /\ Open[x] <= End
  BY Positions, RootIsAround DEF Real, Rises
<1>2. Bad = {}
  <2> SUFFICES ASSUME Bad # {} PROVE FALSE
    OBVIOUS
  <2>1. PICK m \in Bad : \A y \in Bad : m <= y
    <3>1. Bad \in SUBSET Nat
      OBVIOUS
    <3> HIDE DEF Bad
    <3>2. QED
      BY <3>1, LeastNumber
  <2>2. m \in Nat /\ ~\E f \in [Nodes -> Nodes] : Upto(f, m)
    BY <2>1
  <2>3. CASE m = 0
    <3>1. [x \in Nodes |-> Root] \in [Nodes -> Nodes]
      BY RootIsAround
    <3>2. \A x \in Nodes : ~(Open[x] <= 0)
      BY <1>1
    <3>3. QED
      BY <2>2, <2>3, <3>1, <3>2
  <2>4. CASE m # 0
    <3>1. m - 1 \in Nat /\ ~(m <= m - 1)
      BY <2>2, <2>4
    <3>2. PICK g \in [Nodes -> Nodes] : Upto(g, m - 1)
      BY <2>1, <3>1
    <3> DEFINE f == [x \in Nodes |-> IF Open[x] = m THEN IF Real(st, x) THEN x ELSE g[par[x]]
                                     ELSE g[x]]
    <3>3. f \in [Nodes -> Nodes]
      BY <1>1
    <3>4. ASSUME NEW x \in Nodes, Open[x] <= m PROVE Holds(f, x)
      <4>1. ~Real(st, x) => par[x] \in Nodes /\ f[par[x]] = g[par[x]]
        BY <1>1, <2>2, <3>4
      <4>2. CASE Open[x] = m
        BY <4>1, <4>2
      <4>3. CASE Open[x] # m
        <5>1. Open[x] <= m - 1
          BY <1>1, <2>2, <3>4, <4>3
        <5>2. Holds(g, x)
          BY <3>2, <5>1
        <5>3. f[x] = g[x]
          BY <4>3
        <5> HIDE DEF f
        <5>4. QED
          BY <4>1, <5>2, <5>3
      <4>4. QED
        BY <4>2, <4>3
    <3> HIDE DEF f
    <3>5. QED
      BY <2>2, <3>3, <3>4
  <2>5. QED
    BY <2>3, <2>4
<1>3. PICK f \in [Nodes -> Nodes] : Upto(f, End)
  <2>1. End \in Nat /\ End \notin Bad
    BY <1>2, RootIsAround
  <2> HIDE DEF Upto
  <2>2. QED
    BY <2>1
<1>4. f = [x \in Nodes |-> IF Real(st, x) THEN x ELSE f[par[x]]]
  BY <1>1, <1>3
<1>5. QED
  BY <1>4 DEF Climbs

-----------------------------------------------------------------------------
(***************************************************************************)
(* The parser's tree.                                                       *)
(***************************************************************************)
TypeInv ==
  /\ \A n \in Nodes : style[n] \in Styles[n]
  /\ pos \in Nat /\ 2 <= pos /\ pos <= End + 1
  /\ path \in Seq(Nodes)
  /\ parent \in [Nodes -> Nodes] /\ opacity \in [Nodes -> Nat]
  /\ contexts \in [Nodes -> Seq(Nodes)] /\ children \in [Nodes -> Seq(Nodes)]
\* What the calls of parseNodeTree hold: e are the elements they are for.
PathOf(e) ==
  /\ Len(e) = Len(path)
  /\ \A i \in 1..Len(e) : e[i] \in Around(pos)
  /\ \A m \in Around(pos) : \E i \in 1..Len(e) : m = e[i]
  /\ \A i, j \in 1..Len(e) : i < j => Open[e[i]] < Open[e[j]]
  /\ \A i \in 1..Len(e) : /\ path[i] \in Contexts(style, pos)
                           /\ Reals(style, path[i]) = Reals(style, e[i])
PathInv ==
  pos <= End => /\ \A m \in Around(pos) : style[m].visible
                /\ \E e \in Seq(Nodes) : PathOf(e)
\* n is a context above whose content is that of c.
UnderContext(st, p, n, c) ==
  /\ c \in Contexts(st, p)
  /\ RealsAbove(st, n) = Reals(st, c)
  /\ ~Real(st, c) => ~Real(st, n)
Tree ==
  /\ Rises(style, parent)
  /\ \A n \in Contexts(style, pos) :
        /\ opacity[n] = Cardinality(Factors(style, n))
        /\ n # Root => UnderContext(style, pos, n, parent[n])
  /\ \A s \in Nodes : \A i \in 1..Len(contexts[s]) :
        /\ contexts[s][i] \in Contexts(style, pos) /\ contexts[s][i] # Root
        /\ parent[contexts[s][i]] = s
  /\ \A s \in Nodes : \A i \in 1..Len(children[s]) :
        /\ s \in Contexts(style, pos)
        /\ children[s][i] \in Nodes /\ Open[children[s][i]] < pos
        /\ Visible(style, children[s][i]) /\ ~IsContext(style, children[s][i])
        /\ Reals(style, children[s][i]) = Reals(style, s)
TreeInv == TypeInv /\ PathInv /\ Tree

LEMMA RootIsContext ==
  ASSUME TypeInv
  PROVE  /\ Root \in Contexts(style, pos) /\ Visible(style, Root) /\ Real(style, Root)
         /\ Ancestors(Root) = {}
         /\ \A n \in Contexts(style, pos) : /\ n \in Nodes /\ Open[n] < pos
                                             /\ Visible(style, n) /\ IsContext(style, n)
<1>1. Root \in Nodes /\ Open[Root] = 1 /\ style[Root].visible
  BY RootIsAround, StylesAssumption DEF TypeInv
<1>2. Ancestors(Root) = {}
  BY RootIsAround, Positions DEF Ancestors
<1>3. QED
  BY <1>1, <1>2 DEF Contexts, Visible, Self, Real, IsContext, TypeInv

\* The real context that is found has the same real contexts around it.
LEMMA RealParentIs ==
  ASSUME TypeInv, Tree, NEW s \in Contexts(style, pos)
  PROVE  /\ getRealParentStackingContext(s) \in Contexts(style, pos)
         /\ Real(style, getRealParentStackingContext(s))
         /\ Reals(style, getRealParentStackingContext(s)) = Reals(style, s)
<1> DEFINE f == CHOOSE g : Climbs(style, parent, g)
           Good(x) == /\ f[x] \in Contexts(style, pos) /\ Real(style, f[x])
                      /\ Reals(style, f[x]) = Reals(style, x)
           Bad == {m \in Nat : \E x \in Contexts(style, pos) : Open[x] = m /\ ~Good(x)}
<1>1. getRealParentStackingContext(s) = f[s]
  BY StyleNames, Zenon DEF getRealParentStackingContext, Climbs
<1>2. Climbs(style, parent, f)
  BY ClimbExists DEF Tree
<1> HIDE DEF f
<1>3. Bad = {}
  <2> SUFFICES ASSUME Bad # {} PROVE FALSE
    OBVIOUS
  <2>1. PICK m \in Bad : \A y \in Bad : m <= y
    <3>1. Bad \in SUBSET Nat
      OBVIOUS
    <3> HIDE DEF Bad
    <3>2. QED
      BY <3>1, LeastNumber
  <2>2. PICK x \in Contexts(style, pos) : Open[x] = m /\ ~Good(x)
    BY <2>1
  <2>3. x \in Nodes
    BY DEF Contexts
  <2>4. f[x] = IF Real(style, x) THEN x ELSE f[parent[x]]
    BY <1>2, <2>3 DEF Climbs
  <2>5. ~Real(style, x)
    BY <2>2, <2>4
  <2>6. /\ x # Root /\ Open[parent[x]] < Open[x] /\ UnderContext(style, pos, x, parent[x])
        /\ parent[x] \in Nodes
    BY <2>3, <2>5, RootIsContext DEF Tree, Rises, TypeInv
  <2>7. Open[parent[x]] \in Nat /\ Open[parent[x]] \notin Bad
    BY <2>1, <2>2, <2>3, <2>6, Positions
  <2>8. Good(parent[x])
    BY <2>6, <2>7 DEF UnderContext
  <2>9. Reals(style, x) = RealsAbove(style, x)
    BY <2>3, <2>5, RealsTell
  <2>10. QED
    BY <2>2, <2>4, <2>5, <2>6, <2>8, <2>9 DEF UnderContext
<1>4. Open[s] \in Nat
  BY Positions DEF Contexts
<1>5. Good(s)
  BY <1>3, <1>4
<1>6. QED
  BY <1>1, <1>5

LEMMA InitTree == Init => TreeInv
<1> SUFFICES ASSUME Init PROVE TreeInv
  OBVIOUS
<1>1. /\ Root \in Nodes /\ Open[Root] = 1 /\ Close[Root] = End /\ End \in Nat /\ 1 < End
      /\ \A n \in Nodes : n # Root => ~(Open[n] < 2)
      /\ \A n \in Nodes : Open[n] \in Nat
  BY RootIsAround, Positions
<1>2. TypeInv
  <2>1. <<>> \in Seq(Nodes) /\ <<Root>> \in Seq(Nodes)
    BY <1>1
  <2>2. QED
    BY <1>1, <2>1 DEF Init, TypeInv
<1>3. Around(2) = {Root}
  BY <1>1 DEF Around
<1>4. Contexts(style, 2) = {Root}
  BY <1>1 DEF Contexts
<1>5. /\ style[Root].visible /\ Ancestors(Root) = {} /\ Real(style, Root)
  BY <1>1, <1>2, RootIsContext, StylesAssumption DEF TypeInv
<1>6. PathInv
  <2>1. <<Root>> \in Seq(Nodes) /\ Len(<<Root>>) = 1 /\ <<Root>>[1] = Root
    BY <1>1
  <2>2. PathOf(<<Root>>)
    BY <1>3, <1>4, <2>1 DEF Init, PathOf
  <2>3. QED
    BY <1>3, <1>5, <2>1, <2>2 DEF Init, PathInv
<1>7. Factors(style, Root) = IF style[Root].translucent THEN {Root} ELSE {}
  BY <1>5 DEF Factors, Self
<1>8. Cardinality({Root}) = 1 /\ Cardinality({}) = 0
  BY FS_Singleton, FS_EmptySet
<1>9. opacity[Root] = Cardinality(Factors(style, Root))
  BY <1>1, <1>7, <1>8 DEF Init
<1>10. Rises(style, parent)
  BY <1>1, RootIsAround DEF Init, Rises
<1>11. \A s \in Nodes : Len(contexts[s]) = 0 /\ Len(children[s]) = 0
  BY DEF Init
<1>12. Tree
  BY <1>4, <1>9, <1>10, <1>11 DEF Init, Tree
<1>13. QED
  BY <1>2, <1>6, <1>12 DEF TreeInv

\* What the parser knows when it comes to an element n: the context of the call has
\* the real contexts that are above n.
LEMMA AtOpening ==
  ASSUME TreeInv, NEW n \in Nodes, Parsing, pos = Open[n]
  PROVE  /\ n # Root /\ path # <<>> /\ Last(path) \in Contexts(style, pos)
         /\ Reals(style, Last(path)) = RealsAbove(style, n)
         /\ \A m \in Ancestors(n) : style[m].visible
<1>1. TypeInv /\ PathInv /\ pos < End /\ pos \in Nat /\ 2 <= pos
  BY DEF TreeInv, TypeInv, Parsing
<1>2. n # Root
  BY <1>1, RootIsAround
<1>3. Root \in Around(pos)
  BY <1>1, RootIsAround DEF Around
<1>4. /\ \A m \in Around(pos) : style[m].visible
      /\ \E e \in Seq(Nodes) : PathOf(e)
  BY <1>1, RootIsAround DEF PathInv
<1>5. PICK e \in Seq(Nodes) : PathOf(e)
  BY <1>4
<1>6. Len(e) \in Nat /\ Len(e) # 0
  BY <1>3, <1>5 DEF PathOf
<1> DEFINE m == e[Len(e)]
<1>7. m \in Around(pos)
  BY <1>5, <1>6 DEF PathOf
<1>8. ASSUME NEW x \in Around(pos) PROVE Open[x] <= Open[m]
  <2>1. PICK i \in 1..Len(e) : x = e[i]
    BY <1>5 DEF PathOf
  <2>2. i < Len(e) => Open[x] < Open[m]
    BY <1>5, <1>6, <2>1 DEF PathOf
  <2>3. Open[x] \in Nat /\ Open[m] \in Nat
    BY <1>7, Positions DEF Around
  <2>4. QED
    BY <1>6, <2>1, <2>2, <2>3
<1> HIDE DEF m
<1>9. Self(m) = Around(pos)
  BY <1>1, <1>7, <1>8, InnermostSelf
<1>10. Ancestors(n) = Around(pos)
  BY AncestorsAre
<1>11. Reals(style, m) = RealsAbove(style, n)
  BY <1>9, <1>10 DEF Reals, RealsAbove
<1>12. /\ path # <<>> /\ Last(path) \in Contexts(style, pos)
       /\ Reals(style, Last(path)) = Reals(style, m)
  <2>1. path \in Seq(Nodes) /\ Len(path) = Len(e)
    BY <1>1, <1>5 DEF TypeInv, PathOf
  <2>2. Len(e) \in 1..Len(e)
    BY <1>6
  <2>3. /\ path[Len(e)] \in Contexts(style, pos)
        /\ Reals(style, path[Len(e)]) = Reals(style, e[Len(e)])
    BY <1>5, <2>2 DEF PathOf
  <2>4. QED
    BY <1>6, <2>1, <2>3 DEF Last, m
<1>13. QED
  BY <1>2, <1>4, <1>10, <1>11, <1>12

\* Enter appends an element to those of the path, with a context of its own or the last.
LEMMA EnterPath ==
  ASSUME TreeInv, NEW n \in Nodes, Enter(n)
  PROVE  PathInv'
<1> DEFINE s == Last(path)
           c == IF IsContext(style, n) THEN n ELSE s
<1>1. /\ TypeInv /\ PathInv /\ pos = Open[n] /\ Parsing /\ pos' = pos + 1 /\ style' = style
      /\ style[n].visible /\ path' = Append(path, c)
  BY StyleNames DEF TreeInv, Enter, HasContext
<1>2. /\ n # Root /\ path # <<>> /\ s \in Contexts(style, pos)
      /\ Reals(style, s) = RealsAbove(style, n)
      /\ \A m \in Ancestors(n) : style[m].visible
  BY <1>1, AtOpening
<1>3. /\ pos \in Nat /\ pos < End /\ End \in Nat
  BY <1>1, RootIsAround DEF TypeInv, Parsing
<1>4. PICK e \in Seq(Nodes) : PathOf(e)
  BY <1>1, <1>3 DEF PathInv
<1>5. Around(pos') = Around(pos) \cup {n}
  BY <1>1, AroundChanges
<1>6. \A m \in Around(pos') : style'[m].visible
  BY <1>1, <1>3, <1>5 DEF PathInv
<1>7. \A x \in Contexts(style, pos) : x \in Contexts(style', pos')
  BY <1>1, <1>3, Positions DEF Contexts
<1>8. c \in Contexts(style', pos') /\ c \in Nodes
  <2>1. CASE IsContext(style, n)
    <3>1. Visible(style, n)
      BY <1>1, <1>2 DEF Visible, Self
    <3>2. Open[n] < pos'
      BY <1>1, <1>3
    <3>3. QED
      BY <1>1, <2>1, <3>1, <3>2 DEF Contexts
  <2>2. CASE ~IsContext(style, n)
    BY <1>2, <1>7, <2>2 DEF Contexts
  <2>3. QED
    BY <2>1, <2>2
<1>9. Reals(style, c) = Reals(style, n)
  BY <1>2, RealsTell DEF IsContext
<1> DEFINE f == Append(e, n)
<1>10. /\ f \in Seq(Nodes) /\ Len(f) = Len(e) + 1 /\ Len(e) \in Nat
       /\ \A i \in 1..Len(e) : f[i] = e[i]
       /\ f[Len(e) + 1] = n
  OBVIOUS
<1>11. /\ path \in Seq(Nodes) /\ Len(path) = Len(e) /\ Len(path') = Len(e) + 1
       /\ \A i \in 1..Len(e) : path'[i] = path[i]
       /\ path'[Len(e) + 1] = c
  <2>1. path \in Seq(Nodes) /\ Len(path) = Len(e)
    BY <1>1, <1>4 DEF TypeInv, PathOf
  <2> HIDE DEF c
  <2>2. QED
    BY <1>1, <1>8, <2>1
<1> HIDE DEF f, c
<1>12. PathOf(f)'
  <2>1. Len(f) = Len(path')
    BY <1>10, <1>11
  <2>2. \A i \in 1..Len(f) : i \in 1..Len(e) \/ i = Len(e) + 1
    BY <1>10
  <2>3. \A i \in 1..Len(f) : f[i] \in Around(pos')
    BY <1>4, <1>5, <1>10, <2>2 DEF PathOf
  <2>4. \A m \in Around(pos') : \E i \in 1..Len(f) : m = f[i]
    <3> SUFFICES ASSUME NEW m \in Around(pos') PROVE \E i \in 1..Len(f) : m = f[i]
      OBVIOUS
    <3>1. CASE m = n
      <4>1. Len(e) + 1 \in 1..Len(f)
        BY <1>10
      <4>2. QED
        BY <1>10, <3>1, <4>1
    <3>2. CASE m \in Around(pos)
      <4>1. PICK i \in 1..Len(e) : m = e[i]
        BY <1>4, <3>2 DEF PathOf
      <4>2. i \in 1..Len(f) /\ f[i] = m
        BY <1>10, <4>1
      <4>3. QED
        BY <4>2
    <3>3. QED
      BY <1>5, <3>1, <3>2
  <2>5. \A i, j \in 1..Len(f) : i < j => Open[f[i]] < Open[f[j]]
    <3> SUFFICES ASSUME NEW i \in 1..Len(f), NEW j \in 1..Len(f), i < j
                 PROVE  Open[f[i]] < Open[f[j]]
      OBVIOUS
    <3>1. i \in 1..Len(e) /\ f[i] = e[i]
      BY <1>10
    <3>2. CASE j \in 1..Len(e)
      BY <1>4, <1>10, <3>1, <3>2 DEF PathOf
    <3>3. CASE j = Len(e) + 1
      <4>1. e[i] \in Around(pos)
        BY <1>4, <3>1 DEF PathOf
      <4>2. QED
        BY <1>1, <1>10, <3>1, <3>3, <4>1 DEF Around
    <3>4. QED
      BY <2>2, <3>2, <3>3
  <2>6. \A i \in 1..Len(f) : /\ path'[i] \in Contexts(style', pos')
                             /\ Reals(style', path'[i]) = Reals(style', f[i])
    <3> SUFFICES ASSUME NEW i \in 1..Len(f)
                 PROVE  /\ path'[i] \in Contexts(style', pos')
                        /\ Reals(style', path'[i]) = Reals(style', f[i])
      OBVIOUS
    <3>1. CASE i \in 1..Len(e)
      <4>1. path'[i] = path[i] /\ f[i] = e[i]
        BY <1>10, <1>11, <3>1
      <4>2. path[i] \in Contexts(style, pos) /\ Reals(style, path[i]) = Reals(style, e[i])
        BY <1>4, <3>1 DEF PathOf
      <4>3. QED
        BY <1>1, <1>7, <4>1, <4>2
    <3>2. CASE i = Len(e) + 1
      BY <1>1, <1>8, <1>9, <1>10, <1>11, <3>2
    <3>3. QED
      BY <2>2, <3>1, <3>2
  <2>7. QED
    BY <2>1, <2>3, <2>4, <2>5, <2>6 DEF PathOf
<1>13. QED
  BY <1>6, <1>10, <1>12 DEF PathInv

\* The context that a new context n becomes a child of.
LEMMA ParentStackIs ==
  ASSUME TreeInv, NEW n \in Nodes, Parsing, pos = Open[n]
  PROVE  LET up == parentStack(n, Last(path)) IN UnderContext(style, pos, n, up) /\ up \in Nodes
<1> DEFINE s == Last(path)
           up == parentStack(n, s)
<1>1. TypeInv /\ Tree /\ s \in Contexts(style, pos) /\ Reals(style, s) = RealsAbove(style, n)
  BY AtOpening DEF TreeInv
<1>2. CASE Real(style, n) \/ style[n].positioned
  <2>1. up = getRealParentStackingContext(s)
    BY <1>2, StyleNames DEF parentStack
  <2>2. QED
    BY <1>1, <2>1, RealParentIs DEF UnderContext, Contexts
<1>3. CASE ~(Real(style, n) \/ style[n].positioned)
  <2>1. up = s
    BY <1>3, StyleNames DEF parentStack
  <2>2. QED
    BY <1>1, <1>3, <2>1 DEF UnderContext, Contexts
<1>4. QED
  BY <1>2, <1>3

LEMMA EnterStep ==
  ASSUME TreeInv, NEW n \in Nodes, Enter(n)
  PROVE  TreeInv'
<1> DEFINE s == Last(path)
           up == parentStack(n, s)
           own == IsContext(style, n)
<1>1. /\ TypeInv /\ PathInv /\ Tree
      /\ pos = Open[n] /\ Parsing /\ pos' = pos + 1 /\ style' = style /\ style[n].visible
      /\ own =>
           /\ parent' = [parent EXCEPT ![n] = up]
           /\ opacity' = [opacity EXCEPT ![n] = opacity[up] + IF style[n].translucent THEN 1 ELSE 0]
           /\ contexts' = [contexts EXCEPT ![up] = Append(@, n)]
           /\ children' = children
           /\ path' = Append(path, n)
      /\ ~own =>
           /\ children' = [children EXCEPT ![s] = Append(@, n)]
           /\ path' = Append(path, s)
           /\ parent' = parent /\ opacity' = opacity /\ contexts' = contexts
  BY StyleNames DEF TreeInv, Enter, HasContext
<1>2. /\ n # Root /\ path # <<>> /\ s \in Contexts(style, pos) /\ s \in Nodes
      /\ Reals(style, s) = RealsAbove(style, n)
      /\ \A m \in Ancestors(n) : style[m].visible
  BY <1>1, AtOpening DEF Contexts
<1>3. UnderContext(style, pos, n, up) /\ up \in Nodes
  BY <1>1, ParentStackIs
<1>4. pos \in Nat /\ pos < End /\ End \in Nat
  BY <1>1, RootIsAround DEF TypeInv, Parsing
<1>5. Open[up] < Open[n] /\ up # n
  <2>1. Open[up] < pos
    BY <1>1, <1>3, RootIsContext DEF UnderContext
  <2>2. QED
    BY <1>1, <1>4, <2>1
<1> HIDE DEF up, s, own
<1>6. TypeInv'
  <2>1. pos' \in Nat /\ 2 <= pos' /\ pos' <= End + 1
    <3>1. 2 <= pos
      BY <1>1 DEF TypeInv
    <3>2. QED
      BY <1>1, <1>4, <3>1
  <2>2. CASE own
    <3>1. path' \in Seq(Nodes)
      <4>1. path \in Seq(Nodes) /\ path' = Append(path, n)
        BY <1>1, <2>2 DEF TypeInv
      <4>2. QED
        BY <4>1
    <3>2. contexts' \in [Nodes -> Seq(Nodes)]
      <4>1. contexts[up] \in Seq(Nodes)
        BY <1>1, <1>3 DEF TypeInv
      <4>2. Append(contexts[up], n) \in Seq(Nodes)
        BY <4>1
      <4>3. QED
        BY <1>1, <2>2, <4>2 DEF TypeInv
    <3>3. parent' \in [Nodes -> Nodes] /\ opacity' \in [Nodes -> Nat]
      <4>1. opacity[up] \in Nat
        BY <1>1, <1>3 DEF TypeInv
      <4>2. opacity[up] + (IF style[n].translucent THEN 1 ELSE 0) \in Nat
        BY <4>1
      <4>3. parent \in [Nodes -> Nodes] /\ opacity \in [Nodes -> Nat]
        BY <1>1 DEF TypeInv
      <4> DEFINE more == opacity[up] + IF style[n].translucent THEN 1 ELSE 0
      <4>4. parent' = [parent EXCEPT ![n] = up] /\ opacity' = [opacity EXCEPT ![n] = more]
        BY <1>1, <2>2
      <4> HIDE DEF more
      <4>5. more \in Nat
        BY <4>2 DEF more
      <4>6. parent' \in [Nodes -> Nodes]
        BY <1>3, <4>3, <4>4
      <4>7. opacity' \in [Nodes -> Nat]
        BY <4>3, <4>4, <4>5
      <4>8. QED
        BY <4>6, <4>7
    <3>4. QED
      BY <1>1, <2>1, <2>2, <3>1, <3>2, <3>3 DEF TypeInv
  <2>3. CASE ~own
    <3>1. path' \in Seq(Nodes)
      <4>1. path \in Seq(Nodes) /\ path' = Append(path, s)
        BY <1>1, <2>3 DEF TypeInv
      <4>2. QED
        BY <1>2, <4>1
    <3>2. children' \in [Nodes -> Seq(Nodes)]
      <4>1. children[s] \in Seq(Nodes)
        BY <1>1, <1>2 DEF TypeInv
      <4>2. Append(children[s], n) \in Seq(Nodes)
        BY <4>1
      <4>3. QED
        BY <1>1, <2>3, <4>2 DEF TypeInv
    <3>3. QED
      BY <1>1, <2>1, <2>3, <3>1, <3>2 DEF TypeInv
  <2>4. QED
    BY <2>2, <2>3
<1>7. PathInv'
  BY EnterPath
<1>8. Visible(style, n)
  BY <1>1, <1>2 DEF Visible, Self
<1>9. \A x : x \in Contexts(style, pos') <=> x \in Contexts(style, pos) \/ (own /\ x = n)
  <2>1. ASSUME NEW x \in Nodes
        PROVE  Open[x] < pos' <=> Open[x] < pos \/ x = n
    <3>1. Open[x] \in Nat /\ (Open[x] = Open[n] => x = n)
      BY Positions, PositionsDiffer
    <3>2. QED
      BY <1>1, <1>4, <3>1
  <2>2. QED
    BY <1>8, <2>1 DEF Contexts, own
<1>10. n \notin Contexts(style, pos)
  BY <1>1, <1>2, <1>4 DEF Contexts
<1>11. Rises(style, parent')
  <2>1. Rises(style, parent)
    BY <1>1 DEF Tree
  <2>2. CASE own
    <3>1. parent' = [parent EXCEPT ![n] = up]
      BY <1>1, <2>2
    <3>2. QED
      BY <1>3, <1>5, <2>1, <3>1 DEF Rises
  <2>3. CASE ~own
    BY <1>1, <2>1, <2>3
  <2>4. QED
    BY <2>2, <2>3
<1>12. ASSUME NEW x \in Nodes, NEW c, UnderContext(style, pos, x, c)
       PROVE  UnderContext(style, pos', x, c)
  BY <1>1, <1>9, <1>12 DEF UnderContext
<1>13. ASSUME NEW x \in Contexts(style, pos')
       PROVE  /\ opacity'[x] = Cardinality(Factors(style, x))
              /\ x # Root => UnderContext(style, pos', x, parent'[x])
  <2>1. x \in Nodes
    BY DEF Contexts
  <2>2. CASE x \in Contexts(style, pos)
    <3>1. parent'[x] = parent[x] /\ opacity'[x] = opacity[x]
      BY <1>1, <1>10, <2>1, <2>2 DEF TypeInv
    <3>2. /\ opacity[x] = Cardinality(Factors(style, x))
          /\ x # Root => UnderContext(style, pos, x, parent[x])
      BY <1>1, <2>2 DEF Tree
    <3>3. QED
      BY <1>12, <2>1, <3>1, <3>2
  <2>3. CASE own /\ x = n
    <3>1. parent'[n] = up /\ opacity'[n] = opacity[up] + IF style[n].translucent THEN 1 ELSE 0
      BY <1>1, <2>3 DEF TypeInv
    <3>2. opacity[up] = Cardinality(Factors(style, up))
      BY <1>1, <1>3 DEF Tree, UnderContext
    <3>3. /\ Factors(style, n) = IF style[n].translucent THEN Factors(style, up) \cup {n}
                                 ELSE Factors(style, up)
      BY <1>3, RealsTell DEF UnderContext
    <3>4. IsFiniteSet(Factors(style, up))
      BY <1>3, SelfFinite, FS_Subset DEF Factors
    <3>5. n \notin Factors(style, up)
      <4>1. n \notin Self(up)
        BY <1>3, <1>5, Positions DEF Self, Ancestors
      <4>2. QED
        BY <4>1 DEF Factors
    <3>6. /\ Cardinality(Factors(style, up) \cup {n}) = Cardinality(Factors(style, up)) + 1
          /\ Cardinality(Factors(style, up)) \in Nat
      BY <3>4, <3>5, FS_AddElement, FS_CardinalityType
    <3>7. opacity'[n] = Cardinality(Factors(style, n))
      <4>1. CASE style[n].translucent
        BY <3>1, <3>2, <3>3, <3>6, <4>1
      <4>2. CASE ~style[n].translucent
        BY <3>1, <3>2, <3>3, <3>6, <4>2
      <4>3. QED
        BY <4>1, <4>2
    <3>8. UnderContext(style, pos', n, up)
      BY <1>3, <1>12
    <3>9. QED
      BY <2>3, <3>1, <3>7, <3>8
  <2>4. QED
    BY <1>9, <2>2, <2>3
<1>14. ASSUME NEW t \in Nodes, NEW i \in 1..Len(contexts'[t])
       PROVE  /\ contexts'[t][i] \in Contexts(style, pos') /\ contexts'[t][i] # Root
              /\ parent'[contexts'[t][i]] = t
  <2>1. contexts[t] \in Seq(Nodes)
    BY <1>1 DEF TypeInv
  <2>2. ASSUME i \in 1..Len(contexts[t]), contexts'[t][i] = contexts[t][i]
        PROVE  /\ contexts'[t][i] \in Contexts(style, pos') /\ contexts'[t][i] # Root
               /\ parent'[contexts'[t][i]] = t
    <3>1. /\ contexts[t][i] \in Contexts(style, pos) /\ contexts[t][i] # Root
          /\ parent[contexts[t][i]] = t
      BY <1>1, <2>2 DEF Tree
    <3>2. contexts[t][i] \in Nodes /\ contexts[t][i] # n
      BY <1>10, <3>1 DEF Contexts
    <3>3. parent'[contexts[t][i]] = t
      <4>1. CASE own
        <5>1. parent' = [parent EXCEPT ![n] = up] /\ parent \in [Nodes -> Nodes]
          BY <1>1, <4>1 DEF TypeInv
        <5>2. QED
          BY <3>1, <3>2, <5>1
      <4>2. CASE ~own
        BY <1>1, <3>1, <4>2
      <4>3. QED
        BY <4>1, <4>2
    <3>4. QED
      BY <1>9, <2>2, <3>1, <3>3
  <2>3. CASE own /\ t = up
    <3>1. contexts'[t] = Append(contexts[t], n)
      BY <1>1, <2>3 DEF TypeInv
    <3>2. /\ Len(contexts'[t]) = Len(contexts[t]) + 1 /\ Len(contexts[t]) \in Nat
          /\ contexts'[t][Len(contexts[t]) + 1] = n
          /\ \A j \in 1..Len(contexts[t]) : contexts'[t][j] = contexts[t][j]
      BY <2>1, <3>1
    <3>3. CASE i = Len(contexts[t]) + 1
      <4>1. contexts'[t][i] = n /\ parent'[n] = up
        BY <1>1, <2>3, <3>2, <3>3 DEF TypeInv
      <4>2. QED
        BY <1>2, <1>9, <2>3, <4>1
    <3>4. CASE i # Len(contexts[t]) + 1
      <4>1. i \in 1..Len(contexts[t])
        BY <3>2, <3>4
      <4>2. QED
        BY <2>2, <3>2, <4>1
    <3>5. QED
      BY <3>3, <3>4
  <2>4. CASE ~(own /\ t = up)
    <3>1. contexts'[t] = contexts[t]
      BY <1>1, <1>3, <2>4 DEF TypeInv
    <3>2. QED
      BY <2>2, <3>1
  <2>5. QED
    BY <2>3, <2>4
<1>15. ASSUME NEW t \in Nodes, NEW i \in 1..Len(children'[t])
       PROVE  /\ t \in Contexts(style, pos')
              /\ children'[t][i] \in Nodes /\ Open[children'[t][i]] < pos'
              /\ Visible(style, children'[t][i]) /\ ~IsContext(style, children'[t][i])
              /\ Reals(style, children'[t][i]) = Reals(style, t)
  <2>1. children[t] \in Seq(Nodes)
    BY <1>1 DEF TypeInv
  <2>2. ASSUME i \in 1..Len(children[t]), children'[t][i] = children[t][i]
        PROVE  /\ t \in Contexts(style, pos')
               /\ children'[t][i] \in Nodes /\ Open[children'[t][i]] < pos'
               /\ Visible(style, children'[t][i]) /\ ~IsContext(style, children'[t][i])
               /\ Reals(style, children'[t][i]) = Reals(style, t)
    <3>1. /\ t \in Contexts(style, pos)
          /\ children[t][i] \in Nodes /\ Open[children[t][i]] < pos
          /\ Visible(style, children[t][i]) /\ ~IsContext(style, children[t][i])
          /\ Reals(style, children[t][i]) = Reals(style, t)
      BY <1>1, <2>2 DEF Tree
    <3>2. Open[children[t][i]] \in Nat
      BY <3>1, Positions
    <3>3. Open[children[t][i]] < pos'
      BY <1>1, <1>4, <3>1, <3>2
    <3>4. QED
      BY <1>9, <2>2, <3>1, <3>3
  <2>3. CASE ~own /\ t = s
    <3>1. children'[t] = Append(children[t], n)
      BY <1>1, <2>3 DEF TypeInv
    <3>2. /\ Len(children'[t]) = Len(children[t]) + 1 /\ Len(children[t]) \in Nat
          /\ children'[t][Len(children[t]) + 1] = n
          /\ \A j \in 1..Len(children[t]) : children'[t][j] = children[t][j]
      BY <2>1, <3>1
    <3>3. CASE i = Len(children[t]) + 1
      <4>1. children'[t][i] = n
        BY <3>2, <3>3
      <4>2. ~Real(style, n) /\ Reals(style, n) = Reals(style, s)
        BY <1>2, <2>3, RealsTell DEF own, IsContext
      <4>3. Open[n] < pos'
        BY <1>1, <1>4
      <4>4. QED
        BY <1>2, <1>8, <1>9, <2>3, <4>1, <4>2, <4>3 DEF own
    <3>4. CASE i # Len(children[t]) + 1
      <4>1. i \in 1..Len(children[t])
        BY <3>2, <3>4
      <4>2. QED
        BY <2>2, <3>2, <4>1
    <3>5. QED
      BY <3>3, <3>4
  <2>4. CASE ~(~own /\ t = s)
    <3>1. children'[t] = children[t]
      BY <1>1, <1>2, <2>4 DEF TypeInv
    <3>2. QED
      BY <2>2, <3>1
  <2>5. QED
    BY <2>3, <2>4
<1>16. Tree'
  BY <1>1, <1>11, <1>13, <1>14, <1>15 DEF Tree
<1>17. QED
  BY <1>6, <1>7, <1>16 DEF TreeInv

\* Where no context is opened and no list changes the tree stays as it is.
LEMMA SameTree ==
  ASSUME TypeInv, Tree, UNCHANGED <<style, parent, opacity, contexts, children>>,
         pos' \in Nat, pos <= pos', Contexts(style, pos') = Contexts(style, pos)
  PROVE  Tree'
<1>1. pos \in Nat
  BY DEF TypeInv
<1>2. ASSUME NEW x \in Nodes, Open[x] < pos PROVE Open[x] < pos'
  BY <1>1, <1>2, Positions
<1>3. \A n \in Nodes : \A c : UnderContext(style, pos, n, c) => UnderContext(style, pos', n, c)
  BY DEF UnderContext
<1>4. Rises(style, parent)
  BY DEF Tree
<1>5. \A n \in Contexts(style, pos) :
        /\ n \in Nodes
        /\ opacity[n] = Cardinality(Factors(style, n))
        /\ n # Root => UnderContext(style, pos', n, parent[n])
  BY <1>3 DEF Tree, Contexts
<1>6. \A s \in Nodes : \A i \in 1..Len(contexts[s]) :
        /\ contexts[s][i] \in Contexts(style, pos) /\ contexts[s][i] # Root
        /\ parent[contexts[s][i]] = s
  BY DEF Tree
<1>7. \A s \in Nodes : \A i \in 1..Len(children[s]) :
        /\ s \in Contexts(style, pos)
        /\ children[s][i] \in Nodes /\ Open[children[s][i]] < pos'
        /\ Visible(style, children[s][i]) /\ ~IsContext(style, children[s][i])
        /\ Reals(style, children[s][i]) = Reals(style, s)
  BY <1>2 DEF Tree
<1>8. QED
  BY <1>4, <1>5, <1>6, <1>7 DEF Tree

\* What is inside an invisible element is not visible.
LEMMA InvisibleInside ==
  ASSUME NEW st, NEW n \in Nodes, ~st[n].visible, NEW x \in Nodes,
         Open[x] < Close[n] + 1, ~(Open[x] < Open[n])
  PROVE  ~Visible(st, x)
<1>1. /\ Open[x] \in Nat /\ Close[x] \in Nat /\ Open[x] # Close[n]
      /\ Open[n] \in Nat /\ Close[n] \in Nat
  BY Positions, PositionsDiffer
<1>2. x = n \/ (Open[n] < Open[x] /\ Open[x] < Close[n])
  BY <1>1, PositionsDiffer
<1>3. n \in Self(x)
  BY <1>2, Positions DEF Self, Ancestors
<1>4. QED
  BY <1>3 DEF Visible

LEMMA SkipStep ==
  ASSUME TreeInv, NEW n \in Nodes, Skip(n)
  PROVE  TreeInv'
<1>1. /\ TypeInv /\ PathInv /\ Tree /\ Parsing /\ pos = Open[n] /\ ~style[n].visible
      /\ pos' = Close[n] + 1
      /\ UNCHANGED <<style, path, parent, opacity, contexts, children>>
  BY DEF TreeInv, Skip
<1>2. /\ n # Root /\ pos \in Nat /\ 2 <= pos /\ End \in Nat /\ pos < End /\ Close[n] < End
      /\ Close[n] \in Nat /\ Open[n] < Close[n]
  BY <1>1, AtOpening, RootIsAround, Positions DEF TypeInv, Parsing
<1>3. pos' \in Nat /\ 2 <= pos' /\ pos <= pos' /\ pos' <= End
  BY <1>1, <1>2
<1>4. Around(pos') = Around(pos)
  BY <1>1, AroundChanges
<1>5. ASSUME NEW x \in Nodes, Open[x] < pos', ~(Open[x] < pos)
      PROVE  ~Visible(style, x)
  BY <1>1, <1>5, InvisibleInside
<1>6. ASSUME NEW x \in Nodes, Open[x] < pos PROVE Open[x] < pos'
  <2>1. Open[x] \in Nat
    BY Positions
  <2>2. QED
    BY <1>2, <1>3, <1>6, <2>1
<1>7. Contexts(style, pos') = Contexts(style, pos)
  BY <1>5, <1>6 DEF Contexts
<1>8. Tree'
  BY <1>1, <1>3, <1>7, SameTree
<1>9. TypeInv'
  <2>1. pos' <= End + 1
    BY <1>2, <1>3
  <2>2. QED
    BY <1>1, <1>3, <2>1 DEF TypeInv
<1>10. PathInv'
  <2>1. pos <= End
    BY <1>2
  <2>2. PICK e \in Seq(Nodes) : PathOf(e)
    BY <1>1, <2>1 DEF PathInv
  <2>3. PathOf(e)'
    BY <1>1, <1>4, <1>7, <2>2 DEF PathOf
  <2>4. \A m \in Around(pos') : style'[m].visible
    BY <1>1, <1>4, <2>1 DEF PathInv
  <2>5. QED
    BY <2>3, <2>4 DEF PathInv
<1>11. QED
  BY <1>8, <1>9, <1>10 DEF TreeInv

\* The call that returns is the one for the innermost element.
LEMMA LeaveStep ==
  ASSUME TreeInv, NEW n \in Nodes, n # Root, Leave(n)
  PROVE  TreeInv'
<1>1. /\ TypeInv /\ PathInv /\ Tree /\ Parsing /\ pos = Close[n] /\ pos' = pos + 1
      /\ path' = Front(path)
      /\ UNCHANGED <<style, parent, opacity, contexts, children>>
  BY DEF TreeInv, Leave
<1>2. pos \in Nat /\ 2 <= pos /\ End \in Nat /\ pos < End
  BY <1>1, RootIsAround DEF TypeInv, Parsing
<1>3. pos' \in Nat /\ 2 <= pos' /\ pos <= pos' /\ pos' <= End
  BY <1>1, <1>2
<1>4. Around(pos') = Around(pos) \ {n} /\ n \in Around(pos)
  BY <1>1, AroundChanges
<1>5. ASSUME NEW x \in Nodes PROVE Open[x] < pos' <=> Open[x] < pos
  <2>1. Open[x] \in Nat /\ Open[x] # Close[n]
    BY Positions, PositionsDiffer
  <2>2. QED
    BY <1>1, <1>2, <2>1
<1>6. Contexts(style, pos') = Contexts(style, pos)
  BY <1>5 DEF Contexts
<1>7. Tree'
  BY <1>1, <1>3, <1>6, SameTree
<1>8. PICK e \in Seq(Nodes) : PathOf(e)
  BY <1>1, <1>2 DEF PathInv
<1>9. Len(e) \in Nat /\ Len(e) # 0
  BY <1>4, <1>8 DEF PathOf
<1>10. e[Len(e)] = n
  <2>1. PICK i \in 1..Len(e) : n = e[i]
    BY <1>4, <1>8 DEF PathOf
  <2>2. Len(e) \in 1..Len(e)
    BY <1>9
  <2>3. e[Len(e)] \in Around(pos)
    BY <1>8, <2>2 DEF PathOf
  <2>4. i < Len(e) => Open[n] < Open[e[Len(e)]]
    BY <1>8, <2>1, <2>2 DEF PathOf
  <2>5. e[Len(e)] = n \/ e[Len(e)] \in Ancestors(n)
    BY <1>1, <2>3, AncestorsAre
  <2>6. e[Len(e)] \in Ancestors(n) => ~(Open[n] < Open[e[Len(e)]])
    BY Positions DEF Ancestors
  <2>7. i < Len(e) \/ i = Len(e)
    BY <1>9, <2>1
  <2>8. QED
    BY <2>1, <2>4, <2>5, <2>6, <2>7
<1>11. path \in Seq(Nodes) /\ Len(path) = Len(e)
  BY <1>1, <1>8 DEF TypeInv, PathOf
<1> DEFINE f == Front(e)
<1>12. /\ f \in Seq(Nodes) /\ Len(f) = Len(e) - 1
       /\ \A i \in 1..Len(f) : i \in 1..Len(e) /\ i # Len(e) /\ f[i] = e[i]
  <2>1. /\ f \in Seq(Nodes) /\ Len(f) = Len(e) - 1
        /\ \A i \in 1..(Len(e) - 1) : f[i] = e[i]
    BY <1>9, FrontIs
  <2> HIDE DEF f
  <2>2. QED
    BY <1>9, <2>1
<1>13. /\ path' \in Seq(Nodes) /\ Len(path') = Len(e) - 1
       /\ \A i \in 1..Len(f) : path'[i] = path[i]
  <2>1. path # <<>>
    BY <1>9, <1>11
  <2>2. /\ Front(path) \in Seq(Nodes) /\ Len(Front(path)) = Len(path) - 1
        /\ \A i \in 1..(Len(path) - 1) : Front(path)[i] = path[i]
    BY <1>11, <2>1, FrontIs
  <2>3. QED
    BY <1>1, <1>11, <1>12, <2>2
<1> HIDE DEF f
<1>14. PathOf(f)'
  <2>1. Len(f) = Len(path')
    BY <1>12, <1>13
  <2>2. ASSUME NEW i \in 1..Len(f) PROVE f[i] \in Around(pos')
    <3>1. i \in 1..Len(e) /\ f[i] = e[i] /\ i < Len(e)
      BY <1>9, <1>12
    <3>2. e[i] \in Around(pos)
      BY <1>8, <3>1 DEF PathOf
    <3>3. Open[e[i]] < Open[n]
      <4>1. Len(e) \in 1..Len(e)
        BY <1>9
      <4>2. QED
        BY <1>8, <1>10, <3>1, <4>1 DEF PathOf
    <3>4. e[i] # n
      BY <3>3, Positions
    <3>5. QED
      BY <1>4, <3>1, <3>2, <3>4
  <2>3. ASSUME NEW m \in Around(pos') PROVE \E i \in 1..Len(f) : m = f[i]
    <3>1. m \in Around(pos) /\ m # n
      BY <1>4, <2>3
    <3>2. PICK i \in 1..Len(e) : m = e[i]
      BY <1>8, <3>1 DEF PathOf
    <3>3. i \in 1..Len(f)
      BY <1>9, <1>10, <1>12, <3>1, <3>2
    <3>4. QED
      BY <1>12, <3>2, <3>3
  <2>4. \A i, j \in 1..Len(f) : i < j => Open[f[i]] < Open[f[j]]
    BY <1>8, <1>12 DEF PathOf
  <2>5. ASSUME NEW i \in 1..Len(f)
        PROVE  path'[i] \in Contexts(style', pos') /\ Reals(style', path'[i]) = Reals(style', f[i])
    <3>1. i \in 1..Len(e) /\ f[i] = e[i] /\ path'[i] = path[i]
      BY <1>12, <1>13
    <3>2. path[i] \in Contexts(style, pos) /\ Reals(style, path[i]) = Reals(style, e[i])
      BY <1>8, <3>1 DEF PathOf
    <3>3. QED
      BY <1>1, <1>6, <3>1, <3>2
  <2>6. QED
    BY <2>1, <2>2, <2>3, <2>4, <2>5 DEF PathOf
<1>15. PathInv'
  <2>1. \A m \in Around(pos') : style'[m].visible
    BY <1>1, <1>2, <1>4 DEF PathInv
  <2>2. QED
    BY <1>12, <1>14, <2>1 DEF PathInv
<1>16. TypeInv'
  <2>1. pos' <= End + 1
    BY <1>2, <1>3
  <2>2. QED
    BY <1>1, <1>3, <1>13, <2>1 DEF TypeInv
<1>17. QED
  BY <1>7, <1>15, <1>16 DEF TreeInv

\* Once the tree is made the renderer does not change it.
LEMMA RenderStep ==
  ASSUME TreeInv,
         Begin \/ renderStack \/ Restore \/ renderNodePart \/ renderNode \/ UNCHANGED vars
  PROVE  TreeInv'
<1>1. TypeInv /\ PathInv /\ Tree
  BY DEF TreeInv
<1>2. CASE Begin
  <2>1. /\ pos = End /\ pos' = End + 1 /\ End \in Nat /\ 2 <= pos
        /\ UNCHANGED <<style, path, parent, opacity, contexts, children>>
    BY <1>1, <1>2, RootIsAround DEF Begin, TypeInv
  <2>2. pos' \in Nat /\ 2 <= pos' /\ pos <= pos' /\ pos' <= End + 1 /\ ~(pos' <= End)
    BY <2>1
  <2>3. ASSUME NEW x \in Nodes PROVE Open[x] < pos' <=> Open[x] < pos
    BY <2>1, Positions, RootIsAround
  <2>4. Contexts(style, pos') = Contexts(style, pos)
    BY <2>3 DEF Contexts
  <2>5. QED
    BY <1>1, <2>1, <2>2, <2>4, SameTree DEF TreeInv, TypeInv, PathInv
<1>3. CASE renderStack \/ Restore \/ renderNodePart \/ renderNode \/ UNCHANGED vars
  <2>1. UNCHANGED <<style, pos, path, parent, opacity, contexts, children>>
    BY <1>3 DEF renderStack, Restore, renderNodePart, renderNode, vars, parseVars
  <2>2. Contexts(style, pos') = Contexts(style, pos)
    BY <2>1
  <2>3. pos' \in Nat /\ pos <= pos'
    BY <1>1, <2>1 DEF TypeInv
  <2>4. Tree'
    BY <1>1, <2>1, <2>2, <2>3, SameTree
  <2>5. QED
    BY <1>1, <2>1, <2>4 DEF TreeInv, TypeInv, PathInv, PathOf
<1>4. QED
  BY <1>2, <1>3

LEMMA TreeStep == TreeInv /\ [Next]_vars => TreeInv'
<1> SUFFICES ASSUME TreeInv, [Next]_vars PROVE TreeInv'
  OBVIOUS
<1>1. ASSUME NEW n \in Nodes, Enter(n) PROVE TreeInv'
  BY <1>1, EnterStep
<1>2. ASSUME NEW n \in Nodes, Skip(n) PROVE TreeInv'
  BY <1>2, SkipStep
<1>3. ASSUME NEW n \in Nodes, n # Root, Leave(n) PROVE TreeInv'
  BY <1>3, LeaveStep
<1>4. CASE Begin \/ renderStack \/ Restore \/ renderNodePart \/ renderNode \/ UNCHANGED vars
  BY <1>4, RenderStep
<1>5. QED
  BY <1>1, <1>2, <1>3, <1>4 DEF Next

\* The parser's tree (NodeParser.parse, newStackingContext): after every call an element
\* and the context whose list it is in have the same real stacking contexts around them, and
\* a context has as many opacity factors as there are translucent elements around it.
THEOREM TreeIsRight == Spec => []TreeInv
<1>1. QED
  BY InitTree, TreeStep, PTL DEF Spec

-----------------------------------------------------------------------------
(***************************************************************************)
(* Split.                                                                   *)
(***************************************************************************)
\* What comes earlier and what comes later in q are related by P.
Paired(q, P) == \A i, j \in 1..Len(q) : i < j => <<q[i], q[j]>> \in P
Splits(list, group, f) ==
  f = [i \in 0..Len(list) |->
         IF i = 0 THEN <<>>
         ELSE IF list[i] \in group THEN Append(f[i - 1], list[i]) ELSE f[i - 1]]

\* Each prefix is split before the next, so the recursion has a solution.
LEMMA SplitExists ==
  ASSUME NEW list \in Seq(Nodes), NEW group
  PROVE  \E f \in [0..Len(list) -> Seq(Nodes)] : Splits(list, group, f)
<1> DEFINE L == Len(list)
           Holds(f, i) == f[i] = IF i = 0 THEN <<>>
                                 ELSE IF list[i] \in group THEN Append(f[i - 1], list[i])
                                 ELSE f[i - 1]
           Upto(f, m) == \A i \in 0..L : i <= m => Holds(f, i)
           Bad == {m \in 0..L : ~\E f \in [0..L -> Seq(Nodes)] : Upto(f, m)}
<1>1. L \in Nat /\ \A i \in 1..L : list[i] \in Nodes
  OBVIOUS
<1>2. Bad = {}
  <2> SUFFICES ASSUME Bad # {} PROVE FALSE
    OBVIOUS
  <2>1. PICK m \in Bad : \A y \in Bad : m <= y
    <3>1. Bad \in SUBSET Nat
      BY <1>1
    <3> HIDE DEF Bad
    <3>2. QED
      BY <3>1, LeastNumber
  <2>2. m \in 0..L /\ ~\E f \in [0..L -> Seq(Nodes)] : Upto(f, m)
    BY <2>1
  <2> HIDE DEF L
  <2>3. CASE m = 0
    <3> DEFINE f == [i \in 0..L |-> <<>>]
    <3>1. f \in [0..L -> Seq(Nodes)]
      OBVIOUS
    <3>2. Upto(f, 0)
      BY <1>1
    <3>3. QED
      BY <2>2, <2>3, <3>1, <3>2
  <2>4. CASE m # 0
    <3>1. m - 1 \in 0..L /\ ~(m <= m - 1) /\ m \in 1..L
      BY <1>1, <2>2, <2>4
    <3>2. PICK g \in [0..L -> Seq(Nodes)] : Upto(g, m - 1)
      BY <2>1, <3>1
    <3> DEFINE next == IF list[m] \in group THEN Append(g[m - 1], list[m]) ELSE g[m - 1]
               f == [g EXCEPT ![m] = next]
    <3>3. next \in Seq(Nodes)
      <4>1. g[m - 1] \in Seq(Nodes) /\ list[m] \in Nodes
        BY <1>1, <3>1
      <4>2. QED
        BY <4>1
    <3>4. f \in [0..L -> Seq(Nodes)] /\ f[m] = next
      <4> HIDE DEF next
      <4>1. QED
        BY <3>1, <3>3
    <3>5. \A i \in 0..L : i # m => f[i] = g[i]
      OBVIOUS
    <3> HIDE DEF f
    <3>6. ASSUME NEW i \in 0..L, i <= m PROVE Holds(f, i)
      <4>1. CASE i = m
        <5>1. f[m - 1] = g[m - 1]
          BY <1>1, <3>1, <3>5
        <5>2. Holds(f, m)
          <6>1. f[m] = next
            BY <3>4
          <6>2. next = IF list[m] \in group THEN Append(f[m - 1], list[m]) ELSE f[m - 1]
            BY <5>1
          <6> HIDE DEF next
          <6>3. QED
            BY <2>4, <6>1, <6>2
        <5> HIDE DEF Holds
        <5>3. QED
          BY <4>1, <5>2
      <4>2. CASE i # m
        <5>1. i <= m - 1 /\ (i # 0 => i - 1 \in 0..L /\ i - 1 # m)
          BY <1>1, <2>2, <3>6, <4>2
        <5>2. Holds(g, i)
          BY <3>2, <5>1
        <5>3. QED
          BY <3>5, <4>2, <5>1, <5>2
      <4>3. QED
        BY <4>1, <4>2
    <3>7. QED
      BY <2>2, <3>4, <3>6
  <2>5. QED
    BY <2>3, <2>4
<1>3. PICK f \in [0..L -> Seq(Nodes)] : Upto(f, L)
  <2> HIDE DEF L, Upto
  <2>1. L \in 0..L
    BY <1>1
  <2>2. QED
    BY <1>2, <2>1
<1>4. f = [i \in 0..L |-> IF i = 0 THEN <<>>
                          ELSE IF list[i] \in group THEN Append(f[i - 1], list[i])
                          ELSE f[i - 1]]
  BY <1>1, <1>3
<1>5. QED
  BY <1>4 DEF Splits

\* What is split off is what is both in the list and in the group, each as often.
LEMMA SplitIs ==
  ASSUME NEW list \in Seq(Nodes), NEW group
  PROVE  /\ Split(list, group) \in Seq(Nodes)
         /\ \A k \in 1..Len(Split(list, group)) : /\ Split(list, group)[k] \in group
               /\ \E i \in 1..Len(list) : Split(list, group)[k] = list[i]
         /\ \A i \in 1..Len(list) : list[i] \in group =>
               \E k \in 1..Len(Split(list, group)) : Split(list, group)[k] = list[i]
         /\ (\A i, j \in 1..Len(list) : list[i] = list[j] => i = j) =>
               \A i, j \in 1..Len(Split(list, group)) :
                 Split(list, group)[i] = Split(list, group)[j] => i = j
         /\ \A P : Paired(list, P) => Paired(Split(list, group), P)
<1> DEFINE L == Len(list)
           f == CHOOSE g : Splits(list, group, g)
           Within(q, m) == \A k \in 1..Len(q) : /\ q[k] \in group
                              /\ \E i \in 1..m : q[k] = list[i]
           Whole(q, m) == \A i \in 1..m : list[i] \in group => \E k \in 1..Len(q) : q[k] = list[i]
           Once(q, m) == (\A i, j \in 1..m : list[i] = list[j] => i = j) =>
                           \A i, j \in 1..Len(q) : q[i] = q[j] => i = j
           Keeps(q, m) == \A P : (\A i, j \in 1..m : i < j => <<list[i], list[j]>> \in P)
                             => Paired(q, P)
           Good(m) == /\ f[m] \in Seq(Nodes) /\ Within(f[m], m) /\ Whole(f[m], m)
                      /\ Once(f[m], m) /\ Keeps(f[m], m)
           Bad == {m \in 0..L : ~Good(m)}
<1>1. L \in Nat /\ \A i \in 1..L : list[i] \in Nodes
  OBVIOUS
<1>2. Split(list, group) = f[L]
  BY Zenon DEF Split, Splits
<1>3. Splits(list, group, f)
  BY SplitExists
<1> HIDE DEF f
<1>4. /\ f[0] = <<>>
      /\ \A i \in 1..L : f[i] = IF list[i] \in group THEN Append(f[i - 1], list[i]) ELSE f[i - 1]
  <2>1. 0 \in 0..L /\ \A i \in 1..L : i \in 0..L /\ i # 0
    BY <1>1
  <2>2. QED
    BY <1>3, <2>1 DEF Splits
<1> HIDE DEF L, Keeps
<1>5. Bad = {}
  <2> SUFFICES ASSUME Bad # {} PROVE FALSE
    OBVIOUS
  <2>1. PICK m \in Bad : \A y \in Bad : m <= y
    <3>1. Bad \in SUBSET Nat
      BY <1>1
    <3> HIDE DEF Bad
    <3>2. QED
      BY <3>1, LeastNumber
  <2>2. m \in 0..L /\ ~Good(m)
    BY <2>1
  <2>3. m # 0
    <3>1. Len(<<>>) = 0 /\ <<>> \in Seq(Nodes)
      OBVIOUS
    <3>2. Keeps(f[0], 0)
      BY <1>4, <3>1 DEF Keeps, Paired
    <3>3. Good(0)
      BY <1>4, <3>1, <3>2
    <3> HIDE DEF Good
    <3>4. QED
      BY <2>2, <3>3
  <2>4. m - 1 \in 0..L /\ ~(m <= m - 1) /\ m \in 1..L
    BY <1>1, <2>2, <2>3
  <2>5. Good(m - 1)
    BY <2>1, <2>4
  <2> DEFINE p == f[m - 1]
             q == f[m]
  <2>6. /\ p \in Seq(Nodes) /\ Within(p, m - 1) /\ Whole(p, m - 1) /\ Once(p, m - 1)
        /\ Keeps(p, m - 1)
        /\ q = IF list[m] \in group THEN Append(p, list[m]) ELSE p
    BY <1>4, <2>4, <2>5
  <2> HIDE DEF p, q
  <2>7. \A i \in 1..m : i \in 1..(m - 1) \/ i = m
    BY <1>1, <2>4
  <2>8. \A i \in 1..(m - 1) : i \in 1..m /\ i # m
    BY <1>1, <2>4
  <2>9. CASE list[m] \in group
    <3>1. /\ q \in Seq(Nodes) /\ Len(q) = Len(p) + 1 /\ Len(p) \in Nat
          /\ q[Len(p) + 1] = list[m]
          /\ \A k \in 1..Len(p) : q[k] = p[k]
      <4>1. list[m] \in Nodes /\ q = Append(p, list[m])
        BY <1>1, <2>4, <2>6, <2>9
      <4>2. QED
        BY <2>6, <4>1
    <3>2. \A k \in 1..Len(q) : k \in 1..Len(p) \/ k = Len(p) + 1
      BY <3>1
    <3>3. (Len(p) + 1) \in 1..Len(q) /\ \A k \in 1..Len(p) : k \in 1..Len(q)
      BY <3>1
    <3>4. Within(q, m)
      <4> SUFFICES ASSUME NEW k \in 1..Len(q)
                   PROVE  q[k] \in group /\ \E i \in 1..m : q[k] = list[i]
        OBVIOUS
      <4>1. CASE k = Len(p) + 1
        <5>1. m \in 1..m
          BY <2>4
        <5>2. QED
          BY <2>9, <3>1, <4>1, <5>1
      <4>2. CASE k \in 1..Len(p)
        BY <2>6, <2>8, <3>1, <4>2
      <4>3. QED
        BY <3>2, <4>1, <4>2
    <3>5. Whole(q, m)
      <4> SUFFICES ASSUME NEW i \in 1..m, list[i] \in group
                   PROVE  \E k \in 1..Len(q) : q[k] = list[i]
        OBVIOUS
      <4>1. CASE i = m
        BY <3>1, <3>3, <4>1
      <4>2. CASE i \in 1..(m - 1)
        BY <2>6, <3>1, <3>3, <4>2
      <4>3. QED
        BY <2>7, <4>1, <4>2
    <3>6. Once(q, m)
      <4> SUFFICES ASSUME \A i, j \in 1..m : list[i] = list[j] => i = j,
                          NEW i \in 1..Len(q), NEW j \in 1..Len(q), q[i] = q[j]
                   PROVE  i = j
        OBVIOUS
      <4>1. \A a, b \in 1..Len(p) : p[a] = p[b] => a = b
        BY <2>6, <2>8
      <4>2. \A a \in 1..Len(p) : p[a] # list[m]
        <5> SUFFICES ASSUME NEW a \in 1..Len(p), p[a] = list[m] PROVE FALSE
          OBVIOUS
        <5>1. PICK b \in 1..(m - 1) : p[a] = list[b]
          BY <2>6
        <5>2. m \in 1..m
          BY <2>4
        <5>3. QED
          BY <2>8, <5>1, <5>2
      <4>3. QED
        BY <3>1, <3>2, <4>1, <4>2
    <3>7. Keeps(q, m)
      <4> SUFFICES ASSUME NEW P, \A i, j \in 1..m : i < j => <<list[i], list[j]>> \in P,
                          NEW i \in 1..Len(q), NEW j \in 1..Len(q), i < j
                   PROVE  <<q[i], q[j]>> \in P
        BY DEF Keeps, Paired
      <4>1. Paired(p, P)
        BY <2>6, <2>8 DEF Keeps
      <4>2. i \in 1..Len(p)
        BY <3>1
      <4>3. PICK b \in 1..(m - 1) : p[i] = list[b]
        BY <2>6, <4>2
      <4>4. b \in 1..m /\ m \in 1..m /\ b < m
        BY <2>4, <4>3
      <4>5. <<p[i], list[m]>> \in P
        BY <4>3, <4>4
      <4>6. QED
        BY <3>1, <3>2, <4>1, <4>2, <4>5 DEF Paired
    <3>8. QED
      BY <2>2, <3>1, <3>4, <3>5, <3>6, <3>7 DEF q
  <2>10. CASE list[m] \notin group
    <3>1. q = p
      BY <2>6, <2>10
    <3>2. Within(p, m) /\ Whole(p, m)
      BY <2>6, <2>7, <2>8, <2>10
    <3>3. Once(p, m)
      BY <2>6, <2>8
    <3>4. Keeps(p, m)
      BY <2>6, <2>8 DEF Keeps
    <3>5. QED
      BY <2>2, <2>6, <3>1, <3>2, <3>3, <3>4 DEF q
  <2>11. QED
    BY <2>9, <2>10
<1>6. Good(L)
  BY <1>1, <1>5
<1>7. \A P : Paired(list, P) => Paired(f[L], P)
  <2> SUFFICES ASSUME NEW P, Paired(list, P) PROVE Paired(f[L], P)
    OBVIOUS
  <2>1. \A i, j \in 1..L : i < j => <<list[i], list[j]>> \in P
    BY DEF L, Paired
  <2>2. Keeps(f[L], L)
    BY <1>6
  <2>3. QED
    BY <2>1, <2>2 DEF Keeps
<1>8. QED
  BY <1>2, <1>6, <1>7 DEF L

-----------------------------------------------------------------------------
(***************************************************************************)
(* Lists and the calls that renderStackContent makes of them.               *)
(***************************************************************************)
\* q has each member of S once and nothing else.
Lists(q, S) ==
  /\ q \in Seq(S)
  /\ \A x \in S : \E i \in 1..Len(q) : q[i] = x
  /\ \A i, j \in 1..Len(q) : q[i] = q[j] => i = j
On(op, S) == {[op |-> op, node |-> n] : n \in S}

LEMMA SplitLists ==
  ASSUME NEW S \in SUBSET Nodes, NEW list, Lists(list, S), NEW group
  PROVE  Lists(Split(list, group), S \cap group)
<1> DEFINE q == Split(list, group)
<1>1. /\ list \in Seq(Nodes) /\ \A i \in 1..Len(list) : list[i] \in S
      /\ \A x \in S : \E i \in 1..Len(list) : list[i] = x
      /\ \A i, j \in 1..Len(list) : list[i] = list[j] => i = j
  BY DEF Lists
<1>2. /\ q \in Seq(Nodes)
      /\ \A k \in 1..Len(q) : q[k] \in group /\ \E i \in 1..Len(list) : q[k] = list[i]
      /\ \A i \in 1..Len(list) : list[i] \in group => \E k \in 1..Len(q) : q[k] = list[i]
      /\ \A i, j \in 1..Len(q) : q[i] = q[j] => i = j
  BY <1>1, SplitIs
<1> HIDE DEF q
<1>3. \A k \in 1..Len(q) : q[k] \in S \cap group
  BY <1>1, <1>2
<1>4. q \in Seq(S \cap group)
  BY <1>2, <1>3
<1>5. ASSUME NEW x \in S \cap group PROVE \E k \in 1..Len(q) : q[k] = x
  <2>1. PICK i \in 1..Len(list) : list[i] = x
    BY <1>1
  <2>2. QED
    BY <1>2, <2>1
<1>6. Lists(q, S \cap group)
  BY <1>2, <1>4, <1>5 DEF Lists
<1>7. QED
  BY <1>6 DEF q

LEMMA SortedLists ==
  ASSUME NEW S \in SUBSET Nodes, NEW list, Lists(list, S), NEW q \in Sorted(list)
  PROVE  Lists(q, S)
<1>1. ToSet(list) = S
  <2>1. /\ list \in Seq(S) /\ \A i \in 1..Len(list) : list[i] \in S
        /\ \A x \in S : \E i \in 1..Len(list) : list[i] = x
    BY DEF Lists
  <2>2. DOMAIN list = 1..Len(list)
    BY <2>1
  <2>3. QED
    BY <2>1, <2>2 DEF ToSet
<1> DEFINE D == 1..Cardinality(S)
<1>2. q \in [D -> S] /\ \A i, j \in D : i # j => q[i] # q[j]
  BY <1>1 DEF Sorted, SetToSeqs
<1>3. IsFiniteSet(S) /\ Cardinality(S) \in Nat
  BY DocumentAssumption, FS_Subset, FS_CardinalityType
<1>4. Cardinality(D) = Cardinality(S)
  <2>1. Cardinality(1..Cardinality(S)) = IF 1 > Cardinality(S) THEN 0 ELSE Cardinality(S) - 1 + 1
    BY <1>3, FS_Interval
  <2> DEFINE k == Cardinality(S)
  <2>2. k \in Nat /\ Cardinality(1..k) = IF 1 > k THEN 0 ELSE k - 1 + 1
    BY <1>3, <2>1
  <2> HIDE DEF k
  <2>3. Cardinality(1..k) = k
    BY <2>2
  <2>4. QED
    BY <2>3 DEF k
<1>5. q \in Injection(D, S)
  BY <1>2 DEF Injection, IsInjective
<1>6. q \in Surjection(D, S)
  BY <1>3, <1>4, <1>5, FS_Injection
<1>7. q \in Seq(S) /\ 1..Len(q) = D
  BY <1>2, <1>3
<1> HIDE DEF D
<1>8. QED
  BY <1>2, <1>6, <1>7 DEF Lists, Surjection

LEMMA TasksLists ==
  ASSUME NEW S, NEW q, Lists(q, S), NEW op
  PROVE  Lists(Tasks(op, q), On(op, S))
<1> DEFINE t == Tasks(op, q)
<1>1. /\ q \in Seq(S) /\ Len(q) \in Nat /\ DOMAIN q = 1..Len(q)
      /\ \A i \in 1..Len(q) : q[i] \in S
      /\ \A x \in S : \E i \in 1..Len(q) : q[i] = x
      /\ \A i, j \in 1..Len(q) : q[i] = q[j] => i = j
  BY DEF Lists
<1>2. t = [i \in 1..Len(q) |-> [op |-> op, node |-> q[i]]]
  BY <1>1 DEF Tasks
<1>3. \A i \in 1..Len(q) : t[i] = [op |-> op, node |-> q[i]] /\ t[i] \in On(op, S)
  BY <1>1, <1>2 DEF On
<1>4. t \in Seq(On(op, S)) /\ Len(t) = Len(q)
  <2>1. t \in [1..Len(q) -> On(op, S)]
    BY <1>2, <1>3
  <2> HIDE DEF t
  <2>2. QED
    BY <1>1, <2>1
<1> HIDE DEF t
<1>5. ASSUME NEW x \in On(op, S) PROVE \E i \in 1..Len(t) : t[i] = x
  <2>1. PICK n \in S : x = [op |-> op, node |-> n]
    BY DEF On
  <2>2. PICK i \in 1..Len(q) : q[i] = n
    BY <1>1
  <2>3. t[i] = x /\ i \in 1..Len(t)
    BY <1>3, <1>4, <2>1, <2>2
  <2>4. QED
    BY <2>3
<1>6. \A i, j \in 1..Len(t) : t[i] = t[j] => i = j
  <2> SUFFICES ASSUME NEW i \in 1..Len(t), NEW j \in 1..Len(t), t[i] = t[j] PROVE i = j
    OBVIOUS
  <2>1. i \in 1..Len(q) /\ j \in 1..Len(q)
    BY <1>4
  <2>2. t[i] = [op |-> op, node |-> q[i]] /\ t[j] = [op |-> op, node |-> q[j]]
    BY <1>3, <2>1
  <2>3. q[i] = q[j]
    <3>1. [op |-> op, node |-> q[i]] = [op |-> op, node |-> q[j]]
      BY <2>2, Zenon
    <3>2. [op |-> op, node |-> q[i]].node = [op |-> op, node |-> q[j]].node
      BY <3>1, Zenon
    <3>3. QED
      BY <3>2
  <2>4. QED
    BY <1>1, <2>1, <2>3
<1>7. QED
  BY <1>4, <1>5, <1>6 DEF Lists, t

\* Two lists, one after the other.
LEMMA ListsConcat ==
  ASSUME NEW A, NEW B, NEW p, NEW q, NEW P, Lists(p, A), Lists(q, B),
         Paired(p, P), Paired(q, P), A \cap B = {}, A \X B \subseteq P
  PROVE  Lists(p \o q, A \cup B) /\ Paired(p \o q, P)
<1> DEFINE r == p \o q
<1>1. /\ p \in Seq(A) /\ q \in Seq(B) /\ Len(p) \in Nat /\ Len(q) \in Nat
      /\ \A i \in 1..Len(p) : p[i] \in A
      /\ \A i \in 1..Len(q) : q[i] \in B
      /\ \A x \in A : \E i \in 1..Len(p) : p[i] = x
      /\ \A x \in B : \E i \in 1..Len(q) : q[i] = x
      /\ \A i, j \in 1..Len(p) : p[i] = p[j] => i = j
      /\ \A i, j \in 1..Len(q) : q[i] = q[j] => i = j
  BY DEF Lists
<1>2. p \in Seq(A \cup B) /\ q \in Seq(A \cup B)
  <2>1. A \subseteq A \cup B /\ B \subseteq A \cup B
    OBVIOUS
  <2>2. QED
    BY <1>1, <2>1
<1>3. /\ r \in Seq(A \cup B) /\ Len(r) = Len(p) + Len(q)
      /\ \A i \in 1..(Len(p) + Len(q)) : r[i] = IF i <= Len(p) THEN p[i] ELSE q[i - Len(p)]
  BY <1>2, ConcatProperties
<1> HIDE DEF r
<1>4. \A i \in 1..Len(r) : \/ i \in 1..Len(p) /\ r[i] = p[i] /\ i <= Len(p)
                           \/ i - Len(p) \in 1..Len(q) /\ r[i] = q[i - Len(p)] /\ Len(p) < i
  BY <1>1, <1>3
<1>5. /\ \A i \in 1..Len(p) : i \in 1..Len(r) /\ r[i] = p[i]
      /\ \A i \in 1..Len(q) : Len(p) + i \in 1..Len(r) /\ r[Len(p) + i] = q[i]
  <2>1. \A i \in 1..Len(p) : i \in 1..Len(r) /\ r[i] = p[i]
    BY <1>1, <1>3
  <2>2. ASSUME NEW i \in 1..Len(q) PROVE Len(p) + i \in 1..Len(r) /\ r[Len(p) + i] = q[i]
    <3>1. Len(p) + i \in 1..(Len(p) + Len(q)) /\ ~(Len(p) + i <= Len(p)) /\ Len(p) + i - Len(p) = i
      BY <1>1
    <3> DEFINE k == Len(p) + i
    <3>2. k \in 1..(Len(p) + Len(q)) /\ ~(k <= Len(p)) /\ k - Len(p) = i
      BY <3>1
    <3> HIDE DEF k
    <3>3. k \in 1..Len(r) /\ r[k] = q[i]
      BY <1>3, <3>2
    <3>4. QED
      BY <3>3 DEF k
  <2>3. QED
    BY <2>1, <2>2
<1>6. ASSUME NEW x \in A \cup B PROVE \E i \in 1..Len(r) : r[i] = x
  <2>1. CASE x \in A
    <3>1. PICK i \in 1..Len(p) : p[i] = x
      BY <1>1, <2>1
    <3>2. i \in 1..Len(r) /\ r[i] = x
      BY <1>5, <3>1
    <3>3. QED
      BY <3>2
  <2>2. CASE x \in B
    <3>1. PICK i \in 1..Len(q) : q[i] = x
      BY <1>1, <2>2
    <3>2. Len(p) + i \in 1..Len(r) /\ r[Len(p) + i] = x
      BY <1>5, <3>1
    <3>3. QED
      BY <3>2
  <2>3. QED
    BY <2>1, <2>2
<1>7. \A i, j \in 1..Len(r) : r[i] = r[j] => i = j
  <2> SUFFICES ASSUME NEW i \in 1..Len(r), NEW j \in 1..Len(r), r[i] = r[j] PROVE i = j
    OBVIOUS
  <2>1. CASE i \in 1..Len(p) /\ r[i] = p[i]
    <3>1. j \in 1..Len(p) /\ r[j] = p[j]
      BY <1>1, <1>4, <2>1
    <3>2. QED
      BY <1>1, <2>1, <3>1
  <2>2. CASE i - Len(p) \in 1..Len(q) /\ r[i] = q[i - Len(p)]
    <3>1. j - Len(p) \in 1..Len(q) /\ r[j] = q[j - Len(p)]
      BY <1>1, <1>4, <2>2
    <3>2. i - Len(p) = j - Len(p)
      BY <1>1, <2>2, <3>1
    <3>3. i \in Int /\ j \in Int
      OBVIOUS
    <3>4. QED
      BY <1>1, <3>2, <3>3
  <2>3. QED
    BY <1>4, <2>1, <2>2
<1>8. Paired(r, P)
  <2> SUFFICES ASSUME NEW i \in 1..Len(r), NEW j \in 1..Len(r), i < j
               PROVE  <<r[i], r[j]>> \in P
    BY DEF Paired
  <2>1. CASE j \in 1..Len(p) /\ r[j] = p[j] /\ j <= Len(p)
    <3>1. i \in 1..Len(p) /\ r[i] = p[i]
      <4>1. ~(Len(p) < i)
        BY <1>1, <1>3, <2>1
      <4>2. QED
        BY <1>4, <4>1
    <3>2. QED
      BY <2>1, <3>1 DEF Paired
  <2>2. CASE j - Len(p) \in 1..Len(q) /\ r[j] = q[j - Len(p)]
    <3>1. CASE i \in 1..Len(p) /\ r[i] = p[i]
      <4>1. r[i] \in A /\ r[j] \in B
        BY <1>1, <2>2, <3>1
      <4>2. QED
        BY <4>1
    <3>2. CASE i - Len(p) \in 1..Len(q) /\ r[i] = q[i - Len(p)]
      <4>1. i - Len(p) < j - Len(p)
        BY <1>1
      <4>2. QED
        BY <2>2, <3>2, <4>1 DEF Paired
    <3>3. QED
      BY <1>4, <3>1, <3>2
  <2>3. QED
    BY <1>4, <2>1, <2>2
<1>9. QED
  BY <1>3, <1>6, <1>7, <1>8 DEF Lists, r

LEMMA AppendLists ==
  ASSUME NEW S, NEW q, Lists(q, S), NEW x, x \notin S
  PROVE  Lists(Append(q, x), S \cup {x})
<1> DEFINE r == Append(q, x)
<1>1. /\ q \in Seq(S) /\ Len(q) \in Nat /\ \A i \in 1..Len(q) : q[i] \in S
      /\ \A y \in S : \E i \in 1..Len(q) : q[i] = y
      /\ \A i, j \in 1..Len(q) : q[i] = q[j] => i = j
  BY DEF Lists
<1>2. q \in Seq(S \cup {x})
  BY <1>1
<1>3. /\ r \in Seq(S \cup {x}) /\ Len(r) = Len(q) + 1 /\ r[Len(q) + 1] = x
      /\ \A i \in 1..Len(q) : r[i] = q[i]
  BY <1>1, <1>2
<1> HIDE DEF r
<1>4. /\ \A i \in 1..Len(r) : i \in 1..Len(q) \/ i = Len(q) + 1
      /\ \A i \in 1..Len(q) : i \in 1..Len(r)
      /\ Len(q) + 1 \in 1..Len(r)
  BY <1>1, <1>3
<1>5. \A y \in S \cup {x} : \E i \in 1..Len(r) : r[i] = y
  BY <1>1, <1>3, <1>4
<1>6. \A i, j \in 1..Len(r) : r[i] = r[j] => i = j
  BY <1>1, <1>3, <1>4
<1>7. QED
  BY <1>3, <1>5, <1>6 DEF Lists, r

-----------------------------------------------------------------------------
(***************************************************************************)
(* Each visible element is in one list, once.                               *)
(***************************************************************************)
Inner(st, p, par, s) == {x \in Contexts(st, p) : x # Root /\ par[x] = s}
OnceInv ==
  /\ \A s \in Nodes : Lists(contexts[s], Inner(style, pos, parent, s))
  /\ \A s, t \in Nodes : \A i \in 1..Len(children[s]), j \in 1..Len(children[t]) :
        children[s][i] = children[t][j] => s = t /\ i = j
  /\ \A n \in Nodes : ~IsContext(style, n) /\ Visible(style, n) /\ Open[n] < pos =>
        \E s \in Nodes : \E i \in 1..Len(children[s]) : children[s][i] = n

LEMMA InitOnce == Init => OnceInv
<1> SUFFICES ASSUME Init PROVE OnceInv
  OBVIOUS
<1>1. \A s \in Nodes : /\ Len(contexts[s]) = 0 /\ Len(children[s]) = 0
                        /\ contexts[s] = <<>>
  BY DEF Init
<1>2. \A n \in Nodes : n # Root => ~(Open[n] < pos)
  BY RootIsAround, Positions DEF Init
<1>3. IsContext(style, Root)
  BY DEF IsContext, Real
<1>4. \A s : Inner(style, pos, parent, s) = {}
  BY <1>2 DEF Inner, Contexts
<1>5. <<>> \in Seq({})
  OBVIOUS
<1>6. \A s \in Nodes : Lists(contexts[s], Inner(style, pos, parent, s))
  <2>1. Lists(<<>>, {})
    BY <1>5 DEF Lists
  <2>2. QED
    BY <1>1, <1>4, <2>1
<1>7. QED
  BY <1>1, <1>2, <1>3, <1>6 DEF OnceInv

LEMMA OnceEnter ==
  ASSUME TreeInv, OnceInv, NEW n \in Nodes, Enter(n)
  PROVE  OnceInv'
<1> DEFINE s == Last(path)
           up == parentStack(n, s)
           own == IsContext(style, n)
<1>1. /\ TypeInv /\ PathInv /\ Tree
      /\ pos = Open[n] /\ Parsing /\ pos' = pos + 1 /\ style' = style /\ style[n].visible
      /\ own =>
           /\ parent' = [parent EXCEPT ![n] = up]
           /\ contexts' = [contexts EXCEPT ![up] = Append(@, n)]
           /\ children' = children
      /\ ~own =>
           /\ children' = [children EXCEPT ![s] = Append(@, n)]
           /\ parent' = parent /\ contexts' = contexts
  BY StyleNames DEF TreeInv, Enter, HasContext
<1>2. /\ n # Root /\ s \in Nodes /\ \A m \in Ancestors(n) : style[m].visible
  BY <1>1, AtOpening DEF Contexts
<1>3. up \in Nodes
  BY <1>1, ParentStackIs
<1>4. pos \in Nat /\ parent \in [Nodes -> Nodes]
  BY <1>1 DEF TypeInv
<1> HIDE DEF up, s, own
<1>5. ASSUME NEW x \in Nodes PROVE Open[x] < pos' <=> Open[x] < pos \/ x = n
  <2>1. Open[x] \in Nat /\ (Open[x] = Open[n] => x = n)
    BY Positions, PositionsDiffer
  <2>2. QED
    BY <1>1, <1>4, <2>1
<1>6. Visible(style, n) /\ ~(Open[n] < pos)
  BY <1>1, <1>2, <1>4 DEF Visible, Self
<1>7. \A x : x \in Contexts(style, pos') <=> x \in Contexts(style, pos) \/ (own /\ x = n)
  BY <1>5, <1>6 DEF Contexts, own
<1>8. n \notin Contexts(style, pos)
  BY <1>2, <1>6 DEF Contexts
<1>9. CASE own
  <2>1. parent'[n] = up /\ \A x \in Nodes : x # n => parent'[x] = parent[x]
    BY <1>1, <1>3, <1>4, <1>9
  <2>2. ASSUME NEW t \in Nodes PROVE Lists(contexts'[t], Inner(style, pos', parent', t))
    <3>1. Lists(contexts[t], Inner(style, pos, parent, t)) /\ contexts[t] \in Seq(Nodes)
      BY <1>1 DEF OnceInv, TypeInv
    <3>2. n \notin Inner(style, pos, parent, t)
      BY <1>8 DEF Inner
    <3>3. CASE t = up
      <4>1. Inner(style, pos', parent', t) = Inner(style, pos, parent, t) \cup {n}
        BY <1>2, <1>7, <1>8, <1>9, <2>1, <3>3 DEF Inner, Contexts
      <4>2. contexts'[t] = Append(contexts[t], n)
        BY <1>1, <1>9, <3>3 DEF TypeInv
      <4>3. QED
        BY <3>1, <3>2, <4>1, <4>2, AppendLists
    <3>4. CASE t # up
      <4>1. Inner(style, pos', parent', t) = Inner(style, pos, parent, t)
        BY <1>2, <1>7, <1>8, <1>9, <2>1, <3>4 DEF Inner, Contexts
      <4>2. contexts'[t] = contexts[t]
        BY <1>1, <1>9, <3>4 DEF TypeInv
      <4>3. QED
        BY <3>1, <4>1, <4>2
    <3>5. QED
      BY <3>3, <3>4
  <2>3. \A x \in Nodes : ~IsContext(style, x) /\ Open[x] < pos' => Open[x] < pos
    BY <1>5, <1>9 DEF own
  <2>4. QED
    BY <1>1, <1>9, <2>2, <2>3 DEF OnceInv
<1>10. CASE ~own
  <2>1. \A t \in Nodes : Lists(contexts'[t], Inner(style, pos', parent', t))
    <3>1. Contexts(style, pos') = Contexts(style, pos)
      BY <1>7, <1>10
    <3>2. \A t : Inner(style, pos', parent', t) = Inner(style, pos, parent, t)
      BY <1>1, <1>10, <3>1 DEF Inner
    <3>3. QED
      BY <1>1, <1>10, <3>2 DEF OnceInv
  <2> DEFINE L == Len(children[s])
  <2>2. /\ L \in Nat /\ Len(children'[s]) = L + 1 /\ children'[s][L + 1] = n
        /\ \A i \in 1..L : children'[s][i] = children[s][i]
        /\ \A t \in Nodes : t # s => children'[t] = children[t]
    <3>1. children[s] \in Seq(Nodes) /\ children \in [Nodes -> Seq(Nodes)]
      BY <1>1, <1>2 DEF TypeInv
    <3>2. children' = [children EXCEPT ![s] = Append(children[s], n)]
      BY <1>1, <1>10
    <3>3. children'[s] = Append(children[s], n)
      BY <1>2, <3>1, <3>2
    <3>4. \A t \in Nodes : t # s => children'[t] = children[t]
      BY <3>1, <3>2
    <3>5. QED
      BY <3>1, <3>3, <3>4
  <2> HIDE DEF L
  <2>3. ASSUME NEW t \in Nodes, NEW i \in 1..Len(children'[t])
        PROVE  \/ t = s /\ i = L + 1 /\ children'[t][i] = n
               \/ /\ i \in 1..Len(children[t]) /\ children'[t][i] = children[t][i]
                  /\ children[t][i] # n
    <3>1. \A k \in 1..Len(children[t]) : children[t][k] # n
      BY <1>1, <1>6 DEF Tree
    <3>2. CASE t = s /\ i = L + 1
      BY <2>2, <3>2
    <3>3. CASE ~(t = s /\ i = L + 1)
      <4>1. i \in 1..Len(children[t]) /\ children'[t][i] = children[t][i]
        BY <2>2, <3>3 DEF L
      <4>2. QED
        BY <3>1, <4>1
    <3>4. QED
      BY <3>2, <3>3
  <2>4. \A t, u \in Nodes : \A i \in 1..Len(children'[t]), j \in 1..Len(children'[u]) :
          children'[t][i] = children'[u][j] => t = u /\ i = j
    <3> SUFFICES ASSUME NEW t \in Nodes, NEW u \in Nodes, NEW i \in 1..Len(children'[t]),
                        NEW j \in 1..Len(children'[u]), children'[t][i] = children'[u][j]
                 PROVE  t = u /\ i = j
      OBVIOUS
    <3>1. \/ t = s /\ i = L + 1 /\ children'[t][i] = n
          \/ /\ i \in 1..Len(children[t]) /\ children'[t][i] = children[t][i]
             /\ children[t][i] # n
      BY <2>3
    <3>2. \/ u = s /\ j = L + 1 /\ children'[u][j] = n
          \/ /\ j \in 1..Len(children[u]) /\ children'[u][j] = children[u][j]
             /\ children[u][j] # n
      BY <2>3
    <3>3. \A a \in 1..Len(children[t]), b \in 1..Len(children[u]) :
            children[t][a] = children[u][b] => t = u /\ a = b
      BY DEF OnceInv
    <3>4. QED
      BY <3>1, <3>2, <3>3
  <2>5. ASSUME NEW x \in Nodes, ~IsContext(style, x), Visible(style, x), Open[x] < pos'
        PROVE  \E t \in Nodes : \E i \in 1..Len(children'[t]) : children'[t][i] = x
    <3>1. CASE x = n
      <4>1. L + 1 \in 1..Len(children'[s])
        BY <2>2
      <4>2. QED
        BY <1>2, <2>2, <3>1, <4>1
    <3>2. CASE x # n
      <4>1. PICK t \in Nodes : \E i \in 1..Len(children[t]) : children[t][i] = x
        BY <1>5, <2>5, <3>2 DEF OnceInv
      <4>2. PICK i \in 1..Len(children[t]) : children[t][i] = x
        BY <4>1
      <4>3. i \in 1..Len(children'[t]) /\ children'[t][i] = children[t][i]
        BY <2>2, <4>2 DEF L
      <4>4. QED
        BY <4>2, <4>3
    <3>3. QED
      BY <3>1, <3>2
  <2>6. QED
    BY <1>1, <2>1, <2>4, <2>5 DEF OnceInv
<1>11. QED
  BY <1>9, <1>10

LEMMA OnceStep == TreeInv /\ OnceInv /\ [Next]_vars => OnceInv'
<1> SUFFICES ASSUME TreeInv, OnceInv, [Next]_vars PROVE OnceInv'
  OBVIOUS
<1>1. TypeInv
  BY DEF TreeInv
<1>2. ASSUME UNCHANGED <<style, parent, contexts, children>>,
             \A x \in Nodes : Visible(style, x) \/ x = Root => (Open[x] < pos' <=> Open[x] < pos)
      PROVE  OnceInv'
  <2>1. Contexts(style, pos') = Contexts(style, pos)
    BY <1>2 DEF Contexts
  <2>2. \A s : Inner(style, pos', parent, s) = Inner(style, pos, parent, s)
    BY <2>1 DEF Inner
  <2>3. QED
    BY <1>2, <2>2 DEF OnceInv
<1>3. ASSUME NEW n \in Nodes, Enter(n) PROVE OnceInv'
  BY <1>3, OnceEnter
<1>4. ASSUME NEW n \in Nodes, Skip(n) PROVE OnceInv'
  <2>1. /\ pos = Open[n] /\ ~style[n].visible /\ pos' = Close[n] + 1
        /\ UNCHANGED <<style, parent, contexts, children>>
    BY <1>4 DEF Skip
  <2>2. ASSUME NEW x \in Nodes, Visible(style, x) PROVE Open[x] < pos' <=> Open[x] < pos
    <3>1. /\ Open[x] \in Nat /\ Open[n] \in Nat /\ Close[n] \in Nat /\ Open[n] < Close[n]
      BY Positions
    <3>2. Open[x] < pos' => Open[x] < pos
      BY <2>1, <2>2, InvisibleInside
    <3>3. QED
      BY <2>1, <3>1, <3>2
  <2>3. Visible(style, Root)
    BY <1>1, RootIsContext
  <2>4. QED
    BY <1>2, <2>1, <2>2, <2>3
<1>5. ASSUME NEW n \in Nodes, Leave(n) PROVE OnceInv'
  <2>1. /\ pos = Close[n] /\ pos' = pos + 1 /\ pos \in Nat
        /\ UNCHANGED <<style, parent, contexts, children>>
    BY <1>1, <1>5 DEF Leave, TypeInv
  <2>2. ASSUME NEW x \in Nodes PROVE Open[x] < pos' <=> Open[x] < pos
    <3>1. Open[x] \in Nat /\ Open[x] # Close[n]
      BY Positions, PositionsDiffer
    <3>2. QED
      BY <2>1, <3>1
  <2>3. QED
    BY <1>2, <2>1, <2>2
<1>6. CASE Begin
  <2>1. /\ pos = End /\ pos' = End + 1 /\ End \in Nat
        /\ UNCHANGED <<style, parent, contexts, children>>
    BY <1>6, RootIsAround DEF Begin
  <2>2. ASSUME NEW x \in Nodes PROVE Open[x] < pos' <=> Open[x] < pos
    BY <2>1, Positions, RootIsAround
  <2>3. QED
    BY <1>2, <2>1, <2>2
<1>7. CASE renderStack \/ Restore \/ renderNodePart \/ renderNode \/ UNCHANGED vars
  <2>1. UNCHANGED <<style, pos, parent, contexts, children>>
    BY <1>7 DEF renderStack, Restore, renderNodePart, renderNode, vars, parseVars
  <2>2. QED
    BY <1>2, <2>1
<1>8. QED
  BY <1>3, <1>4, <1>5, <1>6, <1>7 DEF Next

-----------------------------------------------------------------------------
(***************************************************************************)
(* What renderStackContent plans.                                           *)
(***************************************************************************)
TaskRecords == [op : {"stack", "restore", "background", "content", "node"}, node : Nodes]
Kids(s) == {children[s][i] : i \in 1..Len(children[s])}
Planned(s) == (On("background", {s}) \cup On("content", {s}))
                \cup (On("stack", Inner(style, pos, parent, s)) \cup On("node", Kids(s)))
\* Of a context only the first, fourth and fifth steps of the painting order come
\* before anything that is not a context.
Order == {d \in TaskRecords \X TaskRecords :
            d[1].op = "stack" /\ d[2].op # "stack" =>
              \/ Level(d[1].node) = "negative"
              \/ Level(d[1].node) \in {"float", "inline"} /\ d[2].op = "node"}

LEMMA LevelIs == \A n : Level(n) \in {"negative", "zero", "positive", "float", "inline"}
BY DEF Level

\* A homogeneous part of the plan.
LEMMA PartLists ==
  ASSUME NEW S \in SUBSET Nodes, NEW q, Lists(q, S),
         NEW op \in {"stack", "restore", "background", "content", "node"}
  PROVE  /\ Lists(Tasks(op, q), On(op, S)) /\ Paired(Tasks(op, q), Order)
         /\ \A t \in On(op, S) : t \in TaskRecords /\ t.op = op /\ t.node \in S
<1>1. Lists(Tasks(op, q), On(op, S))
  BY TasksLists
<1>2. \A t \in On(op, S) : t \in TaskRecords /\ t.op = op /\ t.node \in S
  BY DEF On, TaskRecords
<1> DEFINE r == Tasks(op, q)
<1>3. \A i \in 1..Len(r) : r[i] \in On(op, S)
  BY <1>1 DEF Lists
<1> HIDE DEF r
<1>4. ASSUME NEW i \in 1..Len(r), NEW j \in 1..Len(r) PROVE <<r[i], r[j]>> \in Order
  <2>1. r[i] \in TaskRecords /\ r[j] \in TaskRecords /\ r[i].op = r[j].op
    BY <1>2, <1>3
  <2>2. QED
    BY <2>1 DEF Order
<1>5. Paired(r, Order)
  BY <1>4 DEF Paired
<1>6. QED
  BY <1>1, <1>2, <1>5 DEF r

\* The nine parts, each of one step of the painting order.
AtLevel(l) == {n \in Nodes : Level(n) = l}
Flow(b) == {n \in Nodes : style[n].inline = b}
LEMMA PartsAre ==
  ASSUME TreeInv, OnceInv, NEW s \in Nodes,
         NEW negative \in Sorted(splitStackingContexts(s, "negative")),
         NEW positive \in Sorted(splitStackingContexts(s, "positive"))
  PROVE  /\ TypeInv /\ Inner(style, pos, parent, s) \in SUBSET Nodes /\ Kids(s) \in SUBSET Nodes
         /\ Lists(contexts[s], Inner(style, pos, parent, s)) /\ Lists(children[s], Kids(s))
         /\ \A l : Lists(splitStackingContexts(s, l), Inner(style, pos, parent, s) \cap AtLevel(l))
         /\ \A b : Lists(splitDescendants(s, b), Kids(s) \cap Flow(b))
         /\ Lists(negative, Inner(style, pos, parent, s) \cap AtLevel("negative"))
         /\ Lists(positive, Inner(style, pos, parent, s) \cap AtLevel("positive"))
<1> DEFINE I == Inner(style, pos, parent, s)
           K == Kids(s)
<1>1. TypeInv /\ I \in SUBSET Nodes /\ K \in SUBSET Nodes
  <2>1. children[s] \in Seq(Nodes)
    BY DEF TreeInv, TypeInv
  <2>2. QED
    BY <2>1 DEF TreeInv, Inner, Contexts, Kids
<1>2. Lists(contexts[s], I)
  BY DEF OnceInv
<1>3. Lists(children[s], K)
  <2>1. children[s] \in Seq(Nodes) /\ \A i \in 1..Len(children[s]) : children[s][i] \in K
    BY <1>1 DEF TypeInv, Kids
  <2>2. \A i, j \in 1..Len(children[s]) : children[s][i] = children[s][j] => i = j
    BY DEF OnceInv
  <2>3. \A x \in K : \E i \in 1..Len(children[s]) : children[s][i] = x
    BY DEF Kids
  <2> HIDE DEF K
  <2>4. children[s] \in Seq(K)
    BY <2>1
  <2>5. QED
    BY <2>2, <2>3, <2>4 DEF Lists
<1> HIDE DEF I, K
<1>4. ASSUME NEW l PROVE Lists(splitStackingContexts(s, l), I \cap AtLevel(l))
  BY <1>1, <1>2, SplitLists DEF splitStackingContexts, AtLevel
<1>5. ASSUME NEW b PROVE Lists(splitDescendants(s, b), K \cap Flow(b))
  BY <1>1, <1>3, SplitLists DEF splitDescendants, Flow
<1>6. Lists(negative, I \cap AtLevel("negative")) /\ Lists(positive, I \cap AtLevel("positive"))
  <2>1. I \cap AtLevel("negative") \in SUBSET Nodes /\ I \cap AtLevel("positive") \in SUBSET Nodes
    BY <1>1
  <2>2. QED
    BY <1>4, <2>1, SortedLists
<1>7. QED
  BY <1>1, <1>2, <1>3, <1>4, <1>5, <1>6 DEF I, K

\* The part a call of the plan is in.
Turn(t) ==
  IF t.op = "background" THEN 1
  ELSE IF t.op = "content" THEN 3
  ELSE IF t.op = "node" THEN IF style[t.node].inline THEN 7 ELSE 4
  ELSE IF Level(t.node) = "negative" THEN 2
  ELSE IF Level(t.node) = "float" THEN 5
  ELSE IF Level(t.node) = "inline" THEN 6
  ELSE IF Level(t.node) = "zero" THEN 8
  ELSE 9

\* The plan is its parts in turn: what holds of what is in different parts and of what is
\* in the same part holds of the plan.
LEMMA PlanInTurn ==
  ASSUME TreeInv, OnceInv, NEW s \in Nodes, NEW P,
         NEW negative \in Sorted(splitStackingContexts(s, "negative")),
         NEW positive \in Sorted(splitStackingContexts(s, "positive")),
         \A t, u \in Planned(s) : Turn(t) < Turn(u) => <<t, u>> \in P,
         Paired(Tasks("stack", negative), P), Paired(Tasks("stack", positive), P),
         \A l \in {"float", "inline", "zero"} : Paired(Tasks("stack", splitStackingContexts(s, l)), P),
         \A b : Paired(Tasks("node", splitDescendants(s, b)), P)
  PROVE  /\ Lists(renderStackContent(s, negative, positive), Planned(s))
         /\ Paired(renderStackContent(s, negative, positive), P)
<1> DEFINE I == Inner(style, pos, parent, s)
           K == Kids(s)
           c1 == Tasks("background", <<s>>)
           c2 == Tasks("stack", negative)
           c3 == Tasks("content", <<s>>)
           c4 == Tasks("node", splitDescendants(s, FALSE))
           c5 == Tasks("stack", splitStackingContexts(s, "float"))
           c6 == Tasks("stack", splitStackingContexts(s, "inline"))
           c7 == Tasks("node", splitDescendants(s, TRUE))
           c8 == Tasks("stack", splitStackingContexts(s, "zero"))
           c9 == Tasks("stack", positive)
           T1 == On("background", {s})
           T2 == On("stack", I \cap AtLevel("negative"))
           T3 == On("content", {s})
           T4 == On("node", K \cap Flow(FALSE))
           T5 == On("stack", I \cap AtLevel("float"))
           T6 == On("stack", I \cap AtLevel("inline"))
           T7 == On("node", K \cap Flow(TRUE))
           T8 == On("stack", I \cap AtLevel("zero"))
           T9 == On("stack", I \cap AtLevel("positive"))
           In(T, k) == T \subseteq Planned(s) /\ \A t \in T : Turn(t) = k
<1>1. TypeInv /\ I \in SUBSET Nodes /\ K \in SUBSET Nodes
  BY PartsAre
<1>2. Lists(<<s>>, {s})
  BY DEF Lists
<1>3. /\ \A l : Lists(splitStackingContexts(s, l), I \cap AtLevel(l))
      /\ \A b : Lists(splitDescendants(s, b), K \cap Flow(b))
      /\ Lists(negative, I \cap AtLevel("negative")) /\ Lists(positive, I \cap AtLevel("positive"))
  BY PartsAre
<1>4. \A op : Paired(Tasks(op, <<s>>), P)
  BY DEF Tasks, Paired
<1>5. On("background", {s}) \subseteq Planned(s) /\ On("content", {s}) \subseteq Planned(s)
  BY DEF Planned
<1>6. ASSUME NEW l PROVE /\ On("stack", I \cap AtLevel(l)) \subseteq Planned(s)
                         /\ \A t \in On("stack", I \cap AtLevel(l)) : t.op = "stack" /\ Level(t.node) = l
  BY DEF Planned, On, AtLevel
<1>7. ASSUME NEW b PROVE /\ On("node", K \cap Flow(b)) \subseteq Planned(s)
                         /\ \A t \in On("node", K \cap Flow(b)) : t.op = "node" /\ style[t.node].inline = b
  BY DEF Planned, On, Flow
<1>8. \A op : \A t \in On(op, {s}) : t.op = op
  BY DEF On
<1>9. /\ In(T1, 1) /\ In(T2, 2) /\ In(T3, 3) /\ In(T4, 4) /\ In(T5, 5)
      /\ In(T6, 6) /\ In(T7, 7) /\ In(T8, 8) /\ In(T9, 9)
  <2>1. In(T1, 1)
    BY <1>5, <1>8 DEF Turn
  <2>2. In(T2, 2)
    BY <1>6 DEF Turn
  <2>3. In(T3, 3)
    BY <1>5, <1>8 DEF Turn
  <2>4. In(T4, 4)
    BY <1>7 DEF Turn
  <2>5. In(T5, 5)
    BY <1>6 DEF Turn
  <2>6. In(T6, 6)
    BY <1>6 DEF Turn
  <2>7. In(T7, 7)
    BY <1>7 DEF Turn
  <2>8. In(T8, 8)
    BY <1>6 DEF Turn
  <2>9. In(T9, 9)
    BY <1>6 DEF Turn
  <2>10. QED
    BY <2>1, <2>2, <2>3, <2>4, <2>5, <2>6, <2>7, <2>8, <2>9
<1>10. /\ Lists(c1, T1) /\ Paired(c1, P) /\ Lists(c2, T2) /\ Paired(c2, P)
       /\ Lists(c3, T3) /\ Paired(c3, P) /\ Lists(c4, T4) /\ Paired(c4, P)
       /\ Lists(c5, T5) /\ Paired(c5, P) /\ Lists(c6, T6) /\ Paired(c6, P)
       /\ Lists(c7, T7) /\ Paired(c7, P) /\ Lists(c8, T8) /\ Paired(c8, P)
       /\ Lists(c9, T9) /\ Paired(c9, P)
  BY <1>2, <1>3, <1>4, TasksLists
<1>11. (((((((T1 \cup T2) \cup T3) \cup T4) \cup T5) \cup T6) \cup T7) \cup T8) \cup T9 = Planned(s)
  <2>1. \A l, m : \A n \in Nodes : n \in AtLevel(l) <=> Level(n) = l
    BY DEF AtLevel
  <2>2. \A b : \A n \in Nodes : n \in Flow(b) <=> style[n].inline = b
    BY DEF Flow
  <2>3. \A n \in Nodes : style[n].inline \in BOOLEAN
    BY <1>1, StylesAssumption DEF TypeInv, StyleRecords
  <2>4. I = (I \cap AtLevel("negative")) \cup (I \cap AtLevel("float")) \cup (I \cap AtLevel("inline"))
              \cup (I \cap AtLevel("zero")) \cup (I \cap AtLevel("positive"))
    BY <1>1, <2>1, LevelIs
  <2>5. K = (K \cap Flow(FALSE)) \cup (K \cap Flow(TRUE))
    BY <1>1, <2>2, <2>3
  <2>6. \A op, A, B : On(op, A \cup B) = On(op, A) \cup On(op, B)
    BY DEF On
  <2>7. On("stack", I) = T2 \cup T5 \cup T6 \cup T8 \cup T9
    <3> DEFINE V == I \cap AtLevel("negative")
               W == I \cap AtLevel("float")
               X == I \cap AtLevel("inline")
               Y == I \cap AtLevel("zero")
               Z == I \cap AtLevel("positive")
    <3>1. I = V \cup W \cup X \cup Y \cup Z
      BY <2>4
    <3> HIDE DEF V, W, X, Y, Z
    <3>2. On("stack", V \cup W \cup X \cup Y \cup Z) =
            On("stack", V) \cup On("stack", W) \cup On("stack", X) \cup On("stack", Y)
              \cup On("stack", Z)
      BY DEF On
    <3>3. QED
      BY <3>1, <3>2 DEF V, W, X, Y, Z
  <2>8. On("node", K) = T4 \cup T7
    <3> DEFINE X == K \cap Flow(FALSE)
               Y == K \cap Flow(TRUE)
    <3>1. K = X \cup Y
      BY <2>5
    <3> HIDE DEF X, Y
    <3>2. On("node", X \cup Y) = On("node", X) \cup On("node", Y)
      BY <2>6
    <3>3. QED
      BY <3>1, <3>2 DEF X, Y
  <2>9. Planned(s) = (T1 \cup T3) \cup (On("stack", I) \cup On("node", K))
    BY DEF Planned, I, K
  <2> HIDE DEF T1, T2, T3, T4, T5, T6, T7, T8, T9
  <2>10. QED
    BY <2>7, <2>8, <2>9
<1>12. renderStackContent(s, negative, positive) =
         (((((((c1 \o c2) \o c3) \o c4) \o c5) \o c6) \o c7) \o c8) \o c9
  BY DEF renderStackContent
<1> HIDE DEF c1, c2, c3, c4, c5, c6, c7, c8, c9, T1, T2, T3, T4, T5, T6, T7, T8, T9
<1> DEFINE Upto(A, k) == A \subseteq Planned(s) /\ \A t \in A : Turn(t) \in 1..k
           Fine(q, A) == Lists(q, A) /\ Paired(q, P)
<1>13. ASSUME NEW k \in 1..8, NEW A, NEW p, Upto(A, k), Fine(p, A),
              NEW T, NEW q, In(T, k + 1), Fine(q, T)
       PROVE  Upto(A \cup T, k + 1) /\ Fine(p \o q, A \cup T)
  <2>1. A \cap T = {}
    BY <1>13
  <2>2. A \X T \subseteq P
    BY <1>13
  <2>3. Fine(p \o q, A \cup T)
    BY <1>13, <2>1, <2>2, ListsConcat
  <2>4. QED
    BY <1>13, <2>3
<1>14. Upto(T1, 1) /\ Fine(c1, T1)
  BY <1>9, <1>10
<1>15. /\ Fine(c2, T2) /\ Fine(c3, T3) /\ Fine(c4, T4) /\ Fine(c5, T5) /\ Fine(c6, T6)
       /\ Fine(c7, T7) /\ Fine(c8, T8) /\ Fine(c9, T9)
       /\ In(T2, 1 + 1) /\ In(T3, 2 + 1) /\ In(T4, 3 + 1) /\ In(T5, 4 + 1) /\ In(T6, 5 + 1)
       /\ In(T7, 6 + 1) /\ In(T8, 7 + 1) /\ In(T9, 8 + 1)
       /\ 1 \in 1..8 /\ 1 + 1 \in 1..8 /\ 2 + 1 \in 1..8 /\ 3 + 1 \in 1..8 /\ 4 + 1 \in 1..8
       /\ 5 + 1 \in 1..8 /\ 6 + 1 \in 1..8 /\ 7 + 1 \in 1..8
  BY <1>9, <1>10
<1> DEFINE A2 == T1 \cup T2
           A3 == A2 \cup T3
           A4 == A3 \cup T4
           A5 == A4 \cup T5
           A6 == A5 \cup T6
           A7 == A6 \cup T7
           A8 == A7 \cup T8
           q2 == c1 \o c2
           q3 == q2 \o c3
           q4 == q3 \o c4
           q5 == q4 \o c5
           q6 == q5 \o c6
           q7 == q6 \o c7
           q8 == q7 \o c8
           q9 == q8 \o c9
<1> HIDE DEF In, Upto, Fine
<1>16. Upto(A2, 1 + 1) /\ Fine(q2, A2)
  BY <1>13, <1>14, <1>15
<1>17. Upto(A3, 2 + 1) /\ Fine(q3, A3)
  <2>1. Upto(A2, 2)
    BY <1>16
  <2> HIDE DEF A2, q2
  <2>2. QED
    BY <1>13, <1>15, <1>16, <2>1
<1>18. Upto(A4, 3 + 1) /\ Fine(q4, A4)
  <2>1. Upto(A3, 3)
    BY <1>17
  <2> HIDE DEF A3, q3
  <2>2. QED
    BY <1>13, <1>15, <1>17, <2>1
<1>19. Upto(A5, 4 + 1) /\ Fine(q5, A5)
  <2>1. Upto(A4, 4)
    BY <1>18
  <2> HIDE DEF A4, q4
  <2>2. QED
    BY <1>13, <1>15, <1>18, <2>1
<1>20. Upto(A6, 5 + 1) /\ Fine(q6, A6)
  <2>1. Upto(A5, 5)
    BY <1>19
  <2> HIDE DEF A5, q5
  <2>2. QED
    BY <1>13, <1>15, <1>19, <2>1
<1>21. Upto(A7, 6 + 1) /\ Fine(q7, A7)
  <2>1. Upto(A6, 6)
    BY <1>20
  <2> HIDE DEF A6, q6
  <2>2. QED
    BY <1>13, <1>15, <1>20, <2>1
<1>22. Upto(A8, 7 + 1) /\ Fine(q8, A8)
  <2>1. Upto(A7, 7)
    BY <1>21
  <2> HIDE DEF A7, q7
  <2>2. QED
    BY <1>13, <1>15, <1>21, <2>1
<1>23. Fine(q9, A8 \cup T9)
  <2>1. Upto(A8, 8)
    BY <1>22
  <2>2. 8 \in 1..8 /\ In(T9, 8 + 1) /\ Fine(c9, T9) /\ Fine(q8, A8)
    BY <1>15, <1>22
  <2> HIDE DEF A8, q8
  <2>3. QED
    BY <1>13, <2>1, <2>2
<1>24. QED
  BY <1>11, <1>12, <1>23 DEF Fine

LEMMA ContentIs ==
  ASSUME TreeInv, OnceInv, NEW s \in Nodes,
         NEW negative \in Sorted(splitStackingContexts(s, "negative")),
         NEW positive \in Sorted(splitStackingContexts(s, "positive"))
  PROVE  /\ Lists(renderStackContent(s, negative, positive), Planned(s))
         /\ Paired(renderStackContent(s, negative, positive), Order)
<1>1. /\ Inner(style, pos, parent, s) \in SUBSET Nodes /\ Kids(s) \in SUBSET Nodes
      /\ \A l : Lists(splitStackingContexts(s, l), Inner(style, pos, parent, s) \cap AtLevel(l))
      /\ \A b : Lists(splitDescendants(s, b), Kids(s) \cap Flow(b))
      /\ Lists(negative, Inner(style, pos, parent, s) \cap AtLevel("negative"))
      /\ Lists(positive, Inner(style, pos, parent, s) \cap AtLevel("positive"))
  BY PartsAre
<1>2. /\ \A l : Inner(style, pos, parent, s) \cap AtLevel(l) \in SUBSET Nodes
      /\ \A b : Kids(s) \cap Flow(b) \in SUBSET Nodes
  BY <1>1
<1>3. ASSUME NEW t \in Planned(s), NEW u \in Planned(s), Turn(t) < Turn(u) PROVE <<t, u>> \in Order
  <2>1. t \in TaskRecords /\ u \in TaskRecords
    BY <1>1 DEF Planned, On, TaskRecords
  <2>2. ASSUME t.op = "stack", u.op # "stack"
        PROVE  \/ Level(t.node) = "negative"
               \/ Level(t.node) \in {"float", "inline"} /\ u.op = "node"
    <3>1. u.op \in {"background", "content", "node"}
      BY <2>2 DEF Planned, On
    <3>2. Turn(u) \in {1, 3, 4, 7} /\ (u.op # "node" => Turn(u) \in {1, 3})
      BY <3>1 DEF Turn
    <3>3. CASE Level(t.node) \in {"float", "inline"}
      <4>1. Turn(t) \in {5, 6}
        BY <2>2, <3>3 DEF Turn
      <4>2. Turn(u) \notin {1, 3}
        BY <1>3, <4>1
      <4>3. QED
        BY <3>2, <3>3, <4>2
    <3>4. CASE Level(t.node) \notin {"negative", "float", "inline"}
      <4>1. Turn(t) \in {8, 9}
        BY <2>2, <3>4 DEF Turn
      <4>2. QED
        BY <1>3, <3>2, <4>1
    <3>5. QED
      BY <3>3, <3>4
  <2>3. QED
    BY <2>1, <2>2 DEF Order
<1>4. /\ Paired(Tasks("stack", negative), Order) /\ Paired(Tasks("stack", positive), Order)
      /\ \A l : Paired(Tasks("stack", splitStackingContexts(s, l)), Order)
      /\ \A b : Paired(Tasks("node", splitDescendants(s, b)), Order)
  BY <1>1, <1>2, PartLists
<1>5. QED
  BY <1>3, <1>4, PlanInTurn

-----------------------------------------------------------------------------
(***************************************************************************)
(* The agenda.                                                              *)
(***************************************************************************)
Restoring(n) == [op |-> "restore", node |-> n]
\* What is restored by the calls of a after the i-th: the transforms it is made under.
RestoresAfter(a, i) ==
  {m \in Nodes : \E j \in 1..Len(a) : i < j /\ a[j] = Restoring(m)}
Placed(st, p, t) ==
  /\ t.op = "node" => ~IsContext(st, t.node) /\ Visible(st, t.node)
  /\ t.op # "node" => t.node \in Contexts(st, p)
  /\ t.op = "restore" => st[t.node].transformed
RenderType ==
  /\ agenda \in Seq(TaskRecords)
  /\ saved \in Seq([alpha : Nat, node : Nodes])
  /\ drawn \in Seq([node : Nodes, part : {"background", "content"}, alpha : Nat,
                    transforms : SUBSET Nodes])
  /\ alpha \in Nat /\ lastOpacity \in Nat \cup {-1}
  /\ pos <= End => agenda = <<>> /\ saved = <<>> /\ drawn = <<>> /\ lastOpacity = -1
  /\ \A i \in 1..Len(agenda) : Placed(style, pos, agenda[i])

LEMMA TailIs ==
  ASSUME NEW a \in Seq(TaskRecords), a # <<>>
  PROVE  /\ Tail(a) \in Seq(TaskRecords) /\ Len(a) \in Nat /\ Len(a) # 0
         /\ Len(Tail(a)) = Len(a) - 1 /\ Head(a) = a[1] /\ 1 \in 1..Len(a)
         /\ \A i \in 1..Len(Tail(a)) : i + 1 \in 1..Len(a) /\ Tail(a)[i] = a[i + 1]
<1>1. /\ Tail(a) \in Seq(TaskRecords) /\ Len(Tail(a)) = Len(a) - 1
      /\ \A i \in 1..Len(Tail(a)) : Tail(a)[i] = a[i + 1]
  BY HeadTailProperties
<1>2. Len(a) \in Nat /\ Len(a) # 0 /\ Head(a) = a[1]
  OBVIOUS
<1>3. QED
  BY <1>1, <1>2

LEMMA RestoresOfTail ==
  ASSUME NEW a \in Seq(TaskRecords), a # <<>>, NEW i \in Nat
  PROVE  RestoresAfter(Tail(a), i) = RestoresAfter(a, i + 1)
<1> DEFINE b == Tail(a)
<1>1. /\ Len(a) \in Nat /\ Len(a) # 0 /\ Len(b) = Len(a) - 1
      /\ \A j \in 1..Len(b) : j + 1 \in 1..Len(a) /\ b[j] = a[j + 1]
  BY TailIs
<1> HIDE DEF b
<1>2. ASSUME NEW m \in Nodes, NEW j \in 1..Len(b), i < j, b[j] = Restoring(m)
      PROVE  \E k \in 1..Len(a) : i + 1 < k /\ a[k] = Restoring(m)
  <2>1. j + 1 \in 1..Len(a) /\ i + 1 < j + 1 /\ a[j + 1] = Restoring(m)
    BY <1>1, <1>2
  <2>2. QED
    BY <2>1
<1>3. ASSUME NEW m \in Nodes, NEW j \in 1..Len(a), i + 1 < j, a[j] = Restoring(m)
      PROVE  \E k \in 1..Len(b) : i < k /\ b[k] = Restoring(m)
  <2>1. j - 1 \in 1..Len(b) /\ i < j - 1 /\ j - 1 + 1 = j
    BY <1>1, <1>3
  <2>2. b[j - 1] = a[j]
    BY <1>1, <2>1
  <2>3. QED
    BY <1>3, <2>1, <2>2
<1>4. QED
  BY <1>2, <1>3 DEF RestoresAfter, b

LEMMA RestoresOfConcat ==
  ASSUME NEW p \in Seq(TaskRecords), NEW q \in Seq(TaskRecords),
         \A j \in 1..Len(p) : p[j].op # "restore"
  PROVE  /\ \A i \in 0..Len(p) : RestoresAfter(p \o q, i) = RestoresAfter(q, 0)
         /\ \A i \in 0..Len(q) : RestoresAfter(p \o q, Len(p) + i) = RestoresAfter(q, i)
<1> DEFINE r == p \o q
<1>1. /\ Len(p) \in Nat /\ Len(q) \in Nat /\ Len(r) = Len(p) + Len(q)
      /\ \A i \in 1..(Len(p) + Len(q)) : r[i] = IF i <= Len(p) THEN p[i] ELSE q[i - Len(p)]
  BY ConcatProperties
<1> HIDE DEF r
<1>2. \A m : Restoring(m).op = "restore"
  BY DEF Restoring
<1>3. \A m : \A j \in 1..Len(r) : r[j] = Restoring(m) =>
        Len(p) < j /\ j - Len(p) \in 1..Len(q) /\ q[j - Len(p)] = Restoring(m)
  BY <1>1, <1>2
<1>4. ASSUME NEW j \in 1..Len(q)
      PROVE  Len(p) + j \in 1..Len(r) /\ r[Len(p) + j] = q[j]
  <2> DEFINE k == Len(p) + j
  <2>1. k \in 1..(Len(p) + Len(q)) /\ ~(k <= Len(p)) /\ k - Len(p) = j
    BY <1>1
  <2> HIDE DEF k
  <2>2. k \in 1..Len(r) /\ r[k] = q[j]
    BY <1>1, <2>1
  <2>3. QED
    BY <2>2 DEF k
<1>5. ASSUME NEW i \in 0..Len(p) PROVE RestoresAfter(r, i) = RestoresAfter(q, 0)
  <2>1. ASSUME NEW m \in Nodes, NEW j \in 1..Len(r), r[j] = Restoring(m)
        PROVE  \E k \in 1..Len(q) : 0 < k /\ q[k] = Restoring(m)
    BY <1>1, <1>3, <2>1
  <2>2. ASSUME NEW m \in Nodes, NEW j \in 1..Len(q), q[j] = Restoring(m)
        PROVE  \E k \in 1..Len(r) : i < k /\ r[k] = Restoring(m)
    <3>1. i < Len(p) + j
      BY <1>1
    <3>2. QED
      BY <1>4, <2>2, <3>1
  <2>3. QED
    BY <2>1, <2>2 DEF RestoresAfter
<1>6. ASSUME NEW i \in 0..Len(q) PROVE RestoresAfter(r, Len(p) + i) = RestoresAfter(q, i)
  <2>1. ASSUME NEW m \in Nodes, NEW j \in 1..Len(r), Len(p) + i < j, r[j] = Restoring(m)
        PROVE  \E k \in 1..Len(q) : i < k /\ q[k] = Restoring(m)
    <3>1. i < j - Len(p)
      BY <1>1, <2>1
    <3>2. QED
      BY <1>3, <2>1, <3>1
  <2>2. ASSUME NEW m \in Nodes, NEW j \in 1..Len(q), i < j, q[j] = Restoring(m)
        PROVE  \E k \in 1..Len(r) : Len(p) + i < k /\ r[k] = Restoring(m)
    <3>1. Len(p) + i < Len(p) + j
      BY <1>1, <2>2
    <3>2. QED
      BY <1>4, <2>2, <3>1
  <2>3. QED
    BY <2>1, <2>2 DEF RestoresAfter
<1>7. QED
  BY <1>5, <1>6 DEF r

\* What rendering the context at the head makes of the agenda: the plan of the context
\* before the rest, and before that the restoring of its transform if it has one.
LEMMA NewAgenda ==
  ASSUME TreeInv, OnceInv, RenderType, renderStack
  PROVE  /\ agenda # <<>> /\ agenda[1].op = "stack"
         /\ LET s == agenda[1].node
                d == IF style[s].transformed THEN 0 ELSE 1
            IN  /\ s \in Contexts(style, pos) /\ s \in Nodes
                /\ alpha' = IF opacity[s] # lastOpacity THEN opacity[s] ELSE alpha
                /\ lastOpacity' = opacity[s]
                /\ saved' = IF style[s].transformed
                              THEN Append(saved, [alpha |-> alpha', node |-> s]) ELSE saved
                /\ drawn' = drawn
                /\ \E C \in Seq(TaskRecords), R \in Seq(TaskRecords) :
                     /\ agenda' = C \o R
                     /\ Lists(C, Planned(s)) /\ Paired(C, Order)
                     /\ \E negative \in Sorted(splitStackingContexts(s, "negative")),
                          positive \in Sorted(splitStackingContexts(s, "positive")) :
                          C = renderStackContent(s, negative, positive)
                     /\ Len(R) = Len(agenda) - d
                     /\ \A i \in 1..Len(R) :
                          R[i] = IF i + d = 1 THEN Restoring(s) ELSE agenda[i + d]
<1> DEFINE s == agenda[1].node
           d == IF style[s].transformed THEN 0 ELSE 1
           T == Tail(agenda)
<1>1. /\ agenda \in Seq(TaskRecords) /\ agenda # <<>> /\ Head(agenda).op = "stack"
      /\ \A i \in 1..Len(agenda) : Placed(style, pos, agenda[i])
  BY DEF RenderType, renderStack, Next1
<1>2. /\ T \in Seq(TaskRecords) /\ Len(agenda) \in Nat /\ Len(agenda) # 0
      /\ Len(T) = Len(agenda) - 1 /\ Head(agenda) = agenda[1] /\ 1 \in 1..Len(agenda)
      /\ \A i \in 1..Len(T) : i + 1 \in 1..Len(agenda) /\ T[i] = agenda[i + 1]
  BY <1>1, TailIs
<1>3. s \in Contexts(style, pos) /\ s \in Nodes
  <2>1. Placed(style, pos, agenda[1]) /\ agenda[1].op = "stack"
    BY <1>1, <1>2
  <2>2. QED
    BY <2>1 DEF Placed, Contexts
<1>4. PICK negative \in Sorted(splitStackingContexts(s, "negative")),
           positive \in Sorted(splitStackingContexts(s, "positive")) :
        /\ SetOpacity(s)
        /\ IF style[s].transformed
             THEN /\ saved' = Append(saved, [alpha |-> alpha', node |-> s])
                  /\ agenda' = renderStackContent(s, negative, positive) \o <<Restoring(s)>> \o T
             ELSE /\ agenda' = renderStackContent(s, negative, positive) \o T
                  /\ saved' = saved
  BY <1>2 DEF renderStack, Rest, Restoring
<1> DEFINE C == renderStackContent(s, negative, positive)
           R == IF style[s].transformed THEN <<Restoring(s)>> \o T ELSE T
<1>5. Lists(C, Planned(s)) /\ Paired(C, Order)
  BY <1>3, ContentIs
<1>6. C \in Seq(TaskRecords)
  <2>1. Planned(s) \subseteq TaskRecords
    <3>1. Inner(style, pos, parent, s) \subseteq Nodes
      BY DEF Inner, Contexts
    <3>2. children[s] \in Seq(Nodes)
      BY <1>3 DEF TreeInv, TypeInv
    <3>3. Kids(s) \subseteq Nodes
      BY <3>2 DEF Kids
    <3>4. QED
      BY <1>3, <3>1, <3>3 DEF Planned, On, TaskRecords
  <2> HIDE DEF C
  <2>2. QED
    BY <1>5, <2>1 DEF Lists
<1>7. Restoring(s) \in TaskRecords /\ <<Restoring(s)>> \in Seq(TaskRecords)
  BY <1>3 DEF Restoring, TaskRecords
<1> HIDE DEF C, T, s
<1>8. /\ R \in Seq(TaskRecords) /\ agenda' = C \o R /\ Len(R) = Len(agenda) - d
      /\ \A i \in 1..Len(R) : R[i] = IF i + d = 1 THEN Restoring(s) ELSE agenda[i + d]
  <2>1. CASE style[s].transformed
    <3>1. R = <<Restoring(s)>> \o T /\ d = 0
      BY <2>1
    <3>2. agenda' = (C \o <<Restoring(s)>>) \o T
      BY <1>4, <2>1 DEF C
    <3>3. agenda' = C \o R
      BY <1>2, <1>6, <1>7, <3>1, <3>2, ConcatAssociative
    <3>4. /\ R \in Seq(TaskRecords) /\ Len(R) = Len(<<Restoring(s)>>) + Len(T)
          /\ \A i \in 1..(Len(<<Restoring(s)>>) + Len(T)) :
               R[i] = IF i <= Len(<<Restoring(s)>>) THEN <<Restoring(s)>>[i]
                      ELSE T[i - Len(<<Restoring(s)>>)]
      BY <1>2, <1>7, <3>1, ConcatProperties
    <3>5. Len(<<Restoring(s)>>) = 1 /\ <<Restoring(s)>>[1] = Restoring(s)
      OBVIOUS
    <3> HIDE DEF R
    <3>6. Len(R) = Len(agenda)
      BY <1>2, <3>4, <3>5
    <3>7. ASSUME NEW i \in 1..Len(R) PROVE R[i] = IF i = 1 THEN Restoring(s) ELSE agenda[i]
      <4>1. CASE i = 1
        BY <1>2, <3>4, <3>5, <3>6, <4>1
      <4>2. CASE i # 1
        <5>1. i - 1 \in 1..Len(T) /\ i - 1 + 1 = i /\ ~(i <= 1)
          BY <1>2, <3>6, <4>2
        <5>2. R[i] = T[i - 1]
          BY <1>2, <3>4, <3>5, <3>6, <5>1
        <5>3. T[i - 1] = agenda[i]
          BY <1>2, <5>1
        <5>4. QED
          BY <4>2, <5>2, <5>3
      <4>3. QED
        BY <4>1, <4>2
    <3>8. Len(agenda) = Len(agenda) - d /\ \A i \in 1..Len(R) : i + d = i
      BY <1>2, <2>1, <3>6
    <3>9. QED
      BY <3>3, <3>4, <3>6, <3>7, <3>8
  <2>2. CASE ~style[s].transformed
    <3>1. R = T /\ d = 1
      BY <2>2
    <3>2. agenda' = C \o R
      BY <1>4, <2>2, <3>1 DEF C
    <3>3. \A i \in 1..Len(R) : i + d # 1
      BY <1>2, <3>1
    <3>4. QED
      BY <1>2, <3>1, <3>2, <3>3
  <2>3. QED
    BY <2>1, <2>2
<1>9. /\ alpha' = IF opacity[s] # lastOpacity THEN opacity[s] ELSE alpha
      /\ lastOpacity' = opacity[s]
      /\ saved' = IF style[s].transformed
                    THEN Append(saved, [alpha |-> alpha', node |-> s]) ELSE saved
      /\ drawn' = drawn
  BY <1>4 DEF SetOpacity, renderStack
<1> HIDE DEF R, d
<1>10. \E CC \in Seq(TaskRecords), RR \in Seq(TaskRecords) :
         /\ agenda' = CC \o RR
         /\ Lists(CC, Planned(s)) /\ Paired(CC, Order)
         /\ \E neg \in Sorted(splitStackingContexts(s, "negative")),
              plus \in Sorted(splitStackingContexts(s, "positive")) :
              CC = renderStackContent(s, neg, plus)
         /\ Len(RR) = Len(agenda) - d
         /\ \A i \in 1..Len(RR) : RR[i] = IF i + d = 1 THEN Restoring(s) ELSE agenda[i + d]
  BY <1>5, <1>6, <1>8 DEF C
<1>11. agenda # <<>> /\ agenda[1].op = "stack"
  BY <1>1, <1>2
<1>12. QED
  BY <1>3, <1>9, <1>10, <1>11 DEF s, d

-----------------------------------------------------------------------------
(***************************************************************************)
(* Transforms: a call is made under those that are still to be restored.    *)
(***************************************************************************)
Under(st, t) == IF t.op \in {"stack", "restore"} THEN TransformsAbove(st, t.node)
                ELSE Transforms(st, t.node)
SavedNodes(v, k) == {v[i].node : i \in 1..k}
TransformInv ==
  /\ \A i \in 1..Len(agenda) : RestoresAfter(agenda, i) = Under(style, agenda[i])
  /\ SavedNodes(saved, Len(saved)) = RestoresAfter(agenda, 0)
  /\ \A k \in 1..Len(saved) : SavedNodes(saved, k - 1) = TransformsAbove(style, saved[k].node)
  /\ \A i \in 1..Len(drawn) : drawn[i].transforms = Transforms(style, drawn[i].node)

\* What a context plans is inside it, and so is under its transforms.
LEMMA PlannedIs ==
  ASSUME TreeInv, NEW s \in Contexts(style, pos), NEW t \in Planned(s)
  PROVE  /\ t \in TaskRecords /\ Placed(style, pos, t) /\ t.op # "restore"
         /\ Under(style, t) = Transforms(style, s)
         /\ t.op # "stack" => Factors(style, t.node) = Factors(style, s)
         /\ t.op = "stack" => /\ t.node \in Inner(style, pos, parent, s)
                              /\ UnderContext(style, pos, t.node, s)
         /\ t.op = "node" => /\ t.node \in Kids(s)
                             /\ Reals(style, t.node) = Reals(style, s)
                             /\ ~IsContext(style, t.node) /\ Visible(style, t.node)
<1>1. TypeInv /\ Tree /\ s \in Nodes
  BY DEF TreeInv, Contexts
<1>2. CASE t \in On("background", {s}) \cup On("content", {s})
  <2>1. t \in TaskRecords /\ t.op \in {"background", "content"} /\ t.node = s
    BY <1>1, <1>2 DEF On, TaskRecords
  <2>2. QED
    BY <2>1 DEF Placed, Under
<1>3. CASE t \in On("stack", Inner(style, pos, parent, s))
  <2>1. t.op = "stack" /\ t.node \in Inner(style, pos, parent, s) /\ t.node \in Nodes
        /\ t \in TaskRecords
    BY <1>3 DEF On, TaskRecords, Inner, Contexts
  <2>2. t.node \in Contexts(style, pos) /\ UnderContext(style, pos, t.node, s)
    BY <1>1, <2>1 DEF Inner, Tree
  <2>3. TransformsAbove(style, t.node) = Transforms(style, s)
    BY <1>1, <2>1, <2>2, RealsTell DEF UnderContext
  <2>4. QED
    BY <2>1, <2>2, <2>3 DEF Placed, Under
<1>4. CASE t \in On("node", Kids(s))
  <2>1. PICK i \in 1..Len(children[s]) : t = [op |-> "node", node |-> children[s][i]]
    BY <1>4 DEF On, Kids
  <2>2. /\ children[s][i] \in Nodes
        /\ Visible(style, children[s][i]) /\ ~IsContext(style, children[s][i])
        /\ Reals(style, children[s][i]) = Reals(style, s)
    BY <1>1 DEF Tree
  <2>3. /\ t.op = "node" /\ t.node \in Nodes /\ t \in TaskRecords /\ t.node \in Kids(s)
        /\ Visible(style, t.node) /\ ~IsContext(style, t.node)
        /\ Reals(style, t.node) = Reals(style, s)
    BY <2>1, <2>2 DEF TaskRecords, Kids
  <2>4. /\ Transforms(style, t.node) = Transforms(style, s)
        /\ Factors(style, t.node) = Factors(style, s)
    BY <1>1, <2>3, RealsTell
  <2>5. QED
    BY <2>3, <2>4 DEF Placed, Under
<1>5. QED
  BY <1>2, <1>3, <1>4 DEF Planned

LEMMA StackTransforms ==
  ASSUME TreeInv, OnceInv, RenderType, TransformInv, renderStack
  PROVE  RenderType' /\ TransformInv'
<1> DEFINE s == agenda[1].node
           d == IF style[s].transformed THEN 0 ELSE 1
<1>1. /\ agenda # <<>> /\ agenda[1].op = "stack" /\ s \in Contexts(style, pos) /\ s \in Nodes
      /\ alpha' = IF opacity[s] # lastOpacity THEN opacity[s] ELSE alpha
      /\ lastOpacity' = opacity[s]
      /\ saved' = IF style[s].transformed
                    THEN Append(saved, [alpha |-> alpha', node |-> s]) ELSE saved
      /\ drawn' = drawn
      /\ \E C \in Seq(TaskRecords), R \in Seq(TaskRecords) :
           /\ agenda' = C \o R
           /\ Lists(C, Planned(s)) /\ Paired(C, Order)
           /\ Len(R) = Len(agenda) - d
           /\ \A i \in 1..Len(R) : R[i] = IF i + d = 1 THEN Restoring(s) ELSE agenda[i + d]
  BY NewAgenda
<1> HIDE DEF s
<1>2. PICK C \in Seq(TaskRecords), R \in Seq(TaskRecords) :
        /\ agenda' = C \o R
        /\ Lists(C, Planned(s)) /\ Paired(C, Order)
        /\ Len(R) = Len(agenda) - d
        /\ \A i \in 1..Len(R) : R[i] = IF i + d = 1 THEN Restoring(s) ELSE agenda[i + d]
  BY <1>1
<1>3. /\ style' = style /\ pos' = pos /\ d \in {0, 1} /\ Len(agenda) \in Nat /\ 1 <= Len(agenda)
      /\ Len(C) \in Nat /\ Len(R) \in Nat /\ agenda \in Seq(TaskRecords)
  <2>1. agenda \in Seq(TaskRecords)
    BY DEF RenderType
  <2>2. Len(agenda) \in Nat /\ 1 <= Len(agenda)
    BY <1>1, <2>1
  <2>3. style' = style /\ pos' = pos
    BY DEF renderStack, parseVars
  <2>4. QED
    BY <2>1, <2>2, <2>3
<1>4. ASSUME NEW i \in 1..Len(C) PROVE C[i] \in Planned(s)
  BY <1>2 DEF Lists
<1>5. /\ \A i \in 0..Len(C) : RestoresAfter(agenda', i) = RestoresAfter(R, 0)
      /\ \A i \in 0..Len(R) : RestoresAfter(agenda', Len(C) + i) = RestoresAfter(R, i)
  <2>1. \A i \in 1..Len(C) : C[i].op # "restore"
    BY <1>1, <1>4, PlannedIs
  <2>2. QED
    BY <1>2, <2>1, RestoresOfConcat
<1>6. ASSUME NEW i \in Nat, 1 <= i + d
      PROVE  RestoresAfter(R, i) = RestoresAfter(agenda, i + d)
  <2>1. ASSUME NEW m \in Nodes, NEW j \in 1..Len(R), i < j, R[j] = Restoring(m)
        PROVE  \E k \in 1..Len(agenda) : i + d < k /\ agenda[k] = Restoring(m)
    <3>1. j + d \in 1..Len(agenda) /\ i + d < j + d /\ j + d # 1
      BY <1>2, <1>3, <1>6, <2>1
    <3>2. agenda[j + d] = Restoring(m)
      BY <1>2, <2>1, <3>1
    <3>3. QED
      BY <3>1, <3>2
  <2>2. ASSUME NEW m \in Nodes, NEW k \in 1..Len(agenda), i + d < k, agenda[k] = Restoring(m)
        PROVE  \E j \in 1..Len(R) : i < j /\ R[j] = Restoring(m)
    <3> DEFINE j == k - d
    <3>1. j \in 1..Len(R) /\ i < j /\ j + d = k /\ k # 1
      BY <1>2, <1>3, <1>6, <2>2
    <3> HIDE DEF j
    <3>2. R[j] = Restoring(m)
      BY <1>2, <2>2, <3>1
    <3>3. QED
      BY <3>1, <3>2
  <2>3. QED
    BY <2>1, <2>2 DEF RestoresAfter
<1>7. RestoresAfter(agenda, 1) = TransformsAbove(style, s) /\ RestoresAfter(agenda, 0) = RestoresAfter(agenda, 1)
  <2>1. 1 \in 1..Len(agenda)
    BY <1>3
  <2>2. RestoresAfter(agenda, 1) = Under(style, agenda[1])
    BY <2>1 DEF TransformInv
  <2>3. \A j \in 1..Len(agenda) : \A m : agenda[j] = Restoring(m) => 1 < j
    BY <1>1, <1>3 DEF Restoring
  <2>4. RestoresAfter(agenda, 0) = RestoresAfter(agenda, 1)
    BY <1>3, <2>3 DEF RestoresAfter
  <2>5. QED
    BY <1>1, <2>2, <2>4 DEF Under, s
<1>8. RestoresAfter(R, 0) = Transforms(style, s)
  <2>1. /\ style[s].transformed => Transforms(style, s) = TransformsAbove(style, s) \cup {s}
        /\ ~style[s].transformed => Transforms(style, s) = TransformsAbove(style, s)
    BY <1>1 DEF Transforms, TransformsAbove, Self
  <2>2. CASE style[s].transformed
    <3>1. d = 0
      BY <2>2
    <3>2. 1 \in 1..Len(R) /\ R[1] = Restoring(s)
      BY <1>2, <1>3, <3>1
    <3>3. RestoresAfter(R, 1) = RestoresAfter(agenda, 1)
      BY <1>6, <3>1
    <3>4. \A m : Restoring(m) = Restoring(s) => m = s
      BY DEF Restoring
    <3>5. RestoresAfter(R, 0) = RestoresAfter(R, 1) \cup {s}
      <4>1. \A j \in 1..Len(R) : 0 < j /\ (1 < j \/ j = 1)
        BY <1>3
      <4>2. QED
        BY <1>1, <3>2, <3>4, <4>1 DEF RestoresAfter
    <3>6. QED
      BY <1>7, <2>1, <2>2, <3>3, <3>5
  <2>3. CASE ~style[s].transformed
    <3>1. d = 1
      BY <2>3
    <3>2. RestoresAfter(R, 0) = RestoresAfter(agenda, 1)
      BY <1>6, <3>1
    <3>3. QED
      BY <1>7, <2>1, <2>3, <3>2
  <2>4. QED
    BY <2>2, <2>3
<1>9. /\ agenda' \in Seq(TaskRecords) /\ Len(agenda') = Len(C) + Len(R)
      /\ \A i \in 1..(Len(C) + Len(R)) :
           agenda'[i] = IF i <= Len(C) THEN C[i] ELSE R[i - Len(C)]
  BY <1>2, ConcatProperties
<1>10. ASSUME NEW i \in 1..Len(R)
       PROVE  /\ Placed(style, pos, R[i])
              /\ RestoresAfter(R, i) = Under(style, R[i])
  <2>1. RestoresAfter(R, i) = RestoresAfter(agenda, i + d)
    BY <1>3, <1>6
  <2>2. CASE i + d = 1
    <3>1. R[i] = Restoring(s) /\ style[s].transformed
      BY <1>2, <1>3, <2>2
    <3>2. R[i].op = "restore" /\ R[i].node = s
      BY <3>1 DEF Restoring
    <3>3. Placed(style, pos, R[i])
      BY <1>1, <3>1, <3>2 DEF Placed
    <3>4. RestoresAfter(R, i) = Under(style, R[i])
      BY <1>1, <1>7, <2>1, <2>2, <3>1, <3>2 DEF Under
    <3>5. QED
      BY <3>3, <3>4
  <2>3. CASE i + d # 1
    <3> HIDE DEF d
    <3>1. R[i] = agenda[i + d] /\ i + d \in 1..Len(agenda)
      <4>1. Len(R) = Len(agenda) - d
        BY <1>2
      <4>2. i + d \in 1..Len(agenda)
        BY <1>3, <4>1
      <4>3. R[i] = agenda[i + d]
        BY <1>2, <2>3, Zenon
      <4>4. QED
        BY <4>2, <4>3
    <3>2. QED
      BY <2>1, <3>1 DEF RenderType, TransformInv
  <2>4. QED
    BY <2>2, <2>3
<1>11. ASSUME NEW i \in 1..Len(agenda')
       PROVE  /\ Placed(style, pos, agenda'[i])
              /\ RestoresAfter(agenda', i) = Under(style, agenda'[i])
  <2>1. CASE i <= Len(C)
    <3>1. i \in 1..Len(C) /\ i \in 0..Len(C) /\ agenda'[i] = C[i]
      BY <1>3, <1>9, <2>1
    <3>2. C[i] \in Planned(s)
      BY <1>4, <3>1
    <3>3. Placed(style, pos, C[i]) /\ Under(style, C[i]) = Transforms(style, s)
      BY <1>1, <3>2, PlannedIs
    <3>4. QED
      BY <1>5, <1>8, <3>1, <3>3
  <2>2. CASE ~(i <= Len(C))
    <3> DEFINE k == i - Len(C)
    <3>1. k \in 1..Len(R) /\ k \in 0..Len(R) /\ i = Len(C) + k /\ agenda'[i] = R[k]
      BY <1>3, <1>9, <2>2
    <3> HIDE DEF k
    <3>2. RestoresAfter(agenda', i) = RestoresAfter(R, k)
      BY <1>5, <3>1
    <3>3. QED
      BY <1>10, <3>1, <3>2
  <2>3. QED
    BY <2>1, <2>2
<1>12. /\ saved \in Seq([alpha : Nat, node : Nodes]) /\ alpha \in Nat
       /\ opacity[s] \in Nat
  BY <1>1 DEF RenderType, TreeInv, TypeInv
<1>13. alpha' \in Nat /\ lastOpacity' \in Nat \cup {-1}
  BY <1>1, <1>12
<1>14. /\ saved' \in Seq([alpha : Nat, node : Nodes])
       /\ SavedNodes(saved', Len(saved')) = RestoresAfter(R, 0)
       /\ \A k \in 1..Len(saved') :
            SavedNodes(saved', k - 1) = TransformsAbove(style, saved'[k].node)
  <2>1. CASE ~style[s].transformed
    <3>1. saved' = saved
      BY <1>1, <2>1
    <3>2. RestoresAfter(R, 0) = RestoresAfter(agenda, 0)
      BY <1>7, <1>8, <2>1 DEF Transforms, TransformsAbove, Self
    <3>3. QED
      BY <1>12, <3>1, <3>2 DEF TransformInv
  <2>2. CASE style[s].transformed
    <3> DEFINE e == [alpha |-> alpha', node |-> s]
               L == Len(saved)
    <3>1. saved' = Append(saved, e) /\ e \in [alpha : Nat, node : Nodes] /\ e.node = s
      BY <1>1, <1>13, <2>2
    <3> HIDE DEF e
    <3>2. /\ saved' \in Seq([alpha : Nat, node : Nodes]) /\ Len(saved') = L + 1 /\ L \in Nat
          /\ saved'[L + 1] = e
          /\ \A i \in 1..L : saved'[i] = saved[i]
      BY <1>12, <3>1
    <3> HIDE DEF L
    <3>3. ASSUME NEW k \in Nat, k <= L PROVE SavedNodes(saved', k) = SavedNodes(saved, k)
      <4>1. \A i \in 1..k : saved'[i] = saved[i]
        BY <3>2, <3>3
      <4>2. QED
        BY <4>1 DEF SavedNodes
    <3>4. SavedNodes(saved, L) = TransformsAbove(style, s)
      BY <1>7 DEF TransformInv, L
    <3>5. SavedNodes(saved', L + 1) = SavedNodes(saved', L) \cup {s}
      <4>1. \A i : i \in 1..(L + 1) <=> i \in 1..L \/ i = L + 1
        BY <3>2
      <4>2. SavedNodes(saved', L + 1) = SavedNodes(saved', L) \cup {saved'[L + 1].node}
        BY <4>1 DEF SavedNodes
      <4>3. QED
        BY <3>1, <3>2, <4>2
    <3>6. SavedNodes(saved', L + 1) = Transforms(style, s)
      <4>1. SavedNodes(saved', L) = SavedNodes(saved, L)
        BY <3>2, <3>3
      <4>2. Transforms(style, s) = TransformsAbove(style, s) \cup {s}
        BY <2>2 DEF Transforms, TransformsAbove, Self
      <4>3. QED
        BY <3>4, <3>5, <4>1, <4>2
    <3>7. ASSUME NEW k \in 1..(L + 1)
          PROVE  SavedNodes(saved', k - 1) = TransformsAbove(style, saved'[k].node)
      <4>1. k - 1 \in Nat /\ k - 1 <= L
        BY <3>2
      <4>2. SavedNodes(saved', k - 1) = SavedNodes(saved, k - 1)
        BY <3>3, <4>1
      <4>3. CASE k = L + 1
        <5>1. k - 1 = L
          BY <3>2, <4>3
        <5>2. QED
          BY <3>1, <3>2, <3>4, <4>2, <4>3, <5>1
      <4>4. CASE k # L + 1
        <5>1. k \in 1..L
          BY <3>2, <4>4
        <5>2. QED
          BY <3>2, <4>2, <5>1 DEF TransformInv, L
      <4>5. QED
        BY <4>3, <4>4
    <3>8. QED
      BY <1>8, <3>2, <3>6, <3>7
  <2>3. QED
    BY <2>1, <2>2
<1>15. RestoresAfter(agenda', 0) = RestoresAfter(R, 0)
  <2>1. 0 \in 0..Len(C)
    BY <1>3
  <2>2. QED
    BY <1>5, <2>1
<1>16. TransformInv'
  BY <1>1, <1>3, <1>11, <1>14, <1>15 DEF TransformInv
<1>17. ~(pos <= End)
  BY <1>1 DEF RenderType
<1>18. RenderType'
  <2>1. drawn' \in Seq([node : Nodes, part : {"background", "content"}, alpha : Nat,
                        transforms : SUBSET Nodes])
    BY <1>1 DEF RenderType
  <2>2. \A i \in 1..Len(agenda') : Placed(style', pos', agenda'[i])
    BY <1>3, <1>11
  <2>3. ~(pos' <= End)
    BY <1>3, <1>17
  <2>4. QED
    BY <1>9, <1>13, <1>14, <2>1, <2>2, <2>3 DEF RenderType
<1>19. QED
  BY <1>16, <1>18

\* A call that makes no others leaves the rest of the agenda.
LEMMA NextCall ==
  ASSUME RenderType, TransformInv, agenda # <<>>, agenda' = Tail(agenda),
         UNCHANGED <<style, pos>>
  PROVE  /\ ~(pos <= End) /\ 1 \in 1..Len(agenda) /\ Len(agenda) \in Nat
         /\ Head(agenda) = agenda[1] /\ agenda[1] \in TaskRecords /\ Placed(style, pos, agenda[1])
         /\ RestoresAfter(agenda, 1) = Under(style, agenda[1])
         /\ agenda' \in Seq(TaskRecords) /\ Len(agenda') = Len(agenda) - 1
         /\ \A i \in 1..Len(agenda') : /\ i + 1 \in 1..Len(agenda) /\ agenda'[i] = agenda[i + 1]
              /\ Placed(style', pos', agenda'[i])
              /\ RestoresAfter(agenda', i) = Under(style', agenda'[i])
         /\ RestoresAfter(agenda', 0) = RestoresAfter(agenda, 1)
<1>1. agenda \in Seq(TaskRecords) /\ ~(pos <= End)
  BY DEF RenderType
<1>2. /\ agenda' \in Seq(TaskRecords) /\ Len(agenda) \in Nat /\ Len(agenda) # 0
      /\ Len(agenda') = Len(agenda) - 1 /\ Head(agenda) = agenda[1] /\ 1 \in 1..Len(agenda)
      /\ \A i \in 1..Len(agenda') : i + 1 \in 1..Len(agenda) /\ agenda'[i] = agenda[i + 1]
  BY <1>1, TailIs
<1>3. \A i \in Nat : RestoresAfter(agenda', i) = RestoresAfter(agenda, i + 1)
  BY <1>1, RestoresOfTail
<1>4. ASSUME NEW i \in 1..Len(agenda')
      PROVE  /\ Placed(style', pos', agenda'[i])
             /\ RestoresAfter(agenda', i) = Under(style', agenda'[i])
  <2>1. i + 1 \in 1..Len(agenda) /\ agenda'[i] = agenda[i + 1] /\ i \in Nat
    BY <1>2
  <2>2. RestoresAfter(agenda', i) = RestoresAfter(agenda, i + 1)
    BY <1>3, <2>1
  <2>3. /\ Placed(style, pos, agenda[i + 1])
        /\ RestoresAfter(agenda, i + 1) = Under(style, agenda[i + 1])
    BY <2>1 DEF RenderType, TransformInv
  <2>4. QED
    BY <2>1, <2>2, <2>3
<1>5. RestoresAfter(agenda', 0) = RestoresAfter(agenda, 1)
  BY <1>3
<1>6. agenda[1] \in TaskRecords /\ Placed(style, pos, agenda[1])
      /\ RestoresAfter(agenda, 1) = Under(style, agenda[1])
  BY <1>1, <1>2 DEF RenderType, TransformInv
<1>7. QED
  BY <1>1, <1>2, <1>4, <1>5, <1>6

\* The transform that is restored is the one that was saved for it.
LEMMA RestoredIsSaved ==
  ASSUME RenderType, TransformInv, Restore
  PROVE  /\ agenda # <<>> /\ agenda[1].op = "restore" /\ agenda[1].node \in Nodes
         /\ Len(saved) \in Nat \ {0} /\ saved[Len(saved)].node = agenda[1].node
         /\ SavedNodes(saved, Len(saved) - 1) = RestoresAfter(agenda', 0)
<1> DEFINE n == agenda[1].node
           L == Len(saved)
<1>1. /\ agenda # <<>> /\ agenda' = Tail(agenda) /\ UNCHANGED <<style, pos>>
      /\ Head(agenda).op = "restore"
  BY DEF Restore, Next1, Rest, parseVars
<1>2. /\ 1 \in 1..Len(agenda) /\ Len(agenda) \in Nat
      /\ Head(agenda) = agenda[1] /\ agenda[1] \in TaskRecords
      /\ RestoresAfter(agenda, 1) = Under(style, agenda[1])
      /\ RestoresAfter(agenda', 0) = RestoresAfter(agenda, 1)
  BY <1>1, NextCall
<1>3. agenda[1].op = "restore" /\ n \in Nodes /\ agenda[1] = Restoring(n)
  BY <1>1, <1>2 DEF TaskRecords, Restoring
<1>4. RestoresAfter(agenda, 1) = TransformsAbove(style, n)
  BY <1>2, <1>3 DEF Under
<1>5. RestoresAfter(agenda, 0) = RestoresAfter(agenda, 1) \cup {n}
  <2>1. \A j \in 1..Len(agenda) : 0 < j /\ (1 < j \/ j = 1)
    BY <1>2
  <2>2. \A m : agenda[1] = Restoring(m) => m = n
    BY <1>3 DEF Restoring
  <2>3. QED
    BY <1>2, <1>3, <2>1, <2>2 DEF RestoresAfter
<1>6. /\ saved \in Seq([alpha : Nat, node : Nodes]) /\ L \in Nat
      /\ SavedNodes(saved, L) = RestoresAfter(agenda, 0)
      /\ \A k \in 1..L : SavedNodes(saved, k - 1) = TransformsAbove(style, saved[k].node)
  BY DEF RenderType, TransformInv
<1> HIDE DEF L, n
<1>7. L # 0
  <2>1. n \in SavedNodes(saved, L)
    BY <1>5, <1>6
  <2>2. PICK k \in 1..L : saved[k].node = n
    BY <2>1 DEF SavedNodes
  <2>3. QED
    BY <1>6, <2>2
<1> DEFINE m == saved[L].node
<1>8. m \in Nodes
  <2> DEFINE Saved == [alpha : Nat, node : Nodes]
  <2>1. saved \in Seq(Saved) /\ L \in 1..Len(saved)
    <3>1. L \in 1..L
      BY <1>6, <1>7
    <3>2. QED
      BY <1>6, <3>1 DEF L
  <2> HIDE DEF Saved
  <2>2. saved[L] \in Saved
    BY <2>1, ElementOfSeq
  <2>3. QED
    BY <2>2 DEF Saved
<1>9. SavedNodes(saved, L - 1) = TransformsAbove(style, m)
  BY <1>6, <1>7
<1>10. SavedNodes(saved, L) = SavedNodes(saved, L - 1) \cup {m}
  <2>1. \A i : i \in 1..L <=> i \in 1..(L - 1) \/ i = L
    BY <1>6, <1>7
  <2>2. QED
    BY <2>1 DEF SavedNodes
<1> HIDE DEF m
<1>11. /\ TransformsAbove(style, m) \subseteq Ancestors(m) /\ m \notin Ancestors(m)
       /\ TransformsAbove(style, n) \subseteq Ancestors(n) /\ n \notin Ancestors(n)
       /\ m \in Ancestors(n) => n \notin Ancestors(m)
  BY <1>3, <1>8, AncestorsAre, Positions DEF TransformsAbove, Ancestors
<1>12. m = n
  BY <1>4, <1>5, <1>6, <1>9, <1>10, <1>11
<1>13. QED
  BY <1>1, <1>2, <1>3, <1>4, <1>6, <1>7, <1>9, <1>12 DEF m, n, L

LEMMA RestoreTransforms ==
  ASSUME RenderType, TransformInv, Restore
  PROVE  RenderType' /\ TransformInv'
<1> DEFINE L == Len(saved)
<1>1. /\ agenda' = Tail(agenda) /\ UNCHANGED <<style, pos, lastOpacity, drawn>>
      /\ alpha' = Last(saved).alpha /\ saved' = Front(saved)
  BY DEF Restore, Rest, parseVars
<1>2. /\ agenda # <<>> /\ L \in Nat \ {0}
      /\ SavedNodes(saved, L - 1) = RestoresAfter(agenda', 0)
  BY RestoredIsSaved
<1>3. /\ ~(pos <= End) /\ agenda' \in Seq(TaskRecords)
      /\ \A i \in 1..Len(agenda') : /\ Placed(style', pos', agenda'[i])
              /\ RestoresAfter(agenda', i) = Under(style', agenda'[i])
  BY <1>1, <1>2, NextCall
<1>4. saved \in Seq([alpha : Nat, node : Nodes]) /\ saved # <<>>
  BY <1>2 DEF RenderType
<1>5. /\ Last(saved) = saved[L]
      /\ saved' \in Seq([alpha : Nat, node : Nodes]) /\ Len(saved') = L - 1
      /\ \A i \in 1..(L - 1) : saved'[i] = saved[i]
  BY <1>1, <1>4, FrontIs
<1>6. alpha' \in Nat
  <2> DEFINE Saved == [alpha : Nat, node : Nodes]
  <2>1. saved \in Seq(Saved) /\ L \in 1..Len(saved)
    BY <1>2, <1>4
  <2> HIDE DEF Saved, L
  <2>2. saved[L] \in Saved
    BY <2>1, ElementOfSeq
  <2>3. saved[L].alpha \in Nat
    BY <2>2 DEF Saved
  <2>4. QED
    BY <1>1, <1>5, <2>3
<1>7. ASSUME NEW k \in Nat, k <= L - 1 PROVE SavedNodes(saved', k) = SavedNodes(saved, k)
  <2>1. \A i \in 1..k : saved'[i] = saved[i]
    BY <1>2, <1>5, <1>7
  <2>2. QED
    BY <2>1 DEF SavedNodes
<1> HIDE DEF L
<1>8. SavedNodes(saved', L - 1) = RestoresAfter(agenda', 0)
  BY <1>2, <1>7
<1>9. ASSUME NEW k \in 1..(L - 1)
      PROVE  SavedNodes(saved', k - 1) = TransformsAbove(style', saved'[k].node)
  <2>1. k - 1 \in Nat /\ k - 1 <= L - 1 /\ k \in 1..L
    BY <1>2
  <2>2. SavedNodes(saved, k - 1) = TransformsAbove(style, saved[k].node)
    BY <2>1 DEF TransformInv, L
  <2>3. QED
    BY <1>1, <1>5, <1>7, <2>1, <2>2
<1>10. \A i \in 1..Len(drawn') : drawn'[i].transforms = Transforms(style', drawn'[i].node)
  BY <1>1 DEF TransformInv
<1>11. TransformInv'
  BY <1>3, <1>5, <1>8, <1>9, <1>10 DEF TransformInv
<1>12. RenderType'
  BY <1>1, <1>3, <1>5, <1>6 DEF RenderType
<1>13. QED
  BY <1>11, <1>12

Drawings == [node : Nodes, part : {"background", "content"}, alpha : Nat, transforms : SUBSET Nodes]

\* What drawing does: one or two parts of an element, with the alpha and under the
\* transforms of the canvas.
LEMMA DrawIs ==
  ASSUME RenderType, TransformInv, renderNodePart \/ renderNode
  PROVE  /\ agenda # <<>> /\ agenda' = Tail(agenda)
         /\ UNCHANGED <<style, pos, parent, children, alpha, lastOpacity, saved>>
         /\ LET t == agenda[1]
                back == [node |-> t.node, part |-> "background", alpha |-> alpha,
                         transforms |-> Transforms(style, t.node)]
                front == [node |-> t.node, part |-> "content", alpha |-> alpha,
                          transforms |-> Transforms(style, t.node)]
            IN  /\ t \in TaskRecords /\ back \in Drawings /\ front \in Drawings
                /\ SavedNodes(saved, Len(saved)) = RestoresAfter(agenda', 0)
                /\ \/ t.op = "background" /\ drawn' = Append(drawn, back)
                   \/ t.op = "content" /\ drawn' = Append(drawn, front)
                   \/ t.op = "node" /\ drawn' = Append(Append(drawn, back), front)
<1> DEFINE t == agenda[1]
<1>1. /\ agenda # <<>> /\ agenda' = Tail(agenda) /\ Head(agenda).op \in {"background", "content", "node"}
      /\ UNCHANGED <<style, pos, parent, children, alpha, lastOpacity, saved>>
  BY DEF renderNodePart, renderNode, Next1, Rest, parseVars
<1>2. /\ 1 \in 1..Len(agenda) /\ Len(agenda) \in Nat
      /\ Head(agenda) = t /\ t \in TaskRecords
      /\ RestoresAfter(agenda, 1) = Under(style, t)
      /\ RestoresAfter(agenda', 0) = RestoresAfter(agenda, 1)
  BY <1>1, NextCall
<1>3. RestoresAfter(agenda, 0) = RestoresAfter(agenda, 1)
  <2>1. \A j \in 1..Len(agenda) : \A m : agenda[j] = Restoring(m) => 1 < j /\ 0 < j
    BY <1>1, <1>2 DEF Restoring
  <2>2. QED
    BY <2>1, <1>2 DEF RestoresAfter
<1>4. SavedNodes(saved, Len(saved)) = Transforms(style, t.node)
  BY <1>1, <1>2, <1>3 DEF TransformInv, Under
<1>5. \A n, part : Drawing(n, part) = [node |-> n, part |-> part, alpha |-> alpha,
                                       transforms |-> Transforms(style, t.node)]
  <2>1. DOMAIN saved = 1..Len(saved)
    BY DEF RenderType
  <2>2. {saved[i].node : i \in DOMAIN saved} = Transforms(style, t.node)
    BY <1>4, <2>1 DEF SavedNodes
  <2>3. QED
    BY <2>2 DEF Drawing
<1>6. \A p : [node |-> t.node, part |-> p, alpha |-> alpha,
              transforms |-> Transforms(style, t.node)] \in Drawings
             <=> p \in {"background", "content"}
  <2>1. t.node \in Nodes /\ alpha \in Nat /\ Transforms(style, t.node) \in SUBSET Nodes
    BY <1>2, SelfFinite DEF TaskRecords, RenderType, Transforms
  <2>2. QED
    BY <2>1 DEF Drawings
<1> DEFINE back == [node |-> t.node, part |-> "background", alpha |-> alpha,
                    transforms |-> Transforms(style, t.node)]
           front == [node |-> t.node, part |-> "content", alpha |-> alpha,
                     transforms |-> Transforms(style, t.node)]
<1>7. \/ t.op = "background" /\ drawn' = Append(drawn, back)
      \/ t.op = "content" /\ drawn' = Append(drawn, front)
      \/ t.op = "node" /\ drawn' = Append(Append(drawn, back), front)
  <2>1. drawn \in Seq(Drawings) /\ back \in Drawings /\ front \in Drawings
    BY <1>6 DEF RenderType, Drawings
  <2>2. CASE renderNodePart
    BY <1>2, <1>5, <2>2 DEF renderNodePart, Next1
  <2>3. CASE renderNode
    <3>1. t.op = "node" /\ drawn' = drawn \o <<back, front>>
      BY <1>2, <1>5, <2>3 DEF renderNode, Next1
    <3> HIDE DEF back, front
    <3>2. drawn \o <<back, front>> = Append(Append(drawn, back), front)
      BY <2>1
    <3>3. QED
      BY <3>1, <3>2
  <2>4. QED
    BY <2>2, <2>3
<1>8. QED
  BY <1>1, <1>2, <1>3, <1>4, <1>6, <1>7 DEF TransformInv

LEMMA DrawTransforms ==
  ASSUME RenderType, TransformInv, renderNodePart \/ renderNode
  PROVE  RenderType' /\ TransformInv'
<1> DEFINE t == agenda[1]
           Own(d) == d.transforms = Transforms(style, d.node)
<1>1. /\ agenda # <<>> /\ agenda' = Tail(agenda)
      /\ UNCHANGED <<style, pos, parent, children, alpha, lastOpacity, saved>>
      /\ SavedNodes(saved, Len(saved)) = RestoresAfter(agenda', 0)
      /\ \E back \in Drawings, front \in Drawings :
           /\ Own(back) /\ Own(front)
           /\ \/ drawn' = Append(drawn, back)
              \/ drawn' = Append(drawn, front)
              \/ drawn' = Append(Append(drawn, back), front)
  BY DrawIs
<1>2. /\ ~(pos <= End) /\ agenda' \in Seq(TaskRecords)
      /\ \A i \in 1..Len(agenda') : /\ Placed(style', pos', agenda'[i])
              /\ RestoresAfter(agenda', i) = Under(style', agenda'[i])
  BY <1>1, NextCall
<1>3. ASSUME NEW q \in Seq(Drawings), NEW e \in Drawings, \A i \in 1..Len(q) : Own(q[i]), Own(e)
      PROVE  /\ Append(q, e) \in Seq(Drawings)
             /\ \A i \in 1..Len(Append(q, e)) : Own(Append(q, e)[i])
  <2> DEFINE r == Append(q, e)
  <2>1. /\ r \in Seq(Drawings) /\ Len(r) = Len(q) + 1 /\ Len(q) \in Nat /\ r[Len(q) + 1] = e
        /\ \A i \in 1..Len(q) : r[i] = q[i]
    OBVIOUS
  <2> HIDE DEF r, Own
  <2>2. \A i \in 1..Len(r) : i \in 1..Len(q) \/ i = Len(q) + 1
    BY <2>1
  <2>3. \A i \in 1..Len(r) : Own(r[i])
    BY <1>3, <2>1, <2>2
  <2>4. QED
    BY <2>1, <2>3 DEF r
<1>4. drawn \in Seq(Drawings) /\ \A i \in 1..Len(drawn) : Own(drawn[i])
  BY DEF RenderType, Drawings, TransformInv
<1>5. drawn' \in Seq(Drawings) /\ \A i \in 1..Len(drawn') : Own(drawn'[i])
  <2> HIDE DEF Own
  <2>1. PICK back \in Drawings, front \in Drawings :
          /\ Own(back) /\ Own(front)
          /\ \/ drawn' = Append(drawn, back)
             \/ drawn' = Append(drawn, front)
             \/ drawn' = Append(Append(drawn, back), front)
    BY <1>1
  <2>2. /\ Append(drawn, back) \in Seq(Drawings)
        /\ \A i \in 1..Len(Append(drawn, back)) : Own(Append(drawn, back)[i])
    BY <1>3, <1>4, <2>1
  <2>3. /\ Append(drawn, front) \in Seq(Drawings)
        /\ \A i \in 1..Len(Append(drawn, front)) : Own(Append(drawn, front)[i])
    BY <1>3, <1>4, <2>1
  <2>4. /\ Append(Append(drawn, back), front) \in Seq(Drawings)
        /\ \A i \in 1..Len(Append(Append(drawn, back), front)) :
             Own(Append(Append(drawn, back), front)[i])
    BY <1>3, <2>1, <2>2
  <2>5. QED
    BY <2>1, <2>2, <2>3, <2>4
<1>6. RenderType'
  <2>1. drawn' \in Seq([node : Nodes, part : {"background", "content"}, alpha : Nat,
                        transforms : SUBSET Nodes])
    BY <1>5 DEF Drawings
  <2>2. QED
    BY <1>1, <1>2, <2>1 DEF RenderType
<1>7. TransformInv'
  BY <1>1, <1>2, <1>5 DEF TransformInv
<1>8. QED
  BY <1>6, <1>7

LEMMA BeginTransforms ==
  ASSUME TreeInv, RenderType, TransformInv, Begin
  PROVE  RenderType' /\ TransformInv'
<1>1. /\ pos = End /\ pos' = End + 1 /\ End \in Nat
      /\ UNCHANGED <<style, parent, children, alpha, lastOpacity, saved, drawn>>
      /\ agenda' = Tasks("stack", <<Root>>)
      /\ agenda = <<>> /\ saved = <<>> /\ drawn = <<>>
  BY RootIsAround DEF Begin, RenderType
<1> DEFINE t == [op |-> "stack", node |-> Root]
<1>2. agenda' = <<t>>
  BY <1>1 DEF Tasks
<1>3. t \in TaskRecords /\ t.op = "stack" /\ t.node = Root
  BY RootIsAround DEF TaskRecords
<1> HIDE DEF t
<1>4. agenda' \in Seq(TaskRecords) /\ Len(agenda') = 1 /\ agenda'[1] = t
  BY <1>2, <1>3
<1>5. \A j \in 1..Len(agenda') : \A m : agenda'[j] # Restoring(m)
  BY <1>3, <1>4 DEF Restoring
<1>6. \A i : RestoresAfter(agenda', i) = {}
  BY <1>5 DEF RestoresAfter
<1>7. Ancestors(Root) = {} /\ Root \in Contexts(style, pos')
  BY RootIsContext DEF TreeInv, Contexts
<1>8. Under(style', t) = {}
  BY <1>3, <1>7 DEF Under, TransformsAbove
<1>9. Placed(style', pos', t)
  BY <1>1, <1>3, <1>7 DEF Placed
<1>10. \A i \in 1..Len(agenda') : agenda'[i] = t
  BY <1>4
<1>11. Len(saved') = 0 /\ Len(drawn') = 0
  BY <1>1
<1>12. SavedNodes(saved', Len(saved')) = {}
  BY <1>11 DEF SavedNodes
<1>13. TransformInv'
  <2>1. \A i \in 1..Len(agenda') : RestoresAfter(agenda', i) = Under(style', agenda'[i])
    BY <1>6, <1>8, <1>10
  <2>2. SavedNodes(saved', Len(saved')) = RestoresAfter(agenda', 0)
    BY <1>6, <1>12
  <2>3. \A k : k \notin 1..Len(saved') /\ k \notin 1..Len(drawn')
    BY <1>11
  <2>4. QED
    BY <2>1, <2>2, <2>3 DEF TransformInv
<1>14. ~(pos' <= End)
  BY <1>1
<1>15. RenderType'
  BY <1>1, <1>4, <1>9, <1>10, <1>14 DEF RenderType
<1>16. QED
  BY <1>13, <1>15

\* While the document is parsed nothing is rendered.
LEMMA ParseTransforms ==
  ASSUME TypeInv, RenderType, TransformInv,
         \/ UNCHANGED vars
         \/ \E n \in Nodes : Enter(n) \/ Skip(n) \/ Leave(n)
  PROVE  RenderType' /\ TransformInv'
<1>1. CASE UNCHANGED vars
  BY <1>1 DEF vars, parseVars, drawVars, RenderType, TransformInv
<1>2. CASE \E n \in Nodes : Enter(n) \/ Skip(n) \/ Leave(n)
  <2>1. Parsing /\ UNCHANGED <<agenda, saved, drawn, alpha, lastOpacity>>
    BY <1>2 DEF Enter, Skip, Leave, drawVars
  <2>2. pos <= End => agenda = <<>> /\ saved = <<>> /\ drawn = <<>> /\ lastOpacity = -1
    BY DEF RenderType
  <2>3. agenda = <<>> /\ saved = <<>> /\ drawn = <<>> /\ lastOpacity = -1
    <3>1. pos < End => pos <= End
      BY RootIsAround DEF TypeInv
    <3>2. QED
      BY <2>1, <2>2, <3>1 DEF Parsing
  <2>4. Len(agenda) = 0 /\ Len(saved) = 0 /\ Len(drawn) = 0
    BY <2>3
  <2>5. SavedNodes(saved, Len(saved)) = RestoresAfter(agenda, 0)
    BY DEF TransformInv
  <2>6. QED
    BY <2>1, <2>3, <2>4, <2>5 DEF RenderType, TransformInv
<1>3. QED
  BY <1>1, <1>2

LEMMA InitTransforms == Init => RenderType /\ TransformInv
<1> SUFFICES ASSUME Init PROVE RenderType /\ TransformInv
  OBVIOUS
<1>1. agenda = <<>> /\ saved = <<>> /\ drawn = <<>> /\ alpha = 0 /\ lastOpacity = -1
  BY DEF Init
<1>2. Len(agenda) = 0 /\ Len(saved) = 0 /\ Len(drawn) = 0
  BY <1>1
<1>3. \A S : <<>> \in Seq(S)
  OBVIOUS
<1>4. \A k : k \notin 1..0
  OBVIOUS
<1>5. RenderType
  BY <1>1, <1>2, <1>3, <1>4 DEF RenderType
<1>6. SavedNodes(saved, Len(saved)) = {} /\ RestoresAfter(agenda, 0) = {}
  BY <1>2, <1>4 DEF SavedNodes, RestoresAfter
<1>7. TransformInv
  BY <1>2, <1>4, <1>6 DEF TransformInv
<1>8. QED
  BY <1>5, <1>7

RenderInv == TreeInv /\ OnceInv /\ RenderType /\ TransformInv

LEMMA RenderInvHolds == Spec => []RenderInv
<1>1. Init => RenderInv
  BY InitTree, InitOnce, InitTransforms DEF RenderInv
<1>2. ASSUME RenderInv, [Next]_vars PROVE RenderInv'
  <2>1. TreeInv' /\ OnceInv'
    BY <1>2, TreeStep, OnceStep DEF RenderInv
  <2>2. CASE UNCHANGED vars \/ \E n \in Nodes : Enter(n) \/ Skip(n) \/ Leave(n)
    BY <1>2, <2>1, <2>2, ParseTransforms DEF RenderInv, TreeInv
  <2>3. CASE Begin
    BY <1>2, <2>1, <2>3, BeginTransforms DEF RenderInv
  <2>4. CASE renderStack
    BY <1>2, <2>1, <2>4, StackTransforms DEF RenderInv
  <2>5. CASE Restore
    BY <1>2, <2>1, <2>5, RestoreTransforms DEF RenderInv
  <2>6. CASE renderNodePart \/ renderNode
    BY <1>2, <2>1, <2>6, DrawTransforms DEF RenderInv
  <2>7. QED
    BY <1>2, <2>2, <2>3, <2>4, <2>5, <2>6 DEF Next
<1>3. QED
  BY <1>1, <1>2, PTL DEF Spec

\* TransformsAreOwn: whatever the document, and however far from its place an element is
\* drawn (Renderer.renderStack, parseStackingContexts), the canvas transforms it is drawn
\* under are those of the elements around it and no other.
THEOREM TransformsOwn == Spec => []TransformsAreOwn
<1>1. RenderInv => TransformsAreOwn
  <2> SUFFICES ASSUME RenderInv, NEW d \in ToSet(drawn)
               PROVE  d.transforms = {m \in Ancestors(d.node) \cup {d.node} : style[m].transformed}
    BY DEF TransformsAreOwn
  <2>1. DOMAIN drawn = 1..Len(drawn)
    BY DEF RenderInv, RenderType
  <2>2. PICK i \in 1..Len(drawn) : d = drawn[i]
    BY <2>1 DEF ToSet
  <2>3. d.transforms = Transforms(style, d.node)
    BY <2>2 DEF RenderInv, TransformInv
  <2>4. QED
    BY <2>3 DEF Transforms, Self
<1>2. QED
  BY <1>1, RenderInvHolds, PTL

-----------------------------------------------------------------------------
(***************************************************************************)
(* Opacity.                                                                 *)
(***************************************************************************)
O(st, n) == Cardinality(Factors(st, n))
\* The documents OpacityIsOwn is about.
Trusted(st) ==
  \A n \in Nodes : st[n].translucent =>
     \A m \in Self(n) :
       /\ st[m].z >= 0 /\ ~st[m].transformed
       /\ st[m].body => \A k \in Nodes : Visible(st, k) => k = Root \/ m \in Self(k)
\* Rendering c leaves the opacity that it found set.
Plain(st, c) == ~Real(st, c) \/ \A n \in Nodes : c \in Self(n) => ~st[n].translucent
OpacityInv ==
  Trusted(style) =>
    /\ lastOpacity \in {alpha, -1}
    /\ \A k \in 1..Len(saved) : saved[k].alpha = O(style, saved[k].node)
    /\ \A j \in 1..Len(agenda) :
         /\ agenda[j].op # "stack"
         /\ \A i \in 1..Len(agenda) : i < j => agenda[i].op # "stack"
         => O(style, agenda[j].node) = alpha
    /\ \A i, j \in 1..Len(agenda) :
         i < j /\ agenda[i].op = "stack" /\ agenda[j].op # "stack" =>
           /\ Plain(style, agenda[i].node)
           /\ O(style, agenda[i].node) = O(style, agenda[j].node)
    /\ \A i \in 1..Len(drawn) : drawn[i].alpha = O(style, drawn[i].node)

\* The contexts that are followed by anything that is not a context.
LEMMA InnerPlain ==
  ASSUME TreeInv, Trusted(style), NEW s \in Contexts(style, pos),
         NEW c \in Inner(style, pos, parent, s), UnderContext(style, pos, c, s)
  PROVE  /\ Plain(style, c) => O(style, c) = O(style, s)
         /\ Level(c) = "negative" => Plain(style, c)
         /\ \A k \in Nodes : /\ Level(c) \in {"float", "inline"} /\ ~IsContext(style, k)
                             /\ Visible(style, k) /\ Reals(style, k) = Reals(style, s)
                             => Plain(style, c)
         /\ style[s].transformed \/ Plain(style, s) => Plain(style, c)
<1>1. /\ s \in Nodes /\ c \in Nodes /\ c # Root /\ RealsAbove(style, c) = Reals(style, s)
      /\ ~Real(style, s) => ~Real(style, c)
  BY DEF Inner, Contexts, UnderContext
<1>2. style[c] \in StyleRecords
  BY <1>1, StylesAssumption DEF TreeInv, TypeInv
<1>3. c \in Self(c) /\ c \notin RealsAbove(style, c)
  BY <1>1, RealsTell DEF Self
<1>4. Plain(style, c) => O(style, c) = O(style, s)
  <2>1. Plain(style, c) => ~style[c].translucent
    BY <1>1, <1>3 DEF Plain, Real
  <2>2. ~style[c].translucent => Factors(style, c) = Factors(style, s)
    BY <1>1, RealsTell
  <2>3. QED
    BY <2>1, <2>2 DEF O
<1>5. Level(c) = "negative" => Plain(style, c)
  <2>1. Level(c) = "negative" => style[c].z < 0
    BY DEF Level
  <2>2. style[c].z \in Int
    BY <1>2 DEF StyleRecords
  <2>3. \A n \in Nodes : c \in Self(n) /\ style[n].translucent => style[c].z >= 0
    BY DEF Trusted
  <2>4. style[c].z < 0 => ~(style[c].z >= 0)
    BY <2>2
  <2>5. QED
    BY <2>1, <2>3, <2>4 DEF Plain
<1>6. ASSUME NEW k \in Nodes, Level(c) \in {"float", "inline"}, ~IsContext(style, k),
             Visible(style, k), Reals(style, k) = Reals(style, s)
      PROVE  Plain(style, c)
  <2> SUFFICES ASSUME Real(style, c), NEW n \in Nodes, c \in Self(n), style[n].translucent
               PROVE  FALSE
    BY DEF Plain
  <2>1. ~(style[c].positioned \/ style[c].translucent \/ style[c].transformed)
    BY <1>6 DEF Level
  <2>2. style[c].body
    BY <1>1, <2>1 DEF Real
  <2>3. k = Root \/ c \in Self(k)
    BY <1>6, <2>2 DEF Trusted
  <2>4. k # Root
    BY <1>6 DEF IsContext, Real
  <2>5. c \in Reals(style, k)
    BY <2>3, <2>4 DEF Reals
  <2>6. QED
    BY <1>1, <1>3, <1>6, <2>5
<1>7. ASSUME style[s].transformed \/ Plain(style, s) PROVE Plain(style, c)
  <2> SUFFICES ASSUME Real(style, c), NEW n \in Nodes, c \in Self(n), style[n].translucent
               PROVE  FALSE
    BY DEF Plain
  <2>1. Real(style, s)
    BY <1>1
  <2>2. s \in Ancestors(c)
    BY <1>1, <2>1 DEF Reals, RealsAbove, Self
  <2>3. s \in Self(n)
    BY <1>1, <2>2, Positions DEF Self, Ancestors
  <2>4. ~style[s].transformed
    BY <2>3 DEF Trusted
  <2>5. QED
    BY <1>7, <2>1, <2>3, <2>4 DEF Plain
<1>8. QED
  BY <1>4, <1>5, <1>6, <1>7

LEMMA StackOpacity ==
  ASSUME RenderInv, OpacityInv, renderStack
  PROVE  OpacityInv'
<1> DEFINE s == agenda[1].node
           d == IF style[s].transformed THEN 0 ELSE 1
<1>1. /\ agenda # <<>> /\ agenda[1].op = "stack" /\ s \in Contexts(style, pos) /\ s \in Nodes
      /\ alpha' = IF opacity[s] # lastOpacity THEN opacity[s] ELSE alpha
      /\ lastOpacity' = opacity[s]
      /\ saved' = IF style[s].transformed
                    THEN Append(saved, [alpha |-> alpha', node |-> s]) ELSE saved
      /\ drawn' = drawn
      /\ \E C \in Seq(TaskRecords), R \in Seq(TaskRecords) :
           /\ agenda' = C \o R
           /\ Lists(C, Planned(s)) /\ Paired(C, Order)
           /\ Len(R) = Len(agenda) - d
           /\ \A i \in 1..Len(R) : R[i] = IF i + d = 1 THEN Restoring(s) ELSE agenda[i + d]
  BY NewAgenda DEF RenderInv
<1> HIDE DEF s
<1>2. PICK C \in Seq(TaskRecords), R \in Seq(TaskRecords) :
        /\ agenda' = C \o R
        /\ Lists(C, Planned(s)) /\ Paired(C, Order)
        /\ Len(R) = Len(agenda) - d
        /\ \A i \in 1..Len(R) : R[i] = IF i + d = 1 THEN Restoring(s) ELSE agenda[i + d]
  BY <1>1
<1>3. /\ style' = style /\ d \in {0, 1} /\ Len(agenda) \in Nat /\ 1 <= Len(agenda)
      /\ Len(C) \in Nat /\ Len(R) \in Nat
  <2>1. agenda \in Seq(TaskRecords)
    BY DEF RenderInv, RenderType
  <2>2. Len(agenda) \in Nat /\ 1 <= Len(agenda)
    BY <1>1, <2>1
  <2>3. style' = style
    BY DEF renderStack
  <2>4. QED
    BY <2>2, <2>3
<1> SUFFICES ASSUME Trusted(style)
             PROVE  /\ lastOpacity' \in {alpha', -1}
                    /\ \A k \in 1..Len(saved') : saved'[k].alpha = O(style, saved'[k].node)
                    /\ \A j \in 1..Len(agenda') : agenda'[j].op # "stack" =>
                          O(style, agenda'[j].node) = alpha'
                    /\ \A i, j \in 1..Len(agenda') :
                         i < j /\ agenda'[i].op = "stack" /\ agenda'[j].op # "stack" =>
                           /\ Plain(style, agenda'[i].node)
                           /\ O(style, agenda'[i].node) = O(style, agenda'[j].node)
                    /\ \A i \in 1..Len(drawn') : drawn'[i].alpha = O(style, drawn'[i].node)
  BY <1>3 DEF OpacityInv
<1>4. /\ lastOpacity \in {alpha, -1}
      /\ \A k \in 1..Len(saved) : saved[k].alpha = O(style, saved[k].node)
      /\ \A i, j \in 1..Len(agenda) :
           i < j /\ agenda[i].op = "stack" /\ agenda[j].op # "stack" =>
             /\ Plain(style, agenda[i].node)
             /\ O(style, agenda[i].node) = O(style, agenda[j].node)
      /\ \A i \in 1..Len(drawn) : drawn[i].alpha = O(style, drawn[i].node)
  BY DEF OpacityInv
<1>5. alpha' = O(style, s) /\ lastOpacity' = alpha'
  <2>1. opacity[s] = O(style, s) /\ opacity[s] \in Nat
    BY <1>1 DEF RenderInv, TreeInv, TypeInv, Tree, O
  <2>2. opacity[s] # -1
    BY <2>1
  <2>3. QED
    BY <1>1, <1>4, <2>1, <2>2
<1>6. \A k \in 1..Len(saved') : saved'[k].alpha = O(style, saved'[k].node)
  <2>1. CASE ~style[s].transformed
    BY <1>1, <1>4, <2>1
  <2>2. CASE style[s].transformed
    <3> DEFINE Saved == [alpha : Nat, node : Nodes]
               e == [alpha |-> alpha', node |-> s]
    <3>1. saved' = Append(saved, e) /\ e.alpha = O(style, s) /\ e.node = s
      BY <1>1, <1>5, <2>2
    <3>2. saved \in Seq(Saved)
      BY DEF RenderInv, RenderType
    <3> HIDE DEF Saved, e
    <3>3. /\ Len(saved') = Len(saved) + 1 /\ Len(saved) \in Nat /\ saved'[Len(saved) + 1] = e
          /\ \A i \in 1..Len(saved) : saved'[i] = saved[i]
      BY <3>1, <3>2
    <3>4. \A k \in 1..Len(saved') : k \in 1..Len(saved) \/ k = Len(saved) + 1
      BY <3>3
    <3>5. QED
      BY <1>4, <3>1, <3>3, <3>4
  <2>3. QED
    BY <2>1, <2>2
<1>7. ASSUME NEW i \in 1..Len(C)
      PROVE  /\ C[i] \in Planned(s) /\ C[i] \in TaskRecords
             /\ C[i].op # "stack" => O(style, C[i].node) = O(style, s)
             /\ C[i].op = "stack" => /\ C[i].node \in Inner(style, pos, parent, s)
                                     /\ UnderContext(style, pos, C[i].node, s)
             /\ C[i].op = "node" => /\ C[i].node \in Nodes /\ ~IsContext(style, C[i].node)
                                    /\ Visible(style, C[i].node)
                                    /\ Reals(style, C[i].node) = Reals(style, s)
  <2>1. C[i] \in Planned(s)
    BY <1>2 DEF Lists
  <2>2. C[i].op = "node" => C[i].node \in Nodes
    BY <1>1, <2>1, PlannedIs DEF RenderInv, TaskRecords
  <2>3. QED
    BY <1>1, <2>1, <2>2, PlannedIs DEF RenderInv, O
<1>8. ASSUME NEW i \in 1..Len(R), R[i].op # "stack"
      PROVE  /\ O(style, R[i].node) = O(style, s)
             /\ style[s].transformed \/ Plain(style, s)
  <2>1. CASE i + d = 1
    <3>1. R[i] = Restoring(s) /\ style[s].transformed
      BY <1>2, <1>3, <2>1
    <3>2. R[i].node = s
      BY <3>1 DEF Restoring
    <3>3. QED
      BY <3>1, <3>2
  <2>2. CASE i + d # 1
    <3>1. R[i] = agenda[i + d] /\ i + d \in 1..Len(agenda) /\ 1 < i + d /\ 1 \in 1..Len(agenda)
      BY <1>2, <1>3, <2>2
    <3>2. Plain(style, agenda[1].node) /\ O(style, agenda[1].node) = O(style, agenda[i + d].node)
      BY <1>1, <1>4, <1>8, <3>1
    <3>3. QED
      BY <3>1, <3>2 DEF s
  <2>3. QED
    BY <2>1, <2>2
<1>9. /\ Len(agenda') = Len(C) + Len(R)
      /\ \A i \in 1..(Len(C) + Len(R)) :
           agenda'[i] = IF i <= Len(C) THEN C[i] ELSE R[i - Len(C)]
  BY <1>2, ConcatProperties
<1>10. \A i \in 1..Len(agenda') :
         \/ i \in 1..Len(C) /\ agenda'[i] = C[i] /\ i <= Len(C)
         \/ i - Len(C) \in 1..Len(R) /\ agenda'[i] = R[i - Len(C)] /\ Len(C) < i
  BY <1>3, <1>9
<1>11. ASSUME NEW j \in 1..Len(agenda'), agenda'[j].op # "stack"
       PROVE  O(style, agenda'[j].node) = alpha'
  <2>1. CASE j \in 1..Len(C) /\ agenda'[j] = C[j]
    BY <1>5, <1>7, <1>11, <2>1
  <2>2. CASE j - Len(C) \in 1..Len(R) /\ agenda'[j] = R[j - Len(C)]
    BY <1>5, <1>8, <1>11, <2>2
  <2>3. QED
    BY <1>10, <2>1, <2>2
<1>12. ASSUME NEW i \in 1..Len(agenda'), NEW j \in 1..Len(agenda'),
              i < j, agenda'[i].op = "stack", agenda'[j].op # "stack"
       PROVE  /\ Plain(style, agenda'[i].node)
              /\ O(style, agenda'[i].node) = O(style, agenda'[j].node)
  <2>1. O(style, agenda'[j].node) = O(style, s)
    BY <1>5, <1>11, <1>12
  <2>2. CASE i \in 1..Len(C) /\ agenda'[i] = C[i] /\ i <= Len(C)
    <3>1. /\ C[i].node \in Inner(style, pos, parent, s) /\ C[i].op = "stack"
          /\ UnderContext(style, pos, C[i].node, s)
      BY <1>7, <1>12, <2>2
    <3>2. Plain(style, C[i].node)
      <4>1. CASE j \in 1..Len(C) /\ agenda'[j] = C[j]
        <5>1. <<C[i], C[j]>> \in Order
          BY <1>2, <1>12, <2>2, <4>1 DEF Paired
        <5>2. \/ Level(C[i].node) = "negative"
              \/ Level(C[i].node) \in {"float", "inline"} /\ C[j].op = "node"
          BY <1>12, <2>2, <4>1, <5>1 DEF Order
        <5>3. CASE Level(C[i].node) = "negative"
          BY <1>1, <3>1, <5>3, InnerPlain DEF RenderInv
        <5>4. CASE Level(C[i].node) \in {"float", "inline"} /\ C[j].op = "node"
          <6>1. /\ C[j].node \in Nodes /\ ~IsContext(style, C[j].node)
                /\ Visible(style, C[j].node) /\ Reals(style, C[j].node) = Reals(style, s)
            BY <1>7, <4>1, <5>4
          <6>2. QED
            BY <1>1, <3>1, <5>4, <6>1, InnerPlain DEF RenderInv
        <5>5. QED
          BY <5>2, <5>3, <5>4
      <4>2. CASE j - Len(C) \in 1..Len(R) /\ agenda'[j] = R[j - Len(C)]
        <5>1. style[s].transformed \/ Plain(style, s)
          BY <1>8, <1>12, <4>2
        <5>2. QED
          BY <1>1, <3>1, <5>1, InnerPlain DEF RenderInv
      <4>3. QED
        BY <1>10, <4>1, <4>2
    <3>3. O(style, C[i].node) = O(style, s)
      BY <1>1, <3>1, <3>2, InnerPlain DEF RenderInv
    <3>4. QED
      BY <2>1, <2>2, <3>2, <3>3
  <2>3. CASE i - Len(C) \in 1..Len(R) /\ agenda'[i] = R[i - Len(C)] /\ Len(C) < i
    <3> DEFINE a == i - Len(C)
               b == j - Len(C)
    <3>1. /\ a \in 1..Len(R) /\ agenda'[i] = R[a]
          /\ b \in 1..Len(R) /\ agenda'[j] = R[b] /\ a < b
      <4>1. Len(C) < j /\ ~(j <= Len(C)) /\ a < b
        BY <1>3, <1>12, <2>3
      <4>2. QED
        BY <1>10, <2>3, <4>1
    <3> HIDE DEF a, b
    <3>2. a + d # 1
      BY <1>2, <1>12, <3>1 DEF Restoring
    <3>3. /\ R[a] = agenda[a + d] /\ a + d \in 1..Len(agenda)
          /\ R[b] = agenda[b + d] /\ b + d \in 1..Len(agenda) /\ a + d < b + d
      <4>1. /\ a + d \in 1..Len(agenda) /\ b + d \in 1..Len(agenda) /\ a + d < b + d /\ b + d # 1
        <5> HIDE DEF d
        <5>1. /\ a \in 1..Len(R) /\ b \in 1..Len(R) /\ a < b /\ a + d # 1
              /\ Len(R) = Len(agenda) - d /\ d \in {0, 1}
              /\ Len(agenda) \in Nat /\ Len(R) \in Nat
          BY <1>2, <1>3, <3>1, <3>2
        <5>2. QED
          BY <5>1
      <4>2. QED
        BY <1>2, <3>1, <3>2, <4>1
    <3>4. QED
      BY <1>4, <1>12, <3>1, <3>3
  <2>4. QED
    BY <1>10, <2>2, <2>3
<1>13. \A i \in 1..Len(drawn') : drawn'[i].alpha = O(style, drawn'[i].node)
  BY <1>1, <1>4
<1>14. QED
  BY <1>5, <1>6, <1>11, <1>12, <1>13

\* The opacity that was saved is the one that is set when it is restored, so that
\* nothing is forgotten.
LEMMA RestOpacity ==
  ASSUME RenderInv, OpacityInv, Restore \/ renderNodePart \/ renderNode
  PROVE  OpacityInv'
<1>1. agenda # <<>> /\ agenda' = Tail(agenda) /\ UNCHANGED <<style, pos, lastOpacity>>
  BY DEF Restore, renderNodePart, renderNode, Next1, Rest, parseVars
<1>2. /\ 1 \in 1..Len(agenda) /\ Len(agenda) \in Nat
      /\ Head(agenda) = agenda[1] /\ agenda[1] \in TaskRecords
      /\ agenda' \in Seq(TaskRecords) /\ Len(agenda') = Len(agenda) - 1
      /\ \A i \in 1..Len(agenda') : i + 1 \in 1..Len(agenda) /\ agenda'[i] = agenda[i + 1]
  BY <1>1, NextCall DEF RenderInv
<1>3. agenda[1].op # "stack"
  BY <1>2 DEF Restore, renderNodePart, renderNode, Next1
<1> SUFFICES ASSUME Trusted(style) PROVE OpacityInv'
  BY <1>1 DEF OpacityInv
<1>4. /\ lastOpacity \in {alpha, -1}
      /\ \A k \in 1..Len(saved) : saved[k].alpha = O(style, saved[k].node)
      /\ \A j \in 1..Len(agenda) :
           /\ agenda[j].op # "stack"
           /\ \A i \in 1..Len(agenda) : i < j => agenda[i].op # "stack"
           => O(style, agenda[j].node) = alpha
      /\ \A i, j \in 1..Len(agenda) :
           i < j /\ agenda[i].op = "stack" /\ agenda[j].op # "stack" =>
             /\ Plain(style, agenda[i].node)
             /\ O(style, agenda[i].node) = O(style, agenda[j].node)
      /\ \A i \in 1..Len(drawn) : drawn[i].alpha = O(style, drawn[i].node)
  BY DEF OpacityInv
<1>5. O(style, agenda[1].node) = alpha
  <2>1. \A i \in 1..Len(agenda) : ~(i < 1)
    OBVIOUS
  <2>2. QED
    BY <1>2, <1>3, <1>4, <2>1
<1>6. /\ alpha' = alpha
      /\ \A k \in 1..Len(saved') : saved'[k].alpha = O(style, saved'[k].node)
      /\ \A i \in 1..Len(drawn') : drawn'[i].alpha = O(style, drawn'[i].node)
  <2>1. CASE Restore
    <3> DEFINE L == Len(saved)
    <3>1. alpha' = Last(saved).alpha /\ saved' = Front(saved) /\ drawn' = drawn
      BY <2>1 DEF Restore
    <3>2. L \in Nat \ {0} /\ saved[L].node = agenda[1].node
      BY <2>1, RestoredIsSaved DEF RenderInv
    <3>3. /\ Last(saved) = saved[L] /\ Len(saved') = L - 1
          /\ \A i \in 1..(L - 1) : saved'[i] = saved[i]
      <4>1. saved \in Seq([alpha : Nat, node : Nodes]) /\ saved # <<>>
        BY <3>2 DEF RenderInv, RenderType
      <4>2. QED
        BY <3>1, <4>1, FrontIs
    <3> HIDE DEF L
    <3>4. L \in 1..L /\ \A i \in 1..(L - 1) : i \in 1..L
      BY <3>2
    <3>5. alpha' = O(style, agenda[1].node)
      BY <1>4, <3>1, <3>2, <3>3, <3>4 DEF L
    <3>6. QED
      BY <1>4, <1>5, <3>1, <3>3, <3>4, <3>5 DEF L
  <2>2. CASE renderNodePart \/ renderNode
    <3> DEFINE n == agenda[1].node
               Own(x) == x.alpha = O(style, x.node)
    <3>1. /\ UNCHANGED <<alpha, saved>>
          /\ \E back \in Drawings, front \in Drawings :
               /\ back.node = n /\ back.alpha = alpha /\ front.node = n /\ front.alpha = alpha
               /\ \/ drawn' = Append(drawn, back)
                  \/ drawn' = Append(drawn, front)
                  \/ drawn' = Append(Append(drawn, back), front)
      BY <2>2, DrawIs DEF RenderInv
    <3>2. PICK back \in Drawings, front \in Drawings :
            /\ Own(back) /\ Own(front)
            /\ \/ drawn' = Append(drawn, back)
               \/ drawn' = Append(drawn, front)
               \/ drawn' = Append(Append(drawn, back), front)
      BY <1>5, <3>1
    <3>3. drawn \in Seq(Drawings) /\ \A i \in 1..Len(drawn) : Own(drawn[i])
      BY <1>4 DEF RenderInv, RenderType, Drawings
    <3>4. ASSUME NEW q \in Seq(Drawings), NEW e \in Drawings, \A i \in 1..Len(q) : Own(q[i]), Own(e)
          PROVE  /\ Append(q, e) \in Seq(Drawings)
                 /\ \A i \in 1..Len(Append(q, e)) : Own(Append(q, e)[i])
      <4> DEFINE r == Append(q, e)
      <4>1. /\ r \in Seq(Drawings) /\ Len(r) = Len(q) + 1 /\ Len(q) \in Nat /\ r[Len(q) + 1] = e
            /\ \A i \in 1..Len(q) : r[i] = q[i]
        OBVIOUS
      <4> HIDE DEF r, Own
      <4>2. \A i \in 1..Len(r) : i \in 1..Len(q) \/ i = Len(q) + 1
        BY <4>1
      <4>3. \A i \in 1..Len(r) : Own(r[i])
        BY <3>4, <4>1, <4>2
      <4>4. QED
        BY <4>1, <4>3 DEF r
    <3>5. \A i \in 1..Len(drawn') : Own(drawn'[i])
      <4> HIDE DEF Own
      <4>1. /\ Append(drawn, back) \in Seq(Drawings)
            /\ \A i \in 1..Len(Append(drawn, back)) : Own(Append(drawn, back)[i])
        BY <3>2, <3>3, <3>4
      <4>2. \A i \in 1..Len(Append(drawn, front)) : Own(Append(drawn, front)[i])
        BY <3>2, <3>3, <3>4
      <4>3. \A i \in 1..Len(Append(Append(drawn, back), front)) :
              Own(Append(Append(drawn, back), front)[i])
        BY <3>2, <3>4, <4>1
      <4>4. QED
        BY <3>2, <4>1, <4>2, <4>3
    <3>6. QED
      BY <1>4, <3>1, <3>5
  <2>3. QED
    BY <2>1, <2>2
<1>7. ASSUME NEW j \in 1..Len(agenda'), agenda'[j].op # "stack",
             \A i \in 1..Len(agenda') : i < j => agenda'[i].op # "stack"
      PROVE  O(style, agenda'[j].node) = alpha
  <2>1. j + 1 \in 1..Len(agenda) /\ agenda'[j] = agenda[j + 1]
    BY <1>2
  <2>2. ASSUME NEW i \in 1..Len(agenda), i < j + 1 PROVE agenda[i].op # "stack"
    <3>1. CASE i = 1
      BY <1>3, <3>1
    <3>2. CASE i # 1
      <4>1. i - 1 \in 1..Len(agenda') /\ i - 1 < j /\ i - 1 + 1 = i
        BY <1>2, <2>2, <3>2
      <4>2. agenda'[i - 1] = agenda[i]
        BY <1>2, <4>1
      <4>3. QED
        BY <1>7, <4>1, <4>2
    <3>3. QED
      BY <3>1, <3>2
  <2>3. QED
    BY <1>4, <1>7, <2>1, <2>2
<1>8. ASSUME NEW i \in 1..Len(agenda'), NEW j \in 1..Len(agenda'),
             i < j, agenda'[i].op = "stack", agenda'[j].op # "stack"
      PROVE  /\ Plain(style, agenda'[i].node)
             /\ O(style, agenda'[i].node) = O(style, agenda'[j].node)
  <2>1. /\ i + 1 \in 1..Len(agenda) /\ agenda'[i] = agenda[i + 1]
        /\ j + 1 \in 1..Len(agenda) /\ agenda'[j] = agenda[j + 1] /\ i + 1 < j + 1
    BY <1>2, <1>8
  <2>2. QED
    BY <1>4, <1>8, <2>1
<1>9. lastOpacity' \in {alpha', -1}
  BY <1>1, <1>4, <1>6
<1>10. QED
  BY <1>1, <1>6, <1>7, <1>8, <1>9 DEF OpacityInv

LEMMA OpacityStep == RenderInv /\ OpacityInv /\ [Next]_vars => OpacityInv'
<1> SUFFICES ASSUME RenderInv, OpacityInv, [Next]_vars PROVE OpacityInv'
  OBVIOUS
<1>1. CASE renderStack
  BY <1>1, StackOpacity
<1>2. CASE Restore \/ renderNodePart \/ renderNode
  BY <1>2, RestOpacity
<1>3. CASE Begin
  <2>1. /\ pos = End /\ End \in Nat /\ agenda = <<>> /\ agenda' = Tasks("stack", <<Root>>)
        /\ UNCHANGED <<style, alpha, lastOpacity, saved, drawn>>
    BY <1>3, RootIsAround DEF Begin, RenderInv, RenderType
  <2> DEFINE t == [op |-> "stack", node |-> Root]
  <2>2. agenda' = <<t>> /\ t.op = "stack"
    BY <2>1 DEF Tasks
  <2> HIDE DEF t
  <2>3. \A i \in 1..Len(agenda') : agenda'[i].op = "stack"
    BY <2>2
  <2>4. QED
    BY <2>1, <2>3 DEF OpacityInv
<1>4. CASE \E n \in Nodes : Enter(n) \/ Skip(n) \/ Leave(n)
  <2>1. UNCHANGED <<style, agenda, alpha, lastOpacity, saved, drawn>>
    BY <1>4 DEF Enter, Skip, Leave, drawVars
  <2>2. QED
    BY <2>1 DEF OpacityInv
<1>5. CASE UNCHANGED vars
  BY <1>5 DEF vars, drawVars, OpacityInv
<1>6. QED
  BY <1>1, <1>2, <1>3, <1>4, <1>5 DEF Next

\* OpacityIsOwn: in the documents where the two ways in which Renderer.setOpacity can be
\* wrong do not occur, everything is drawn with as many translucent factors as there are
\* translucent elements around it, though alpha is set at contexts only and set back nowhere.
THEOREM OpacityOwn == Spec => []OpacityIsOwn
<1>1. Init => OpacityInv
  <2> SUFFICES ASSUME Init PROVE OpacityInv
    OBVIOUS
  <2>1. lastOpacity = -1 /\ Len(agenda) = 0 /\ Len(saved) = 0 /\ Len(drawn) = 0
    BY DEF Init
  <2>2. \A i : i \notin 1..0
    OBVIOUS
  <2>3. QED
    BY <2>1, <2>2 DEF OpacityInv
<1>2. OpacityInv /\ RenderInv => OpacityIsOwn
  <2> SUFFICES ASSUME OpacityInv, RenderInv,
                      \A n \in Nodes : style[n].translucent =>
                        \A m \in Ancestors(n) \cup {n} :
                          /\ style[m].z >= 0 /\ ~style[m].transformed
                          /\ style[m].body => \A k \in Nodes : Shown(k) =>
                                k = Root \/ m \in Ancestors(k) \cup {k},
                      NEW d \in ToSet(drawn)
               PROVE  d.alpha = Cardinality(Translucent(d.node))
    BY DEF OpacityIsOwn
  <2>1. Trusted(style)
    BY StyleNames DEF Trusted, Self
  <2>2. DOMAIN drawn = 1..Len(drawn)
    BY DEF RenderInv, RenderType
  <2>3. PICK i \in 1..Len(drawn) : d = drawn[i]
    BY <2>2 DEF ToSet
  <2>4. d.alpha = O(style, d.node)
    BY <2>1, <2>3 DEF OpacityInv
  <2>5. QED
    BY <2>4, StyleNames DEF O
<1>3. QED
  BY <1>1, <1>2, OpacityStep, RenderInvHolds, PTL DEF Spec

-----------------------------------------------------------------------------
(***************************************************************************)
(* Everything once.                                                         *)
(***************************************************************************)
\* A context and all those that it is in.
Up(par, n) ==
  {x \in Nodes : \A S \in SUBSET Nodes : n \in S /\ (\A y \in S : y # Root => par[y] \in S) => x \in S}

LEMMA UpIs ==
  ASSUME NEW st, NEW par, Rises(st, par), NEW n \in Nodes
  PROVE  /\ n \in Up(par, n) /\ Up(par, n) \subseteq Nodes
         /\ \A x \in Up(par, n) : x # Root => par[x] \in Up(par, n)
         /\ \A x \in Up(par, n) : Open[x] <= Open[n]
         /\ n # Root => Up(par, n) = Up(par, par[n]) \cup {n}
         /\ Up(par, Root) = {Root}
         /\ \A x \in Up(par, n) : x # n => \E c \in Up(par, n) : c # Root /\ par[c] = x
<1>1. /\ par \in [Nodes -> Nodes] /\ \A x \in Nodes : x # Root => Open[par[x]] < Open[x]
      /\ \A x \in Nodes : Open[x] \in Nat
  BY Positions DEF Rises
<1> DEFINE Closed(S) == S \in SUBSET Nodes /\ \A y \in S : y # Root => par[y] \in S
<1>2. \A m, x : x \in Up(par, m) <=> x \in Nodes /\ \A S : Closed(S) /\ m \in S => x \in S
  BY DEF Up
<1>3. \A m \in Nodes : m \in Up(par, m) /\ Closed(Up(par, m))
  BY <1>1, <1>2
<1>4. \A m, S : Closed(S) /\ m \in S => Up(par, m) \subseteq S
  BY <1>2
<1>5. \A x \in Up(par, n) : Open[x] <= Open[n]
  <2> DEFINE S == {x \in Nodes : Open[x] <= Open[n]}
  <2>1. Closed(S) /\ n \in S
    <3>1. ASSUME NEW y \in S, y # Root PROVE par[y] \in S
      <4>1. Open[par[y]] < Open[y] /\ Open[y] <= Open[n] /\ par[y] \in Nodes
        BY <1>1, <3>1
      <4>2. QED
        BY <1>1, <4>1
    <3>2. n \in S
      BY <1>1
    <3>3. QED
      BY <3>1, <3>2
  <2> HIDE DEF Closed
  <2>2. Up(par, n) \subseteq S
    BY <1>4, <2>1
  <2>3. QED
    BY <2>2
<1>6. n # Root => Up(par, n) = Up(par, par[n]) \cup {n}
  <2> SUFFICES ASSUME n # Root PROVE Up(par, n) = Up(par, par[n]) \cup {n}
    OBVIOUS
  <2>1. par[n] \in Nodes
    BY <1>1
  <2>2. Closed(Up(par, par[n]) \cup {n})
    BY <1>3, <2>1
  <2>3. par[n] \in Up(par, n) /\ n \in Up(par, n)
    BY <1>3
  <2> HIDE DEF Closed
  <2>4. Up(par, n) \subseteq Up(par, par[n]) \cup {n}
    BY <1>4, <2>2
  <2>5. Up(par, par[n]) \subseteq Up(par, n)
    BY <1>3, <1>4, <2>3
  <2>6. QED
    BY <2>3, <2>4, <2>5
<1>7. Up(par, Root) = {Root}
  <2>1. Closed({Root}) /\ Root \in Nodes
    BY RootIsAround
  <2> HIDE DEF Closed
  <2>2. QED
    BY <1>3, <1>4, <2>1
<1>8. \A x \in Up(par, n) : x # n => \E c \in Up(par, n) : c # Root /\ par[c] = x
  <2> DEFINE S == {x \in Up(par, n) : x = n \/ \E c \in Up(par, n) : c # Root /\ par[c] = x}
  <2>1. Closed(S) /\ n \in S
    BY <1>1, <1>3
  <2>2. Up(par, n) \subseteq S
    <3> HIDE DEF Closed, S
    <3>1. QED
      BY <1>4, <2>1
  <2>3. QED
    BY <2>2
<1>9. QED
  BY <1>3, <1>5, <1>6, <1>7, <1>8

\* The root is above everything, and of a context's children at most one is above it.
LEMMA UpOnce ==
  ASSUME NEW st, NEW par, Rises(st, par), NEW n \in Nodes
  PROVE  /\ Root \in Up(par, n)
         /\ \A c, d \in Up(par, n) : c # Root /\ d # Root /\ par[c] = par[d] => c = d
<1> DEFINE Good(x) == /\ Root \in Up(par, x)
                      /\ \A c, d \in Up(par, x) : c # Root /\ d # Root /\ par[c] = par[d] => c = d
           Bad == {m \in Nat : \E x \in Nodes : Open[x] = m /\ ~Good(x)}
<1>1. /\ par \in [Nodes -> Nodes] /\ \A x \in Nodes : x # Root => Open[par[x]] < Open[x]
      /\ \A x \in Nodes : Open[x] \in Nat
  BY Positions DEF Rises
<1>2. Bad = {}
  <2> SUFFICES ASSUME Bad # {} PROVE FALSE
    OBVIOUS
  <2>1. PICK m \in Bad : \A y \in Bad : m <= y
    <3>1. Bad \in SUBSET Nat
      OBVIOUS
    <3> HIDE DEF Bad
    <3>2. QED
      BY <3>1, LeastNumber
  <2>2. PICK x \in Nodes : Open[x] = m /\ ~Good(x)
    BY <2>1
  <2>3. x # Root
    <3>1. Up(par, Root) = {Root}
      BY UpIs
    <3>2. Good(Root)
      BY <3>1
    <3> HIDE DEF Good
    <3>3. QED
      BY <2>2, <3>2
  <2>4. par[x] \in Nodes /\ Open[par[x]] < Open[x] /\ Open[par[x]] \in Nat /\ Open[x] \in Nat
    BY <1>1, <2>3
  <2>5. Open[par[x]] \notin Bad
    BY <2>1, <2>2, <2>4
  <2>6. Good(par[x])
    BY <2>4, <2>5
  <2>7. Up(par, x) = Up(par, par[x]) \cup {x}
    BY <2>3, UpIs
  <2>8. ASSUME NEW d \in Up(par, par[x]), d # Root, par[d] = par[x] PROVE FALSE
    <3>1. d \in Nodes /\ Open[d] <= Open[par[x]]
      BY <2>4, UpIs
    <3>2. Open[par[d]] < Open[d] /\ Open[d] \in Nat
      BY <1>1, <2>8, <3>1
    <3>3. QED
      BY <2>4, <2>8, <3>1, <3>2
  <2>9. QED
    BY <2>2, <2>6, <2>7, <2>8
<1>3. Open[n] \in Nat
  BY <1>1
<1>4. QED
  BY <1>2, <1>3

\* h is the context in whose list n is, or n itself.
Home(st, ch, n, h) ==
  IF IsContext(st, n) THEN h = n ELSE \E i \in 1..Len(ch[h]) : ch[h][i] = n
\* The call t will draw the part p of n.
Carries(st, par, ch, t, n, p) ==
  \/ t.op = "stack" /\ \E h \in Nodes : Home(st, ch, n, h) /\ t.node \in Up(par, h)
  \/ t.op \in {p, "node"} /\ t.node = n
Draws(e, n, p) == e.node = n /\ e.part = p
Parts == {"background", "content"}
\* The calls of the agenda that draw the part p of n, and the entries that show it.
Calls(st, par, ch, a, n, p) == {i \in 1..Len(a) : Carries(st, par, ch, a[i], n, p)}
Shows(q, n, p) == {i \in 1..Len(q) : Draws(q[i], n, p)}
Single(S) == \A i, j \in S : i = j
\* Each part of a visible element is drawn or still to be drawn, and that once.
PaintInv ==
  pos > End =>
    /\ \A i \in 1..Len(drawn) : Visible(style, drawn[i].node)
    /\ \A n \in Nodes, p \in Parts : Visible(style, n) =>
         /\ Single(Shows(drawn, n, p)) /\ Single(Calls(style, parent, children, agenda, n, p))
         /\ Shows(drawn, n, p) # {} <=> Calls(style, parent, children, agenda, n, p) = {}

LEMMA HomeIs ==
  ASSUME TreeInv, OnceInv, pos >= End, NEW n \in Nodes, Visible(style, n)
  PROVE  /\ \E h \in Nodes : Home(style, children, n, h)
         /\ \A h \in Nodes : Home(style, children, n, h) => h \in Contexts(style, pos)
         /\ \A h, k \in Nodes : Home(style, children, n, h) /\ Home(style, children, n, k) => h = k
<1>1. Open[n] < pos
  <2>1. Open[n] \in Nat /\ Close[n] \in Nat /\ Open[n] < Close[n] /\ Close[n] <= End /\ End \in Nat
    BY Positions, RootIsAround
  <2>2. pos \in Nat
    BY DEF TreeInv, TypeInv
  <2>3. QED
    BY <2>1, <2>2
<1>2. CASE IsContext(style, n)
  BY <1>1, <1>2 DEF Home, Contexts
<1>3. CASE ~IsContext(style, n)
  <2>1. \E h \in Nodes : \E i \in 1..Len(children[h]) : children[h][i] = n
    BY <1>1, <1>3 DEF OnceInv
  <2>2. \A h \in Nodes : Home(style, children, n, h) <=> \E i \in 1..Len(children[h]) : children[h][i] = n
    BY <1>3 DEF Home
  <2>3. \A h \in Nodes : \A i \in 1..Len(children[h]) : h \in Contexts(style, pos)
    BY DEF TreeInv, Tree
  <2>4. \A h, k \in Nodes : \A i \in 1..Len(children[h]), j \in 1..Len(children[k]) :
          children[h][i] = children[k][j] => h = k
    BY DEF OnceInv
  <2>5. QED
    BY <2>1, <2>2, <2>3, <2>4
<1>4. QED
  BY <1>2, <1>3

\* Of what a context plans just one call draws a part, if the context has it at all.
LEMMA PlanCarries ==
  ASSUME TreeInv, OnceInv, pos > End, NEW n \in Nodes, Visible(style, n), NEW p \in Parts,
         NEW s \in Contexts(style, pos), NEW head, head.op = "stack", head.node = s
  PROVE  /\ Carries(style, parent, children, head, n, p) =>
              \E t \in Planned(s) : Carries(style, parent, children, t, n, p)
         /\ \A t \in Planned(s) : Carries(style, parent, children, t, n, p) =>
              Carries(style, parent, children, head, n, p)
         /\ \A t, u \in Planned(s) :
              /\ Carries(style, parent, children, t, n, p)
              /\ Carries(style, parent, children, u, n, p)
              => t = u
<1> DEFINE I == Inner(style, pos, parent, s)
           K == Kids(s)
<1>1. Rises(style, parent) /\ s \in Nodes /\ parent \in [Nodes -> Nodes] /\ IsContext(style, s)
  BY RootIsContext DEF TreeInv, Tree, Contexts, Rises
<1>0. pos >= End
  BY RootIsAround DEF TreeInv, TypeInv
<1>2. PICK h \in Nodes : Home(style, children, n, h)
  BY <1>0, HomeIs
<1>3. /\ h \in Contexts(style, pos)
      /\ \A k \in Nodes : Home(style, children, n, k) <=> k = h
  BY <1>0, <1>2, HomeIs
<1>4. \A t : Carries(style, parent, children, t, n, p) <=>
        \/ t.op = "stack" /\ t.node \in Up(parent, h)
        \/ t.op \in {p, "node"} /\ t.node = n
  BY <1>3 DEF Carries
<1>5. /\ h \in Up(parent, h) /\ Up(parent, h) \subseteq Nodes
      /\ \A x \in Up(parent, h) : x # Root => parent[x] \in Up(parent, h)
      /\ \A x \in Up(parent, h) : Open[x] <= Open[h]
      /\ \A x \in Up(parent, h) : x # h => \E c \in Up(parent, h) : c # Root /\ parent[c] = x
      /\ \A c, d \in Up(parent, h) : c # Root /\ d # Root /\ parent[c] = parent[d] => c = d
  BY <1>1, UpIs, UpOnce
<1>6. Up(parent, h) \subseteq Contexts(style, pos)
  <2>1. \A y \in Contexts(style, pos) : y # Root => parent[y] \in Contexts(style, pos)
    BY DEF TreeInv, Tree, UnderContext
  <2>2. Contexts(style, pos) \in SUBSET Nodes
    BY DEF Contexts
  <2>3. QED
    BY <1>3, <2>1, <2>2 DEF Up
<1>7. \A c : c \in I <=> c \in Contexts(style, pos) /\ c # Root /\ parent[c] = s
  BY DEF Inner
<1>8. \A k \in Nodes : k \in K => ~IsContext(style, k) /\ Home(style, children, k, s)
  <2>1. \A i \in 1..Len(children[s]) : ~IsContext(style, children[s][i])
    BY <1>1 DEF TreeInv, Tree
  <2>2. QED
    BY <2>1 DEF Kids, Home
<1>9. IsContext(style, n) => h = n
  BY <1>2 DEF Home
<1>10. ~IsContext(style, n) => \A k \in Nodes : k = h => n \in Kids(k)
  BY <1>3 DEF Home, Kids
<1>11. \A t : t \in Planned(s) <=>
         \/ \E o \in Parts : t = [op |-> o, node |-> s]
         \/ \E c \in I : t = [op |-> "stack", node |-> c]
         \/ \E k \in K : t = [op |-> "node", node |-> k]
  BY DEF Planned, On, Parts
<1>12. K \subseteq Nodes
  <2>1. children[s] \in Seq(Nodes)
    BY <1>1 DEF TreeInv, TypeInv
  <2>2. QED
    BY <2>1 DEF Kids
<1>13. \A c \in I : c \in Up(parent, h) => h # s
  <2>1. \A c \in I : c \in Nodes /\ Open[s] < Open[c] /\ Open[c] \in Nat /\ Open[s] \in Nat
    BY <1>1, <1>7, Positions DEF Rises, Contexts
  <2>2. QED
    BY <1>5, <2>1
<1> HIDE DEF I, K
<1>14. ASSUME s \in Up(parent, h)
       PROVE  \E t \in Planned(s) : Carries(style, parent, children, t, n, p)
  <2>1. CASE s # h
    <3>1. PICK c \in Up(parent, h) : c # Root /\ parent[c] = s
      BY <1>5, <1>14, <2>1
    <3>2. c \in I
      BY <1>6, <1>7, <3>1
    <3> DEFINE t == [op |-> "stack", node |-> c]
    <3>3. t \in Planned(s) /\ t.op = "stack" /\ t.node = c
      BY <1>11, <3>2
    <3>4. QED
      BY <1>4, <3>1, <3>3
  <2>2. CASE s = h /\ IsContext(style, n)
    <3> DEFINE t == [op |-> p, node |-> s]
    <3>1. t \in Planned(s) /\ t.op = p /\ t.node = n
      BY <1>9, <1>11, <2>2
    <3>2. QED
      BY <1>4, <3>1
  <2>3. CASE s = h /\ ~IsContext(style, n)
    <3> DEFINE t == [op |-> "node", node |-> n]
    <3>1. n \in K
      BY <1>1, <1>10, <2>3 DEF K
    <3>2. t \in Planned(s) /\ t.op = "node" /\ t.node = n
      BY <1>11, <3>1
    <3>3. QED
      BY <1>4, <3>2
  <2>4. QED
    BY <2>1, <2>2, <2>3
<1>15. ASSUME NEW t \in Planned(s), Carries(style, parent, children, t, n, p)
       PROVE  \/ t.op = "stack" /\ t.node \in I /\ t.node \in Up(parent, h)
                 /\ t = [op |-> "stack", node |-> t.node]
              \/ t = [op |-> p, node |-> s] /\ n = s /\ h = s /\ IsContext(style, n)
              \/ t = [op |-> "node", node |-> n] /\ n \in K /\ h = s /\ ~IsContext(style, n)
  <2>1. \/ t.op = "stack" /\ t.node \in Up(parent, h)
        \/ t.op \in {p, "node"} /\ t.node = n
    BY <1>4, <1>15
  <2>2. CASE \E o \in Parts : t = [op |-> o, node |-> s]
    <3>1. PICK o \in Parts : t = [op |-> o, node |-> s]
      BY <2>2
    <3>2. t.op = o /\ t.node = s /\ o # "stack" /\ o # "node"
      BY <3>1 DEF Parts
    <3>3. QED
      BY <1>1, <1>9, <2>1, <3>1, <3>2
  <2>3. CASE \E c \in I : t = [op |-> "stack", node |-> c]
    <3>1. PICK c \in I : t = [op |-> "stack", node |-> c]
      BY <2>3
    <3>2. t.op = "stack" /\ t.node = c /\ p # "stack"
      BY <3>1 DEF Parts
    <3>3. QED
      BY <2>1, <3>1, <3>2
  <2>4. CASE \E k \in K : t = [op |-> "node", node |-> k]
    <3>1. PICK k \in K : t = [op |-> "node", node |-> k]
      BY <2>4
    <3>2. t.op = "node" /\ t.node = k
      BY <3>1
    <3>3. k = n
      BY <2>1, <3>2
    <3>4. ~IsContext(style, n) /\ Home(style, children, n, s)
      BY <1>8, <3>1, <3>3
    <3>5. QED
      BY <1>1, <1>3, <3>1, <3>3, <3>4
  <2>5. QED
    BY <1>11, <2>2, <2>3, <2>4
<1>16. ASSUME NEW t \in Planned(s), Carries(style, parent, children, t, n, p)
       PROVE  s \in Up(parent, h)
  BY <1>5, <1>7, <1>15, <1>16
<1>17. ASSUME NEW t \in Planned(s), NEW u \in Planned(s),
              Carries(style, parent, children, t, n, p),
              Carries(style, parent, children, u, n, p)
       PROVE  t = u
  <2>1. CASE h = s
    <3>1. /\ t \in {[op |-> p, node |-> s], [op |-> "node", node |-> n]}
          /\ t = [op |-> p, node |-> s] <=> IsContext(style, n)
      BY <1>13, <1>15, <1>17, <2>1 DEF Parts
    <3>2. /\ u \in {[op |-> p, node |-> s], [op |-> "node", node |-> n]}
          /\ u = [op |-> p, node |-> s] <=> IsContext(style, n)
      BY <1>13, <1>15, <1>17, <2>1 DEF Parts
    <3>3. QED
      BY <3>1, <3>2
  <2>2. CASE h # s
    <3>1. t.node \in I /\ t.node \in Up(parent, h) /\ t = [op |-> "stack", node |-> t.node]
      BY <1>15, <1>17, <2>2
    <3>2. u.node \in I /\ u.node \in Up(parent, h) /\ u = [op |-> "stack", node |-> u.node]
      BY <1>15, <1>17, <2>2
    <3>3. t.node = u.node
      BY <1>5, <1>7, <3>1, <3>2
    <3>4. QED
      BY <3>1, <3>2, <3>3
  <2>3. QED
    BY <2>1, <2>2
<1>18. Carries(style, parent, children, head, n, p) <=> s \in Up(parent, h)
  BY <1>4 DEF Parts
<1>19. QED
  BY <1>14, <1>16, <1>17, <1>18

LEMMA StackPaint ==
  ASSUME RenderInv, PaintInv, renderStack
  PROVE  PaintInv'
<1> DEFINE s == agenda[1].node
           d == IF style[s].transformed THEN 0 ELSE 1
<1>1. /\ agenda # <<>> /\ agenda[1].op = "stack" /\ s \in Contexts(style, pos)
      /\ drawn' = drawn /\ UNCHANGED <<style, pos, parent, children>>
      /\ \E C \in Seq(TaskRecords), R \in Seq(TaskRecords) :
           /\ agenda' = C \o R
           /\ Lists(C, Planned(s)) /\ Paired(C, Order)
           /\ Len(R) = Len(agenda) - d
           /\ \A i \in 1..Len(R) : R[i] = IF i + d = 1 THEN Restoring(s) ELSE agenda[i + d]
  <2>1. UNCHANGED <<style, pos, parent, children>>
    BY DEF renderStack, parseVars
  <2>2. QED
    BY <2>1, NewAgenda DEF RenderInv
<1> HIDE DEF s
<1>2. PICK C \in Seq(TaskRecords), R \in Seq(TaskRecords) :
        /\ agenda' = C \o R
        /\ Lists(C, Planned(s))
        /\ Len(R) = Len(agenda) - d
        /\ \A i \in 1..Len(R) : R[i] = IF i + d = 1 THEN Restoring(s) ELSE agenda[i + d]
  BY <1>1
<1>3. d \in {0, 1}
  OBVIOUS
<1> HIDE DEF d
<1>4. /\ Len(agenda) \in Nat /\ 1 \in 1..Len(agenda) /\ Len(C) \in Nat /\ Len(R) \in Nat
      /\ Len(agenda') = Len(C) + Len(R)
      /\ \A i \in 1..(Len(C) + Len(R)) : agenda'[i] = IF i <= Len(C) THEN C[i] ELSE R[i - Len(C)]
  <2>1. agenda \in Seq(TaskRecords)
    BY DEF RenderInv, RenderType
  <2>2. Len(agenda) \in Nat /\ 1 \in 1..Len(agenda)
    BY <1>1, <2>1
  <2>3. /\ Len(C) \in Nat /\ Len(R) \in Nat /\ Len(C \o R) = Len(C) + Len(R)
        /\ \A i \in 1..(Len(C) + Len(R)) : (C \o R)[i] = IF i <= Len(C) THEN C[i] ELSE R[i - Len(C)]
    BY ConcatProperties
  <2>4. QED
    BY <1>2, <2>2, <2>3, Zenon
<1>5. /\ \A i \in 1..Len(C) : C[i] \in Planned(s)
      /\ \A t \in Planned(s) : \E i \in 1..Len(C) : C[i] = t
      /\ \A i, j \in 1..Len(C) : C[i] = C[j] => i = j
  <2>1. /\ C \in Seq(Planned(s))
        /\ \A t \in Planned(s) : \E i \in 1..Len(C) : C[i] = t
        /\ \A i, j \in 1..Len(C) : C[i] = C[j] => i = j
    BY <1>2, Zenon DEF Lists
  <2>2. QED
    BY <2>1, ElementOfSeq, Zenon
<1>6. SUFFICES ASSUME pos > End, NEW n \in Nodes, NEW p \in Parts, Visible(style, n)
      PROVE  LET A == Calls(style, parent, children, agenda, n, p)
                 B == Calls(style, parent, children, agenda', n, p)
             IN  Single(A) => Single(B) /\ (A = {} <=> B = {})
  BY <1>1, Zenon DEF PaintInv
<1> DEFINE Ca(t) == Carries(style, parent, children, t, n, p)
           A == Calls(style, parent, children, agenda, n, p)
           B == Calls(style, parent, children, agenda', n, p)
<1>7. /\ \A i : i \in A <=> i \in 1..Len(agenda) /\ Ca(agenda[i])
      /\ \A i : i \in B <=> i \in 1..Len(agenda') /\ Ca(agenda'[i])
  BY DEF Calls
<1>8. /\ Ca(agenda[1]) => \E t \in Planned(s) : Ca(t)
      /\ \A t \in Planned(s) : Ca(t) => Ca(agenda[1])
      /\ \A t, u \in Planned(s) : Ca(t) /\ Ca(u) => t = u
  BY <1>1, <1>6, PlanCarries DEF s, RenderInv
<1>9. ~Ca(Restoring(s))
  BY DEF Carries, Restoring, Parts
<1> HIDE DEF Ca, A, B
\* The call of the old agenda that a new one comes from.
<1>10. ASSUME NEW i \in B
       PROVE  \E k \in A : \/ k = 1 /\ i \in 1..Len(C) /\ Ca(C[i]) /\ C[i] \in Planned(s)
                           \/ i > Len(C) /\ k = i - Len(C) + d /\ k > 1
  <2>1. i \in 1..(Len(C) + Len(R)) /\ Ca(agenda'[i])
    BY <1>4, <1>7
  <2>2. CASE i <= Len(C)
    <3>1. i \in 1..Len(C) /\ agenda'[i] = C[i]
      BY <1>4, <2>1, <2>2
    <3>2. 1 \in A
      BY <1>4, <1>5, <1>7, <1>8, <2>1, <3>1
    <3>3. QED
      BY <1>5, <2>1, <3>1, <3>2
  <2>3. CASE ~(i <= Len(C))
    <3> DEFINE j == i - Len(C)
    <3>1. j \in 1..Len(R) /\ agenda'[i] = R[j] /\ i > Len(C)
      BY <1>4, <2>1, <2>3
    <3>2. j + d # 1
      BY <1>2, <1>9, <2>1, <3>1
    <3>3. R[j] = agenda[j + d] /\ j + d \in 1..Len(agenda) /\ j + d > 1
      <4> HIDE DEF j
      <4>1. j + d \in 1..Len(agenda) /\ j + d > 1
        BY <1>2, <1>3, <1>4, <3>1, <3>2
      <4>2. QED
        BY <1>2, <3>1, <3>2, <4>1
    <3>4. j + d \in A
      BY <1>7, <2>1, <3>1, <3>3
    <3>5. QED
      BY <3>1, <3>3, <3>4
  <2>4. QED
    BY <2>2, <2>3
<1>11. ASSUME NEW k \in A PROVE B # {}
  <2>1. k \in 1..Len(agenda) /\ Ca(agenda[k])
    BY <1>7
  <2>2. CASE k = 1
    <3>1. PICK i \in 1..Len(C) : Ca(C[i])
      BY <1>5, <1>8, <2>1, <2>2
    <3>2. i \in 1..Len(agenda') /\ agenda'[i] = C[i]
      BY <1>4
    <3>3. QED
      BY <1>7, <3>1, <3>2
  <2>3. CASE k # 1
    <3> DEFINE j == k - d
               i == Len(C) + j
    <3>1. j \in 1..Len(R) /\ j + d = k
      BY <1>2, <1>3, <1>4, <2>1, <2>3
    <3>2. i \in 1..(Len(C) + Len(R)) /\ ~(i <= Len(C)) /\ i - Len(C) = j
      BY <1>4, <3>1
    <3> HIDE DEF i, j
    <3>3. agenda'[i] = agenda[k] /\ i \in 1..Len(agenda')
      BY <1>2, <1>4, <2>3, <3>1, <3>2
    <3>4. QED
      BY <1>7, <2>1, <3>3
  <2>4. QED
    BY <2>2, <2>3
<1>12. ASSUME Single(A), NEW i \in B, NEW j \in B PROVE i = j
  <2>1. PICK k \in A : \/ k = 1 /\ i \in 1..Len(C) /\ Ca(C[i]) /\ C[i] \in Planned(s)
                       \/ i > Len(C) /\ k = i - Len(C) + d /\ k > 1
    BY <1>10
  <2>2. PICK l \in A : \/ l = 1 /\ j \in 1..Len(C) /\ Ca(C[j]) /\ C[j] \in Planned(s)
                       \/ j > Len(C) /\ l = j - Len(C) + d /\ l > 1
    BY <1>10
  <2>3. k = l /\ i \in Nat /\ j \in Nat
    BY <1>4, <1>7, <1>12 DEF Single
  <2>4. CASE k = 1
    <3>1. C[i] = C[j] /\ i \in 1..Len(C) /\ j \in 1..Len(C)
      BY <1>8, <2>1, <2>2, <2>3, <2>4
    <3>2. QED
      BY <1>5, <3>1
  <2>5. CASE k # 1
    <3>1. i - Len(C) + d = j - Len(C) + d
      BY <2>1, <2>2, <2>3, <2>5
    <3>2. QED
      BY <1>3, <1>4, <2>3, <3>1
  <2>6. QED
    BY <2>4, <2>5
<1>13. Single(A) => Single(B) /\ (A = {} <=> B = {})
  BY <1>10, <1>11, <1>12 DEF Single
<1>14. QED
  BY <1>13 DEF A, B

\* A call less on the agenda: what it drew is drawn, and nothing else.
LEMMA TailPaint ==
  ASSUME RenderInv, PaintInv, agenda # <<>>, agenda' = Tail(agenda),
         UNCHANGED <<style, pos, parent, children>>,
         \A i \in 1..Len(drawn') : Visible(style, drawn'[i].node),
         \A n \in Nodes, p \in Parts : Visible(style, n) =>
           \/ /\ Carries(style, parent, children, agenda[1], n, p)
              /\ Shows(drawn', n, p) # {}
              /\ Shows(drawn, n, p) = {} => Single(Shows(drawn', n, p))
           \/ /\ ~Carries(style, parent, children, agenda[1], n, p)
              /\ Shows(drawn', n, p) = Shows(drawn, n, p)
  PROVE  PaintInv'
<1>1. /\ 1 \in 1..Len(agenda) /\ Len(agenda) \in Nat /\ Len(agenda') = Len(agenda) - 1
      /\ \A i \in 1..Len(agenda') : i + 1 \in 1..Len(agenda) /\ agenda'[i] = agenda[i + 1]
  BY NextCall DEF RenderInv
<1>2. SUFFICES ASSUME pos > End, NEW n \in Nodes, NEW p \in Parts, Visible(style, n)
      PROVE  /\ Single(Shows(drawn', n, p))
             /\ Single(Calls(style, parent, children, agenda', n, p))
             /\ Shows(drawn', n, p) # {} <=> Calls(style, parent, children, agenda', n, p) = {}
  BY Zenon DEF PaintInv
<1> DEFINE Ca(t) == Carries(style, parent, children, t, n, p)
           A == Calls(style, parent, children, agenda, n, p)
           B == Calls(style, parent, children, agenda', n, p)
           D == Shows(drawn, n, p)
           E == Shows(drawn', n, p)
<1>3. Single(D) /\ Single(A) /\ (D # {} <=> A = {})
  BY <1>2 DEF PaintInv
<1>4. \/ Ca(agenda[1]) /\ E # {} /\ (D = {} => Single(E))
      \/ ~Ca(agenda[1]) /\ E = D
  BY <1>2
<1>5. /\ \A i : i \in A <=> i \in 1..Len(agenda) /\ Ca(agenda[i])
      /\ \A i : i \in B <=> i \in 1..Len(agenda') /\ Ca(agenda'[i])
  BY DEF Calls
<1> HIDE DEF Ca, A, B, D, E
<1>6. \A i \in B : i + 1 \in A /\ i \in Nat /\ i + 1 # 1
  BY <1>1, <1>5
<1>7. \A k \in A : k # 1 => k - 1 \in B
  <2> SUFFICES ASSUME NEW k \in A, k # 1 PROVE k - 1 \in B
    OBVIOUS
  <2> DEFINE i == k - 1
  <2>1. k \in 1..Len(agenda) /\ i \in 1..Len(agenda') /\ i + 1 = k
    BY <1>1, <1>5
  <2> HIDE DEF i
  <2>2. i \in B
    BY <1>1, <1>5, <2>1
  <2>3. QED
    BY <2>2 DEF i
<1>8. Single(B)
  <2> SUFFICES ASSUME NEW i \in B, NEW j \in B PROVE i = j
    BY DEF Single
  <2>1. i + 1 = j + 1
    BY <1>3, <1>6 DEF Single
  <2>2. QED
    BY <1>6, <2>1
<1>9. CASE Ca(agenda[1])
  <2>1. 1 \in A
    BY <1>1, <1>5, <1>9
  <2>2. D = {} /\ B = {}
    BY <1>3, <1>6, <2>1 DEF Single
  <2>3. QED
    BY <1>4, <1>8, <1>9, <2>2 DEF B, E
<1>10. CASE ~Ca(agenda[1])
  <2>1. 1 \notin A /\ E = D
    BY <1>4, <1>5, <1>10
  <2>2. A = {} <=> B = {}
    BY <1>6, <1>7, <2>1
  <2>3. QED
    BY <1>3, <1>8, <2>1, <2>2 DEF B, E
<1>11. QED
  BY <1>9, <1>10

LEMMA RestorePaint ==
  ASSUME RenderInv, PaintInv, Restore
  PROVE  PaintInv'
<1>1. /\ agenda # <<>> /\ agenda' = Tail(agenda) /\ drawn' = drawn /\ agenda[1].op = "restore"
      /\ UNCHANGED <<style, pos, parent, children>>
  BY RestoredIsSaved DEF RenderInv, Restore, Rest, parseVars
<1>2. \A n : \A p \in Parts : ~Carries(style, parent, children, agenda[1], n, p)
  BY <1>1 DEF Carries, Parts
<1>3. pos > End
  <2>1. ~(pos <= End)
    BY <1>1 DEF RenderInv, RenderType
  <2>2. QED
    BY <2>1, RootIsAround DEF RenderInv, TreeInv, TypeInv
<1>4. \A i \in 1..Len(drawn') : Visible(style, drawn'[i].node)
  BY <1>1, <1>3 DEF PaintInv
<1>5. QED
  BY <1>1, <1>2, <1>4, TailPaint

\* What appending a drawing does to what is shown.
LEMMA ShowsMore ==
  ASSUME NEW q \in Seq(Drawings), NEW e, e \in Drawings, NEW n, NEW p
  PROVE  /\ Append(q, e) \in Seq(Drawings)
         /\ Draws(e, n, p) => Shows(Append(q, e), n, p) = Shows(q, n, p) \cup {Len(q) + 1}
         /\ ~Draws(e, n, p) => Shows(Append(q, e), n, p) = Shows(q, n, p)
         /\ \A i \in 1..Len(Append(q, e)) : Append(q, e)[i] = e \/ \E j \in 1..Len(q) : Append(q, e)[i] = q[j]
<1> DEFINE r == Append(q, e)
<1>1. /\ r \in Seq(Drawings) /\ Len(r) = Len(q) + 1 /\ Len(q) \in Nat /\ r[Len(q) + 1] = e
      /\ \A i \in 1..Len(q) : r[i] = q[i]
  OBVIOUS
<1> HIDE DEF r
<1>2. \A i : i \in 1..Len(r) <=> i \in 1..Len(q) \/ i = Len(q) + 1
  BY <1>1
<1>3. /\ \A i : i \in Shows(r, n, p) <=> i \in 1..Len(r) /\ Draws(r[i], n, p)
      /\ \A i : i \in Shows(q, n, p) <=> i \in 1..Len(q) /\ Draws(q[i], n, p)
  BY DEF Shows
<1>4. Draws(e, n, p) => Shows(r, n, p) = Shows(q, n, p) \cup {Len(q) + 1}
  BY <1>1, <1>2, <1>3
<1>5. ~Draws(e, n, p) => Shows(r, n, p) = Shows(q, n, p)
  BY <1>1, <1>2, <1>3
<1>6. QED
  BY <1>1, <1>2, <1>4, <1>5 DEF r

LEMMA DrawPaint ==
  ASSUME RenderInv, PaintInv, renderNodePart \/ renderNode
  PROVE  PaintInv'
<1> DEFINE t == agenda[1]
           back == [node |-> t.node, part |-> "background", alpha |-> alpha,
                    transforms |-> Transforms(style, t.node)]
           front == [node |-> t.node, part |-> "content", alpha |-> alpha,
                     transforms |-> Transforms(style, t.node)]
<1>1. /\ agenda # <<>> /\ agenda' = Tail(agenda)
      /\ UNCHANGED <<style, pos, parent, children>>
      /\ t \in TaskRecords /\ back \in Drawings /\ front \in Drawings
      /\ \/ t.op = "background" /\ drawn' = Append(drawn, back)
         \/ t.op = "content" /\ drawn' = Append(drawn, front)
         \/ t.op = "node" /\ drawn' = Append(Append(drawn, back), front)
  BY DrawIs DEF RenderInv
<1>2. /\ \A n, p : Draws(back, n, p) <=> n = t.node /\ p = "background"
      /\ \A n, p : Draws(front, n, p) <=> n = t.node /\ p = "content"
      /\ back.node = t.node /\ front.node = t.node
  BY DEF Draws
<1> HIDE DEF back, front
<1>3. drawn \in Seq(Drawings) /\ ~(pos <= End) /\ Placed(style, pos, t) /\ pos > End
  <2>1. drawn \in Seq(Drawings) /\ ~(pos <= End)
    BY <1>1 DEF RenderInv, RenderType, Drawings
  <2>2. Placed(style, pos, t)
    BY <1>1, NextCall DEF RenderInv
  <2>3. pos > End
    BY <2>1, RootIsAround DEF RenderInv, TreeInv, TypeInv
  <2>4. QED
    BY <2>1, <2>2, <2>3
<1>4. Visible(style, t.node)
  BY <1>1, <1>3, RootIsContext DEF Placed, RenderInv, TreeInv
<1> DEFINE q1 == Append(drawn, back)
<1>5. q1 \in Seq(Drawings)
  BY <1>1, <1>3, ShowsMore
<1> HIDE DEF q1
<1>6. ASSUME NEW i \in 1..Len(drawn') PROVE Visible(style, drawn'[i].node)
  <2>1. \A j \in 1..Len(drawn) : Visible(style, drawn[j].node)
    BY <1>3 DEF PaintInv
  <2>2. \A j \in 1..Len(q1) : Visible(style, q1[j].node)
    BY <1>1, <1>2, <1>3, <1>4, <2>1, ShowsMore DEF q1
  <2>3. CASE t.op = "background" /\ drawn' = Append(drawn, back)
    BY <2>2, <2>3 DEF q1
  <2>4. CASE t.op = "content" /\ drawn' = Append(drawn, front)
    BY <1>1, <1>2, <1>3, <1>4, <2>1, <2>4, ShowsMore
  <2>5. CASE t.op = "node" /\ drawn' = Append(q1, front)
    BY <1>1, <1>2, <1>4, <1>5, <2>2, <2>5, ShowsMore
  <2>6. QED
    BY <1>1, <2>3, <2>4, <2>5 DEF q1
<1>7. ASSUME NEW n \in Nodes, NEW p \in Parts
      PROVE  \/ /\ Carries(style, parent, children, t, n, p)
                /\ Shows(drawn', n, p) # {}
                /\ Shows(drawn, n, p) = {} => Single(Shows(drawn', n, p))
             \/ /\ ~Carries(style, parent, children, t, n, p)
                /\ Shows(drawn', n, p) = Shows(drawn, n, p)
  <2>1. t.op # "stack" => (Carries(style, parent, children, t, n, p) <=> t.op \in {p, "node"} /\ t.node = n)
    BY DEF Carries
  <2>2. p \in {"background", "content"}
    BY DEF Parts
  <2>3. /\ Draws(back, n, p) => Shows(q1, n, p) = Shows(drawn, n, p) \cup {Len(drawn) + 1}
        /\ ~Draws(back, n, p) => Shows(q1, n, p) = Shows(drawn, n, p)
    BY <1>1, <1>3, ShowsMore DEF q1
  <2>4. CASE t.op = "background" /\ drawn' = q1
    BY <1>2, <2>1, <2>2, <2>3, <2>4 DEF Single
  <2>5. CASE t.op = "content" /\ drawn' = Append(drawn, front)
    <3>1. /\ Draws(front, n, p) => Shows(drawn', n, p) = Shows(drawn, n, p) \cup {Len(drawn) + 1}
          /\ ~Draws(front, n, p) => Shows(drawn', n, p) = Shows(drawn, n, p)
      BY <1>1, <1>3, <2>5, ShowsMore
    <3>2. QED
      BY <1>2, <2>1, <2>2, <2>5, <3>1 DEF Single
  <2>6. CASE t.op = "node" /\ drawn' = Append(q1, front)
    <3>1. /\ Draws(front, n, p) => Shows(drawn', n, p) = Shows(q1, n, p) \cup {Len(q1) + 1}
          /\ ~Draws(front, n, p) => Shows(drawn', n, p) = Shows(q1, n, p)
      BY <1>1, <1>5, <2>6, ShowsMore
    <3>2. QED
      BY <1>2, <2>1, <2>2, <2>3, <2>6, <3>1 DEF Single
  <2>7. QED
    BY <1>1, <2>4, <2>5, <2>6 DEF q1
<1> HIDE DEF t
<1>8. QED
  BY <1>1, <1>6, <1>7, TailPaint DEF t

\* The call that rendering begins with draws everything that is visible.
LEMMA BeginPaint ==
  ASSUME RenderInv, Begin
  PROVE  PaintInv'
<1> DEFINE t == [op |-> "stack", node |-> Root]
<1>1. /\ pos = End /\ pos >= End
      /\ UNCHANGED <<style, parent, children, drawn>>
      /\ agenda' = Tasks("stack", <<Root>>) /\ drawn = <<>>
  BY RootIsAround DEF Begin, RenderInv, RenderType
<1>2. agenda' = <<t>> /\ t.op = "stack" /\ t.node = Root
  BY <1>1 DEF Tasks
<1> HIDE DEF t
<1>3. Len(agenda') = 1 /\ agenda'[1] = t /\ Len(drawn') = 0
  BY <1>1, <1>2
<1>4. \A i : i \notin 1..Len(drawn')
  BY <1>3
<1>5. ASSUME NEW n \in Nodes, NEW p \in Parts, Visible(style, n)
      PROVE  Shows(drawn', n, p) = {} /\ Calls(style, parent, children, agenda', n, p) = {1}
  <2>1. Shows(drawn', n, p) = {}
    BY <1>4 DEF Shows
  <2>2. PICK h \in Nodes : Home(style, children, n, h)
    BY <1>1, <1>5, HomeIs DEF RenderInv
  <2>3. Root \in Up(parent, h)
    BY UpOnce DEF RenderInv, TreeInv, Tree
  <2>4. Carries(style, parent, children, t, n, p)
    BY <1>2, <2>2, <2>3 DEF Carries
  <2>5. \A i : i \in 1..Len(agenda') <=> i = 1
    BY <1>3
  <2>6. QED
    BY <1>3, <2>1, <2>4, <2>5 DEF Calls
<1>6. QED
  BY <1>1, <1>4, <1>5 DEF PaintInv, Single

LEMMA PaintStep == RenderInv /\ PaintInv /\ [Next]_vars => PaintInv'
<1> SUFFICES ASSUME RenderInv, PaintInv, [Next]_vars PROVE PaintInv'
  OBVIOUS
<1>1. CASE UNCHANGED vars
  BY <1>1 DEF vars, parseVars, drawVars, PaintInv
<1>2. CASE \E n \in Nodes : Enter(n) \/ Skip(n) \/ Leave(n)
  <2>1. PICK n \in Nodes : Enter(n) \/ Skip(n) \/ Leave(n)
    BY <1>2
  <2>2. /\ pos < End /\ pos \in Nat /\ End \in Nat /\ Close[n] \in Nat
        /\ n # Root => Close[n] < End
    BY <2>1, RootIsAround, Positions DEF Enter, Skip, Leave, Parsing, RenderInv, TreeInv, TypeInv
  <2>3. pos' = pos + 1 \/ (pos' = Close[n] + 1 /\ n # Root)
    <3>1. style[Root].visible
      BY RootIsContext DEF RenderInv, TreeInv, Visible, Self
    <3>2. CASE Skip(n)
      BY <3>1, <3>2 DEF Skip
    <3>3. CASE Enter(n)
      BY <3>3 DEF Enter
    <3>4. CASE Leave(n)
      BY <3>4 DEF Leave
    <3>5. QED
      BY <2>1, <3>2, <3>3, <3>4
  <2>4. ~(pos' > End)
    BY <2>2, <2>3
  <2>5. QED
    BY <2>4 DEF PaintInv
<1>3. CASE Begin
  BY <1>3, BeginPaint
<1>4. CASE renderStack
  BY <1>4, StackPaint
<1>5. CASE Restore
  BY <1>5, RestorePaint
<1>6. CASE renderNodePart \/ renderNode
  BY <1>6, DrawPaint
<1>7. QED
  BY <1>1, <1>2, <1>3, <1>4, <1>5, <1>6 DEF Next

LEMMA PaintInvHolds == Spec => [](RenderInv /\ PaintInv)
<1>1. Init => PaintInv
  <2>1. 2 <= End /\ End \in Nat
    <3>1. Open[Root] = 1 /\ Close[Root] = End /\ Close[Root] \in Nat /\ Open[Root] < Close[Root]
      BY RootIsAround, Positions
    <3>2. QED
      BY <3>1
  <2>2. QED
    BY <2>1 DEF PaintInv, Init
<1>2. QED
  BY <1>1, PaintStep, RenderInvHolds, PTL DEF Spec

\* PaintedOnce: whatever the document, the lists of the stacking contexts (NodeParser.parse)
\* and the seven steps through them (Renderer.renderStackContent) draw the background and the
\* content of each visible element, of no other, and none of them twice.
THEOREM PaintsOnce == Spec => []PaintedOnce
<1>1. RenderInv /\ PaintInv => PaintedOnce
  <2> SUFFICES ASSUME RenderInv, PaintInv, Complete
               PROVE  /\ {<<d.node, d.part>> : d \in ToSet(drawn)}
                           = {n \in Nodes : Shown(n)} \X {"background", "content"}
                      /\ Len(drawn) = 2 * Cardinality({n \in Nodes : Shown(n)})
    BY DEF PaintedOnce
  <2> DEFINE V == {n \in Nodes : Shown(n)}
             L == Len(drawn)
             f == [i \in 1..L |-> <<drawn[i].node, drawn[i].part>>]
  <2>1. \A n \in Nodes : Shown(n) <=> Visible(style, n)
    BY DEF Shown, Visible, Self
  <2>2. drawn \in Seq(Drawings) /\ L \in Nat /\ DOMAIN drawn = 1..L
    BY DEF RenderInv, RenderType, Drawings
  <2>3. ASSUME NEW i \in 1..L
        PROVE  drawn[i].node \in V /\ drawn[i].part \in Parts
    <3>1. drawn[i] \in Drawings
      BY <2>2, ElementOfSeq
    <3>2. Visible(style, drawn[i].node)
      BY DEF PaintInv, Complete
    <3>3. QED
      BY <2>1, <3>1, <3>2 DEF Drawings, Parts
  <2>4. ASSUME NEW n \in V, NEW p \in Parts
        PROVE  /\ \E i \in 1..L : drawn[i].node = n /\ drawn[i].part = p
               /\ \A i, j \in 1..L : /\ drawn[i].node = n /\ drawn[i].part = p
                                     /\ drawn[j].node = n /\ drawn[j].part = p
                                     => i = j
    <3>1. n \in Nodes /\ Visible(style, n) /\ agenda = <<>> /\ pos > End
      BY <2>1 DEF Complete
    <3>2. Calls(style, parent, children, agenda, n, p) = {}
      BY <3>1 DEF Calls
    <3>3. Single(Shows(drawn, n, p)) /\ Shows(drawn, n, p) # {}
      BY <3>1, <3>2 DEF PaintInv
    <3>4. \A i : i \in Shows(drawn, n, p) <=> i \in 1..L /\ drawn[i].node = n /\ drawn[i].part = p
      BY DEF Shows, Draws
    <3>5. \E i \in 1..L : drawn[i].node = n /\ drawn[i].part = p
      BY <3>3, <3>4
    <3>6. \A i, j \in Shows(drawn, n, p) : i = j
      BY <3>3 DEF Single
    <3>7. QED
      BY <3>4, <3>5, <3>6, Zenon
  <2> HIDE DEF V, L
  <2>5. f \in [1..L -> V \X Parts]
    BY <2>3
  <2>6. \A i, j \in 1..L : f[i] = f[j] => i = j
    BY <2>3, <2>4
  <2>7. \A x \in V \X Parts : \E i \in 1..L : f[i] = x
    BY <2>4
  <2>8. f \in Bijection(1..L, V \X Parts)
    <3> HIDE DEF f
    <3>1. QED
      BY <2>5, <2>6, <2>7 DEF Bijection, Injection, Surjection, IsInjective
  <2>9. /\ IsFiniteSet(1..L) /\ Cardinality(1..L) = L
    <3>1. IsFiniteSet(1..L) /\ Cardinality(1..L) = IF 1 > L THEN 0 ELSE L - 1 + 1
      BY <2>2, FS_Interval
    <3>2. QED
      BY <2>2, <3>1
  <2>10. L = Cardinality(V \X Parts)
    BY <2>8, <2>9, FS_Bijection DEF ExistsBijection
  <2>11. IsFiniteSet(V) /\ Cardinality(V) \in Nat
    BY DocumentAssumption, FS_Subset, FS_CardinalityType DEF V
  <2>12. IsFiniteSet(Parts) /\ Cardinality(Parts) = 2
    <3>1. IsFiniteSet({"background"}) /\ Cardinality({"background"}) = 1
      BY FS_Singleton
    <3>2. Parts = {"background"} \cup {"content"} /\ "content" \notin {"background"}
      BY DEF Parts
    <3>3. QED
      BY <3>1, <3>2, FS_AddElement
  <2>13. Cardinality(V \X Parts) = Cardinality(V) * Cardinality(Parts)
    BY <2>11, <2>12, FS_Product
  <2>14. L = 2 * Cardinality(V)
    BY <2>10, <2>11, <2>12, <2>13
  <2>15. {<<d.node, d.part>> : d \in ToSet(drawn)} = V \X Parts
    <3>1. {<<d.node, d.part>> : d \in ToSet(drawn)} = {f[i] : i \in 1..L}
      BY <2>2 DEF ToSet
    <3> HIDE DEF f
    <3>2. QED
      BY <2>5, <2>7, <3>1
  <2>16. QED
    BY <2>14, <2>15 DEF V, L, Parts
<1>2. QED
  BY <1>1, PaintInvHolds, PTL

-----------------------------------------------------------------------------
(***************************************************************************)
(* The contexts an element is in.                                           *)
(***************************************************************************)

\* The innermost of some elements is the one that is opened last,
LEMMA InnermostIs ==
  ASSUME NEW S \in SUBSET Nodes, S # {}
  PROVE  Innermost(S) \in S /\ \A k \in S : Open[k] <= Open[Innermost(S)]
<1> DEFINE After == {End - Open[k] : k \in S}
<1>1. /\ \A k \in S : Open[k] \in Nat /\ Open[k] <= End /\ End \in Nat
  BY Positions, RootIsAround
<1>2. After \in SUBSET Nat /\ After # {}
  BY <1>1
<1>3. PICK x \in After : \A y \in After : x <= y
  <2> HIDE DEF After
  <2>1. QED
    BY <1>2, LeastNumber
<1>4. PICK m \in S : x = End - Open[m]
  BY <1>3
<1>5. \A k \in S : Open[k] <= Open[m]
  <2> SUFFICES ASSUME NEW k \in S PROVE Open[k] <= Open[m]
    OBVIOUS
  <2>1. x <= End - Open[k]
    BY <1>3
  <2>2. QED
    BY <1>1, <1>4, <2>1
<1>6. QED
  BY <1>4, <1>5 DEF Innermost

\* and there is only one.
LEMMA InnermostOnly ==
  ASSUME NEW S \in SUBSET Nodes, NEW m \in S, \A k \in S : Open[k] <= Open[m]
  PROVE  Innermost(S) = m
<1>1. Innermost(S) \in S /\ Open[m] <= Open[Innermost(S)]
  BY InnermostIs
<1>2. Open[Innermost(S)] <= Open[m] /\ Innermost(S) \in Nodes /\ m \in Nodes
  BY <1>1
<1>3. Open[Innermost(S)] = Open[m]
  BY <1>1, <1>2, Positions
<1>4. QED
  BY <1>2, <1>3, PositionsDiffer

\* The contexts among S.
ContextsOf(st, S) == {m \in S : IsContext(st, m)}

\* The context above n is around n: the innermost real one when n is a real context or
\* positioned, else the innermost.
LEMMA AboveIs ==
  ASSUME NEW n \in Nodes, n # Root
  PROVE  /\ ContextAbove(n) \in Nodes /\ ContextAbove(n) \in Ancestors(n)
         /\ IsContext(style, ContextAbove(n)) /\ Open[ContextAbove(n)] < Open[n]
         /\ Root \in Ancestors(n)
         /\ Real(style, n) \/ style[n].positioned => ContextAbove(n) = Innermost(RealsAbove(style, n))
         /\ ~Real(style, n) /\ ~style[n].positioned =>
              ContextAbove(n) = Innermost(ContextsOf(style, Ancestors(n)))
<1> DEFINE S == {m \in Ancestors(n) :
                  IF HasContext(n) /\ (createsRealStackingContext(n) \/ style[n].positioned)
                    THEN createsRealStackingContext(m) ELSE HasContext(m)}
<1>1. Root \in Ancestors(n)
  <2>1. /\ Open[Root] = 1 /\ Close[Root] = End /\ Root \in Nodes
        /\ 1 < Open[n] /\ Close[n] < End
    BY RootIsAround
  <2>2. QED
    BY <2>1 DEF Ancestors
<1>2. Real(style, Root) /\ IsContext(style, Root)
  BY DEF Real, IsContext
<1>3. \A m : /\ createsRealStackingContext(m) <=> Real(style, m)
             /\ HasContext(m) <=> IsContext(style, m)
  BY StyleNames
<1>4. Real(style, n) \/ style[n].positioned => S = RealsAbove(style, n)
  BY <1>3 DEF RealsAbove, IsContext
<1>5. ~Real(style, n) /\ ~style[n].positioned => S = ContextsOf(style, Ancestors(n))
  BY <1>3 DEF ContextsOf
<1>6. S \in SUBSET Nodes /\ S # {} /\ \A m \in S : m \in Ancestors(n) /\ IsContext(style, m)
  BY <1>1, <1>2, <1>3 DEF Ancestors, IsContext
<1>7. ContextAbove(n) = Innermost(S)
  BY DEF ContextAbove
<1> HIDE DEF S
<1>8. ContextAbove(n) \in S
  BY <1>6, <1>7, InnermostIs
<1>9. \A m \in Ancestors(n) : m \in Nodes /\ Open[m] < Open[n]
  BY DEF Ancestors
<1>10. QED
  BY <1>1, <1>4, <1>5, <1>6, <1>7, <1>8, <1>9

\* The contexts around come before, so Chain has a solution.
Chains(f) == f = [m \in Nodes |-> IF m = Root THEN <<>> ELSE Append(f[ContextAbove(m)], m)]
LEMMA ChainExists == \E f : Chains(f) /\ f \in [Nodes -> Seq(Nodes)]
<1> DEFINE Holds(f, x) == f[x] = IF x = Root THEN <<>> ELSE Append(f[ContextAbove(x)], x)
           Upto(f, m) == \A x \in Nodes : Open[x] <= m => Holds(f, x)
           Bad == {m \in Nat : ~\E f \in [Nodes -> Seq(Nodes)] : Upto(f, m)}
<1>1. /\ \A x \in Nodes : x # Root => ContextAbove(x) \in Nodes /\ Open[ContextAbove(x)] < Open[x]
      /\ \A x \in Nodes : Open[x] \in Nat /\ 1 <= Open[x] /\ Open[x] <= End
  <2>1. \A x \in Nodes : Open[x] \in Nat /\ Close[x] \in Nat /\ Open[x] < Close[x]
    BY Positions
  <2>2. \A x \in Nodes : 1 <= Open[x] /\ Close[x] <= End /\ End \in Nat
    BY RootIsAround
  <2>3. QED
    BY <2>1, <2>2, AboveIs
<1>2. Bad = {}
  <2> SUFFICES ASSUME Bad # {} PROVE FALSE
    OBVIOUS
  <2>1. PICK m \in Bad : \A y \in Bad : m <= y
    <3>1. Bad \in SUBSET Nat
      OBVIOUS
    <3> HIDE DEF Bad
    <3>2. QED
      BY <3>1, LeastNumber
  <2>2. m \in Nat /\ ~\E f \in [Nodes -> Seq(Nodes)] : Upto(f, m)
    BY <2>1
  <2>3. CASE m = 0
    <3>1. [x \in Nodes |-> <<>>] \in [Nodes -> Seq(Nodes)]
      OBVIOUS
    <3>2. \A x \in Nodes : ~(Open[x] <= 0)
      BY <1>1
    <3>3. QED
      BY <2>2, <2>3, <3>1, <3>2
  <2>4. CASE m # 0
    <3>1. m - 1 \in Nat /\ ~(m <= m - 1)
      BY <2>2, <2>4
    <3>2. PICK g \in [Nodes -> Seq(Nodes)] : Upto(g, m - 1)
      BY <2>1, <3>1
    <3> DEFINE f == [x \in Nodes |-> IF Open[x] = m
                                       THEN IF x = Root THEN <<>> ELSE Append(g[ContextAbove(x)], x)
                                       ELSE g[x]]
    <3>3. f \in [Nodes -> Seq(Nodes)]
      <4>1. \A x \in Nodes : x # Root => Append(g[ContextAbove(x)], x) \in Seq(Nodes)
        BY <1>1
      <4>2. QED
        BY <4>1
    <3>4. ASSUME NEW x \in Nodes, Open[x] <= m PROVE Holds(f, x)
      <4>1. x # Root => ContextAbove(x) \in Nodes /\ f[ContextAbove(x)] = g[ContextAbove(x)]
        BY <1>1, <2>2, <3>4
      <4>2. CASE Open[x] = m
        BY <4>1, <4>2
      <4>3. CASE Open[x] # m
        <5>1. Open[x] <= m - 1
          BY <1>1, <2>2, <3>4, <4>3
        <5>2. Holds(g, x)
          BY <3>2, <5>1
        <5>3. f[x] = g[x]
          BY <4>3
        <5> HIDE DEF f
        <5>4. QED
          BY <4>1, <5>2, <5>3
      <4>4. QED
        BY <4>2, <4>3
    <3> HIDE DEF f
    <3>5. QED
      BY <2>2, <3>3, <3>4
  <2>5. QED
    BY <2>3, <2>4
<1>3. PICK f \in [Nodes -> Seq(Nodes)] : Upto(f, End)
  <2>1. End \in Nat /\ End \notin Bad
    BY <1>2, RootIsAround
  <2> HIDE DEF Upto
  <2>2. QED
    BY <2>1
<1>4. f = [x \in Nodes |-> IF x = Root THEN <<>> ELSE Append(f[ContextAbove(x)], x)]
  BY <1>1, <1>3
<1>5. QED
  BY <1>4 DEF Chains

\* Chain lists the contexts an element is in from the outside in.
LEMMA ChainIs ==
  /\ Chain(Root) = <<>>
  /\ \A n \in Nodes : Chain(n) \in Seq(Nodes)
  /\ \A n \in Nodes : n # Root => Chain(n) = Append(Chain(ContextAbove(n)), n)
<1> DEFINE f == CHOOSE g : Chains(g)
<1>1. PICK h : Chains(h) /\ h \in [Nodes -> Seq(Nodes)]
  BY ChainExists
<1>2. Chains(f)
  BY <1>1
<1>3. \A n : Chain(n) = f[n]
  BY DEF Chain, Chains
<1> HIDE DEF f
<1>4. \A n \in Nodes : f[n] = IF n = Root THEN <<>> ELSE Append(f[ContextAbove(n)], n)
  BY <1>2 DEF Chains
<1>5. \A n \in Nodes : n # Root => ContextAbove(n) \in Nodes /\ Open[ContextAbove(n)] < Open[n]
  BY AboveIs
<1>6. \A n \in Nodes : Open[n] \in Nat
  BY Positions
<1>7. \A n \in Nodes : f[n] \in Seq(Nodes)
  <2> DEFINE Bad == {Open[n] : n \in {x \in Nodes : f[x] \notin Seq(Nodes)}}
  <2> SUFFICES ASSUME Bad # {} PROVE FALSE
    OBVIOUS
  <2>1. Bad \in SUBSET Nat
    BY <1>6
  <2>2. PICK b \in Bad : \A y \in Bad : b <= y
    <3> HIDE DEF Bad
    <3>1. QED
      BY <2>1, LeastNumber
  <2>3. PICK n \in Nodes : b = Open[n] /\ f[n] \notin Seq(Nodes)
    BY <2>2
  <2>4. CASE n = Root
    <3>1. f[n] = <<>> /\ <<>> \in Seq(Nodes)
      BY <1>4, <2>4
    <3>2. QED
      BY <2>3, <3>1
  <2>5. CASE n # Root
    <3>1. ~(Open[n] <= Open[ContextAbove(n)]) /\ ContextAbove(n) \in Nodes
      BY <1>5, <1>6, <2>5
    <3>2. f[ContextAbove(n)] \in Seq(Nodes)
      BY <2>2, <2>3, <3>1
    <3>3. f[n] = Append(f[ContextAbove(n)], n)
      BY <1>4, <2>5
    <3>4. QED
      BY <2>3, <3>2, <3>3
  <2>6. QED
    BY <2>4, <2>5
<1>8. QED
  BY <1>3, <1>4, <1>7, RootIsAround

-----------------------------------------------------------------------------
(***************************************************************************)
(* The calls of parseNodeTree: contexts and numbers.                        *)
(***************************************************************************)
Depth(n) == Cardinality(Ancestors(n))
\* The call for m holds the context m is in, and has given all numbers of its level.
CallInv ==
  /\ indices \in Seq(Nat) /\ index \in [Nodes -> Nat]
  /\ pos <= End =>
       /\ Len(path) = Cardinality(Around(pos)) /\ Len(indices) = Cardinality(Around(pos))
       /\ \A m \in Around(pos) : path[Depth(m) + 1] = Innermost(ContextsOf(style, Self(m)))
       /\ \A n \in Nodes : n # Root /\ Open[n] < pos /\ Ancestors(n) \subseteq Around(pos) =>
            index[n] < indices[Depth(n)]

\* The parser's contexts are the ones elements are painted in.
HomeInv ==
  /\ \A n \in Contexts(style, pos) : n # Root => parent[n] = ContextAbove(n)
  /\ \A s \in Nodes : \A i \in 1..Len(children[s]) : ContextAbove(children[s][i]) = s
\* Brothers are numbered in their order.
NumberInv ==
  \A m, n \in Nodes : /\ m # Root /\ Open[m] < Open[n] /\ Open[n] < pos
                      /\ Ancestors(m) = Ancestors(n) /\ \A x \in Ancestors(n) : style[x].visible
                      => index[m] < index[n]
\* The lists of a context are in tree order.
TreeOrder == {d \in Nodes \X Nodes : Open[d[1]] < Open[d[2]]}
RisesInv ==
  \A s \in Nodes : Paired(contexts[s], TreeOrder) /\ Paired(children[s], TreeOrder)
ListInv == CallInv /\ HomeInv /\ NumberInv /\ RisesInv

\* Depths are numbers, and only the root has none.
LEMMA DepthIs ==
  ASSUME NEW n \in Nodes
  PROVE  /\ Depth(n) \in Nat /\ Cardinality(Self(n)) = Depth(n) + 1
         /\ n # Root => Depth(n) # 0
<1>1. IsFiniteSet(Ancestors(n)) /\ n \notin Ancestors(n)
  BY AncestorsAre
<1>2. n # Root => Ancestors(n) # {}
  BY AboveIs
<1>3. QED
  BY <1>1, <1>2, FS_AddElement, FS_CardinalityType, FS_EmptySet DEF Depth, Self

\* The elements around a position are nested: their depths are below their number.
LEMMA AroundIs ==
  ASSUME NEW p \in Nat
  PROVE  /\ IsFiniteSet(Around(p)) /\ Cardinality(Around(p)) \in Nat
         /\ \A n \in Nodes : Ancestors(n) \subseteq Around(p) => Depth(n) <= Cardinality(Around(p))
         /\ \A m \in Around(p) : Self(m) \subseteq Around(p) /\ Depth(m) + 1 <= Cardinality(Around(p))
<1>1. IsFiniteSet(Around(p)) /\ Cardinality(Around(p)) \in Nat
  BY DocumentAssumption, FS_Subset, FS_CardinalityType DEF Around
<1>2. \A S : S \subseteq Around(p) => Cardinality(S) <= Cardinality(Around(p))
  BY <1>1, FS_Subset
<1>3. ASSUME NEW m \in Around(p) PROVE Self(m) \subseteq Around(p)
  <2>1. m \in Nodes /\ Open[m] < p /\ p <= Close[m]
    BY DEF Around
  <2>2. ASSUME NEW x \in Ancestors(m) PROVE x \in Around(p)
    <3>1. x \in Nodes /\ Open[x] < Open[m] /\ Close[m] < Close[x]
      BY DEF Ancestors
    <3>2. /\ Open[x] \in Nat /\ Open[m] \in Nat /\ Close[x] \in Nat /\ Close[m] \in Nat
      BY <2>1, <3>1, Positions
    <3>3. QED
      BY <2>1, <3>1, <3>2 DEF Around
  <2>3. QED
    BY <2>2 DEF Self
<1>4. \A m \in Around(p) : m \in Nodes
  BY DEF Around
<1>5. QED
  BY <1>1, <1>2, <1>3, <1>4, DepthIs DEF Depth

\* The call in which the parser comes to n.
LEMMA LastCall ==
  ASSUME TreeInv, CallInv, NEW n \in Nodes, Parsing, pos = Open[n]
  PROVE  /\ n # Root /\ pos \in Nat /\ pos <= End /\ Around(pos) = Ancestors(n)
         /\ Len(path) = Depth(n) /\ Len(indices) = Depth(n) /\ Depth(n) \in Nat /\ Depth(n) # 0
         /\ Last(path) = Innermost(ContextsOf(style, Ancestors(n)))
<1>1. n # Root /\ path # <<>> /\ path \in Seq(Nodes)
  BY AtOpening DEF TreeInv, TypeInv
<1>2. pos \in Nat /\ pos <= End
  BY RootIsAround DEF TreeInv, TypeInv, Parsing
<1>3. Around(pos) = Ancestors(n) /\ Root \in Around(pos) /\ Around(pos) \in SUBSET Nodes
  BY <1>1, AncestorsAre, AboveIs
<1>4. Len(path) = Depth(n) /\ Len(indices) = Depth(n) /\ Depth(n) \in Nat /\ Depth(n) # 0
  <2>1. Len(path) # 0
    BY <1>1
  <2>2. QED
    BY <1>2, <1>3, <2>1, DepthIs DEF CallInv, Depth
<1> DEFINE m == Innermost(Around(pos))
<1>5. m \in Around(pos) /\ \A x \in Around(pos) : Open[x] <= Open[m]
  BY <1>3, InnermostIs
<1> HIDE DEF m
<1>6. Self(m) = Ancestors(n)
  BY <1>2, <1>3, <1>5, InnermostSelf
<1>7. Depth(m) + 1 = Depth(n)
  <2>1. m \in Nodes
    BY <1>3, <1>5
  <2>2. QED
    BY <1>6, <2>1, DepthIs DEF Depth
<1>8. path[Depth(m) + 1] = Innermost(ContextsOf(style, Self(m)))
  BY <1>2, <1>5 DEF CallInv
<1>9. QED
  BY <1>1, <1>2, <1>3, <1>4, <1>6, <1>7, <1>8 DEF Last

\* What is open before n is not inside n.
LEMMA BeforeOpening ==
  ASSUME NEW n \in Nodes, NEW x \in Nodes, Open[x] < Open[n]
  PROVE  n \notin Ancestors(x) /\ x # n
<1>1. /\ Open[x] \in Nat /\ Open[n] \in Nat
  BY Positions
<1>2. QED
  BY <1>1 DEF Ancestors

\* What the calls know holds when the parser enters an element,
LEMMA CallEnter ==
  ASSUME TreeInv, CallInv, NEW n \in Nodes, Enter(n)
  PROVE  CallInv'
<1> DEFINE s == Last(path)
           i == Last(indices)
           L == Depth(n)
           c == IF IsContext(style, n) THEN n ELSE s
<1>1. /\ Parsing /\ pos = Open[n] /\ pos' = pos + 1 /\ style' = style
      /\ index' = [index EXCEPT ![n] = i]
      /\ indices' = Append(Append(Front(indices), i + 1), i + 1)
      /\ path' = Append(path, c)
  BY StyleNames DEF Enter, HasContext
<1>2. /\ n # Root /\ pos \in Nat /\ pos <= End /\ Around(pos) = Ancestors(n)
      /\ Len(path) = L /\ Len(indices) = L /\ L \in Nat /\ L # 0
      /\ s = Innermost(ContextsOf(style, Ancestors(n)))
  BY <1>1, LastCall
<1>3. /\ path \in Seq(Nodes) /\ indices \in Seq(Nat) /\ index \in [Nodes -> Nat] /\ s \in Nodes
  BY <1>1, AtOpening DEF TreeInv, TypeInv, CallInv, Contexts
<1>4. i \in Nat /\ i = indices[L]
  BY <1>2, <1>3 DEF Last
<1>5. /\ Front(indices) \in Seq(Nat) /\ Len(Front(indices)) = L - 1
      /\ \A k \in 1..(L - 1) : Front(indices)[k] = indices[k]
  <2>1. indices # <<>>
    BY <1>2
  <2> HIDE DEF L
  <2>2. QED
    BY <1>2, <1>3, <2>1, FrontIs
<1>6. c \in Nodes
  BY <1>3
<1>7. Around(pos') = Ancestors(n) \cup {n} /\ n \notin Ancestors(n)
  BY <1>1, <1>2, AroundChanges
<1>8. Cardinality(Around(pos')) = L + 1
  BY <1>7, DepthIs DEF Self
<1> HIDE DEF s, i, L, c
<1>9. /\ path' \in Seq(Nodes) /\ Len(path') = L + 1 /\ path'[L + 1] = c
      /\ \A k \in 1..L : path'[k] = path[k]
  BY <1>1, <1>2, <1>3, <1>6
<1>10. /\ indices' \in Seq(Nat) /\ Len(indices') = L + 1
       /\ indices'[L] = i + 1 /\ indices'[L + 1] = i + 1
       /\ \A k \in 1..(L - 1) : indices'[k] = indices[k]
  BY <1>1, <1>2, <1>4, <1>5
<1>11. /\ index' \in [Nodes -> Nat] /\ index'[n] = i
       /\ \A x \in Nodes : x # n => index'[x] = index[x]
  BY <1>1, <1>3, <1>4
<1>12. ASSUME NEW m \in Around(pos') PROVE path'[Depth(m) + 1] = Innermost(ContextsOf(style, Self(m)))
  <2>1. CASE m \in Around(pos)
    <3>1. m \in Nodes /\ Depth(m) + 1 <= L /\ Depth(m) \in Nat
      BY <1>2, <2>1, AroundIs, DepthIs DEF Around, L, Depth
    <3>2. path'[Depth(m) + 1] = path[Depth(m) + 1]
      BY <1>2, <1>9, <3>1
    <3>3. QED
      BY <1>2, <2>1, <3>2 DEF CallInv
  <2>2. CASE m = n
    <3>1. path'[Depth(m) + 1] = c
      BY <1>9, <2>2 DEF L
    <3>2. CASE IsContext(style, n)
      <4>1. ContextsOf(style, Self(n)) \in SUBSET Nodes /\ n \in ContextsOf(style, Self(n))
        BY <3>2, SelfFinite DEF ContextsOf, Self
      <4>2. \A k \in ContextsOf(style, Self(n)) : Open[k] <= Open[n]
        BY Positions DEF ContextsOf, Self, Ancestors
      <4>3. QED
        BY <2>2, <3>1, <3>2, <4>1, <4>2, InnermostOnly DEF c
    <3>3. CASE ~IsContext(style, n)
      <4>1. ContextsOf(style, Self(n)) = ContextsOf(style, Ancestors(n))
        BY <3>3 DEF ContextsOf, Self
      <4>2. QED
        BY <1>2, <2>2, <3>1, <3>3, <4>1 DEF c
    <3>4. QED
      BY <3>2, <3>3
  <2>3. QED
    BY <1>2, <1>7, <2>1, <2>2
<1>13. ASSUME NEW x \in Nodes, x # Root, Open[x] < pos', Ancestors(x) \subseteq Around(pos')
       PROVE  index'[x] < indices'[Depth(x)]
  <2>1. CASE x = n
    <3>1. indices'[Depth(x)] = i + 1
      BY <1>10, <2>1 DEF L
    <3>2. QED
      BY <1>4, <1>11, <2>1, <3>1
  <2>2. CASE x # n
    <3>1. Open[x] < Open[n]
      <4>1. Open[x] \in Nat /\ Open[x] # Open[n]
        BY <2>2, Positions, PositionsDiffer
      <4>2. QED
        BY <1>1, <1>2, <1>13, <4>1
    <3>2. Ancestors(x) \subseteq Around(pos)
      BY <1>2, <1>7, <1>13, <3>1, BeforeOpening
    <3>3. index[x] < indices[Depth(x)]
      BY <1>1, <1>2, <1>13, <3>1, <3>2 DEF CallInv
    <3>4. Depth(x) \in Nat /\ Depth(x) # 0 /\ Depth(x) <= L
      <4>1. Depth(x) \in Nat /\ Depth(x) # 0 /\ Depth(x) <= Cardinality(Around(pos))
        BY <1>2, <1>13, <3>2, AroundIs, DepthIs
      <4>2. QED
        BY <1>2, <4>1 DEF L, Depth
    <3>5. index'[x] = index[x] /\ index[x] \in Nat
      BY <1>3, <1>11, <2>2
    <3>6. CASE Depth(x) = L
      BY <1>4, <1>10, <3>3, <3>5, <3>6
    <3>7. CASE Depth(x) # L
      <4>1. Depth(x) \in 1..(L - 1)
        BY <1>2, <3>4, <3>7
      <4>2. QED
        BY <1>10, <3>3, <3>5, <4>1
    <3>8. QED
      BY <3>6, <3>7
  <2>3. QED
    BY <2>1, <2>2
<1>14. QED
  BY <1>1, <1>8, <1>9, <1>10, <1>11, <1>12, <1>13 DEF CallInv

\* passes one that is not shown,
LEMMA CallSkip ==
  ASSUME TreeInv, CallInv, NEW n \in Nodes, Skip(n)
  PROVE  CallInv'
<1> DEFINE i == Last(indices)
           L == Depth(n)
<1>1. /\ Parsing /\ pos = Open[n] /\ pos' = Close[n] + 1 /\ style' = style /\ path' = path
      /\ index' = [index EXCEPT ![n] = i]
      /\ indices' = Append(Front(indices), i + 1)
  BY DEF Skip
<1>2. /\ n # Root /\ pos \in Nat /\ pos <= End /\ Around(pos) = Ancestors(n)
      /\ Len(path) = L /\ Len(indices) = L /\ L \in Nat /\ L # 0
  BY <1>1, LastCall
<1>3. indices \in Seq(Nat) /\ index \in [Nodes -> Nat]
  BY DEF CallInv
<1>4. i \in Nat /\ i = indices[L]
  BY <1>2, <1>3 DEF Last
<1>5. /\ Front(indices) \in Seq(Nat) /\ Len(Front(indices)) = L - 1
      /\ \A k \in 1..(L - 1) : Front(indices)[k] = indices[k]
  <2>1. indices # <<>>
    BY <1>2
  <2> HIDE DEF L
  <2>2. QED
    BY <1>2, <1>3, <2>1, FrontIs
<1>6. Around(pos') = Around(pos)
  BY <1>1, AroundChanges
<1> HIDE DEF i, L
<1>7. /\ indices' \in Seq(Nat) /\ Len(indices') = L /\ indices'[L] = i + 1
      /\ \A k \in 1..(L - 1) : indices'[k] = indices[k]
  BY <1>1, <1>2, <1>4, <1>5
<1>8. /\ index' \in [Nodes -> Nat] /\ index'[n] = i
      /\ \A x \in Nodes : x # n => index'[x] = index[x]
  BY <1>1, <1>3, <1>4
<1>9. ASSUME NEW x \in Nodes, x # Root, Open[x] < pos', Ancestors(x) \subseteq Around(pos)
      PROVE  index'[x] < indices'[Depth(x)]
  <2>1. CASE x = n
    <3>1. indices'[Depth(x)] = i + 1
      BY <1>7, <2>1 DEF L
    <3>2. QED
      BY <1>4, <1>8, <2>1, <3>1
  <2>2. CASE x # n
    <3>1. Open[x] < Open[n]
      <4>1. /\ Open[x] \in Nat /\ Open[x] # Open[n] /\ Open[x] # Close[n] /\ Open[n] \in Nat
            /\ Close[n] \in Nat
        BY <2>2, Positions, PositionsDiffer
      <4>2. Open[n] < Open[x] /\ Open[x] < Close[n] => n \in Ancestors(x)
        BY Positions DEF Ancestors
      <4>3. n \notin Ancestors(x)
        BY <1>2, <1>9, AncestorsAre
      <4>4. QED
        BY <1>1, <1>9, <4>1, <4>2, <4>3
    <3>2. index[x] < indices[Depth(x)]
      BY <1>1, <1>2, <1>9, <3>1 DEF CallInv
    <3>3. Depth(x) \in Nat /\ Depth(x) # 0 /\ Depth(x) <= L
      <4>1. Depth(x) \in Nat /\ Depth(x) # 0 /\ Depth(x) <= Cardinality(Around(pos))
        BY <1>2, <1>9, AroundIs, DepthIs
      <4>2. QED
        BY <1>2, <4>1 DEF L, Depth
    <3>4. index'[x] = index[x] /\ index[x] \in Nat
      BY <1>3, <1>8, <2>2
    <3>5. CASE Depth(x) = L
      BY <1>4, <1>7, <3>2, <3>4, <3>5
    <3>6. CASE Depth(x) # L
      <4>1. Depth(x) \in 1..(L - 1)
        BY <1>2, <3>3, <3>6
      <4>2. QED
        BY <1>7, <3>2, <3>4, <4>1
    <3>7. QED
      BY <3>5, <3>6
  <2>3. QED
    BY <2>1, <2>2
<1>10. Len(path') = Cardinality(Around(pos')) /\ Len(indices') = Cardinality(Around(pos'))
  BY <1>1, <1>2, <1>6, <1>7 DEF L, Depth
<1>11. \A m \in Around(pos') : path'[Depth(m) + 1] = Innermost(ContextsOf(style', Self(m)))
  BY <1>1, <1>2, <1>6 DEF CallInv
<1>12. QED
  BY <1>6, <1>7, <1>8, <1>9, <1>10, <1>11 DEF CallInv

\* and leaves one.
LEMMA CallLeave ==
  ASSUME TreeInv, CallInv, NEW n \in Nodes, Leave(n)
  PROVE  CallInv'
<1> DEFINE L == Depth(n) + 1
<1>1. /\ Parsing /\ pos = Close[n] /\ pos' = pos + 1 /\ style' = style /\ index' = index
      /\ path' = Front(path) /\ indices' = Front(indices)
  BY DEF Leave
<1>2. pos \in Nat /\ pos <= End /\ pos' \in Nat
  BY <1>1, RootIsAround DEF TreeInv, TypeInv, Parsing
<1>3. Around(pos') = Around(pos) \ {n} /\ n \in Around(pos)
  BY <1>1, AroundChanges
<1>4. Around(pos') = Ancestors(n) /\ Around(pos) = Self(n)
  BY <1>1, <1>3, AncestorsAre DEF Self
<1>5. /\ Cardinality(Around(pos)) = L /\ Cardinality(Around(pos')) = L - 1
      /\ L \in Nat /\ L # 0
  BY <1>4, DepthIs DEF Depth
<1>6. /\ path \in Seq(Nodes) /\ indices \in Seq(Nat) /\ index \in [Nodes -> Nat]
      /\ Len(path) = L /\ Len(indices) = L
  BY <1>2, <1>5 DEF TreeInv, TypeInv, CallInv
<1> HIDE DEF L
<1>7. /\ Len(path') = L - 1 /\ \A k \in 1..(L - 1) : path'[k] = path[k]
      /\ indices' \in Seq(Nat) /\ Len(indices') = L - 1
      /\ \A k \in 1..(L - 1) : indices'[k] = indices[k]
  <2>1. path # <<>> /\ indices # <<>>
    BY <1>5, <1>6
  <2>2. /\ Len(Front(path)) = Len(path) - 1
        /\ \A k \in 1..(Len(path) - 1) : Front(path)[k] = path[k]
    BY <1>6, <2>1, FrontIs
  <2>3. /\ Front(indices) \in Seq(Nat) /\ Len(Front(indices)) = Len(indices) - 1
        /\ \A k \in 1..(Len(indices) - 1) : Front(indices)[k] = indices[k]
    BY <1>6, <2>1, FrontIs
  <2>4. QED
    BY <1>1, <1>6, <2>2, <2>3
<1>8. ASSUME NEW m \in Around(pos') PROVE path'[Depth(m) + 1] = Innermost(ContextsOf(style, Self(m)))
  <2>1. m \in Nodes /\ Depth(m) \in Nat /\ Depth(m) + 1 <= L - 1
    BY <1>2, <1>5, AroundIs, DepthIs DEF Around
  <2>2. path'[Depth(m) + 1] = path[Depth(m) + 1]
    BY <1>5, <1>7, <2>1
  <2>3. QED
    BY <1>2, <1>3, <2>2 DEF CallInv
<1>9. ASSUME NEW x \in Nodes, x # Root, Open[x] < pos', Ancestors(x) \subseteq Around(pos')
      PROVE  index[x] < indices'[Depth(x)]
  <2>1. Open[x] < pos
    <3>1. Open[x] \in Nat /\ Open[x] # Close[n]
      BY Positions, PositionsDiffer
    <3>2. QED
      BY <1>1, <1>2, <1>9, <3>1
  <2>2. index[x] < indices[Depth(x)]
    BY <1>2, <1>3, <1>9, <2>1 DEF CallInv
  <2>3. Depth(x) \in Nat /\ Depth(x) # 0 /\ Depth(x) <= L - 1
    <3>1. Depth(x) \in Nat /\ Depth(x) # 0 /\ Depth(x) <= Cardinality(Around(pos'))
      BY <1>2, <1>9, AroundIs, DepthIs
    <3>2. QED
      BY <1>5, <3>1
  <2>4. indices'[Depth(x)] = indices[Depth(x)]
    BY <1>5, <1>7, <2>3
  <2>5. QED
    BY <2>2, <2>4
<1>10. QED
  BY <1>1, <1>5, <1>6, <1>7, <1>8, <1>9 DEF CallInv

\* The context above an element is read off the style alone.
LEMMA AboveSame == style' = style => \A n : ContextAbove(n)' = ContextAbove(n)
<1> SUFFICES ASSUME style' = style, NEW n PROVE ContextAbove(n)' = ContextAbove(n)
  OBVIOUS
<1>1. \A m : HasContext(m)' = HasContext(m) /\ createsRealStackingContext(m)' = createsRealStackingContext(m)
  BY DEF HasContext, createsRealStackingContext, createsStackingContext
<1> DEFINE S == {m \in Ancestors(n) :
                  IF HasContext(n) /\ (createsRealStackingContext(n) \/ style[n].positioned)
                    THEN createsRealStackingContext(m) ELSE HasContext(m)}
<1>2. S' = S
  BY <1>1
<1>3. ContextAbove(n)' = Innermost(S') /\ ContextAbove(n) = Innermost(S)
  BY DEF ContextAbove
<1>4. QED
  BY <1>2, <1>3

\* Nothing is listed at first.
LEMMA InitLists == Init => ListInv
<1> SUFFICES ASSUME Init PROVE ListInv
  OBVIOUS
<1>1. /\ pos = 2 /\ indices = <<1>> /\ path = <<Root>> /\ index = [n \in Nodes |-> 0]
      /\ \A s \in Nodes : contexts[s] = <<>> /\ children[s] = <<>>
  BY DEF Init
<1>2. /\ \A n \in Nodes : n # Root => ~(Open[n] < 2)
      /\ \A n \in Nodes : Open[n] \in Nat
      /\ Root \in Nodes /\ Open[Root] = 1 /\ Close[Root] = End /\ End \in Nat /\ 1 < End
  BY RootIsAround, Positions
<1>3. Around(2) = {Root} /\ Ancestors(Root) = {} /\ Self(Root) = {Root}
  <2>1. Ancestors(Root) = {}
    BY <1>2, Positions, RootIsAround DEF Ancestors
  <2>2. QED
    BY <1>2, <2>1 DEF Around, Self
<1>4. CallInv
  <2>1. Cardinality(Around(2)) = 1 /\ Depth(Root) = 0
    BY <1>3, FS_Singleton, FS_EmptySet DEF Depth
  <2>2. ContextsOf(style, Self(Root)) = {Root}
    BY <1>3 DEF ContextsOf, IsContext, Real
  <2>3. Innermost({Root}) = Root
    BY <1>2, InnermostOnly
  <2>4. /\ indices \in Seq(Nat) /\ Len(indices) = 1 /\ Len(path) = 1 /\ path[0 + 1] = Root
        /\ index \in [Nodes -> Nat]
    BY <1>1
  <2>5. \A m \in Around(pos) : path[Depth(m) + 1] = Innermost(ContextsOf(style, Self(m)))
    BY <1>1, <1>3, <2>1, <2>2, <2>3, <2>4
  <2>6. QED
    BY <1>1, <1>2, <2>1, <2>4, <2>5 DEF CallInv
<1>5. HomeInv
  <2>1. \A n \in Contexts(style, pos) : n = Root
    BY <1>1, <1>2 DEF Contexts
  <2>2. QED
    BY <1>1, <2>1 DEF HomeInv
<1>6. NumberInv
  <2>1. \A m, n \in Nodes : ~(m # Root /\ Open[m] < Open[n] /\ Open[n] < pos)
    BY <1>1, <1>2
  <2>2. QED
    BY <2>1 DEF NumberInv
<1>7. RisesInv
  BY <1>1 DEF RisesInv, Paired
<1>8. QED
  BY <1>4, <1>5, <1>6, <1>7 DEF ListInv

\* One more at the end of a list.
LEMMA AppendPaired ==
  ASSUME NEW S, NEW q \in Seq(S), NEW x \in S, NEW P,
         Paired(q, P), \A i \in 1..Len(q) : <<q[i], x>> \in P
  PROVE  Paired(Append(q, x), P)
<1> DEFINE r == Append(q, x)
<1>1. /\ Len(q) \in Nat /\ Len(r) = Len(q) + 1 /\ r[Len(q) + 1] = x
      /\ \A i \in 1..Len(q) : r[i] = q[i]
  OBVIOUS
<1> HIDE DEF r
<1>2. ASSUME NEW i \in 1..Len(r), NEW j \in 1..Len(r), i < j PROVE <<r[i], r[j]>> \in P
  <2>1. i \in 1..Len(q)
    BY <1>1, <1>2
  <2>2. CASE j \in 1..Len(q)
    BY <1>1, <1>2, <2>1, <2>2 DEF Paired
  <2>3. CASE j = Len(q) + 1
    BY <1>1, <2>1, <2>3
  <2>4. QED
    BY <1>1, <2>2, <2>3
<1>3. QED
  BY <1>2 DEF Paired, r

\* The context a new element is put in is the one it is painted in.
LEMMA HomeIsAbove ==
  ASSUME TreeInv, CallInv, NEW n \in Nodes, Parsing, pos = Open[n]
  PROVE  /\ parentStack(n, Last(path)) = ContextAbove(n)
         /\ ~IsContext(style, n) => Last(path) = ContextAbove(n)
<1> DEFINE s == Last(path)
           up == getRealParentStackingContext(s)
<1>1. /\ n # Root /\ s = Innermost(ContextsOf(style, Ancestors(n)))
  BY LastCall
<1>2. s \in Contexts(style, pos) /\ Reals(style, s) = RealsAbove(style, n) /\ s \in Nodes
  BY AtOpening DEF Contexts
<1>3. CASE Real(style, n) \/ style[n].positioned
  <2>1. parentStack(n, s) = up
    BY <1>3, StyleNames DEF parentStack
  <2>2. up \in Contexts(style, pos) /\ Real(style, up) /\ Reals(style, up) = Reals(style, s)
    BY <1>2, RealParentIs DEF TreeInv
  <2> HIDE DEF up, s
  <2>3. up \in Nodes /\ up \in Reals(style, up) /\ Reals(style, up) = RealsAbove(style, n)
    BY <1>2, <2>2 DEF Contexts, Reals, Self
  <2>4. \A k \in Reals(style, up) : k \in Nodes /\ Open[k] <= Open[up]
    BY <2>3, Positions DEF Reals, Self, Ancestors
  <2>5. Innermost(RealsAbove(style, n)) = up
    BY <2>3, <2>4, InnermostOnly
  <2>6. ContextAbove(n) = Innermost(RealsAbove(style, n))
    BY <1>1, <1>3, AboveIs
  <2>7. QED
    BY <1>3, <2>1, <2>5, <2>6 DEF IsContext, s
<1>4. CASE ~Real(style, n) /\ ~style[n].positioned
  <2>1. parentStack(n, s) = s
    BY <1>4, StyleNames DEF parentStack
  <2> HIDE DEF s
  <2>2. ContextAbove(n) = s
    BY <1>1, <1>4, AboveIs
  <2>3. QED
    BY <2>1, <2>2 DEF s
<1>5. QED
  BY <1>3, <1>4

\* A new element is last in tree order, so it is listed last.
LEMMA ListEnter ==
  ASSUME TreeInv, ListInv, NEW n \in Nodes, Enter(n)
  PROVE  ListInv'
<1> DEFINE s == Last(path)
           up == parentStack(n, s)
           own == IsContext(style, n)
           i == Last(indices)
<1>1. /\ TypeInv /\ Tree /\ CallInv /\ HomeInv /\ NumberInv /\ RisesInv
      /\ pos = Open[n] /\ Parsing /\ pos' = pos + 1 /\ style' = style
      /\ index' = [index EXCEPT ![n] = i]
      /\ own =>
           /\ parent' = [parent EXCEPT ![n] = up]
           /\ contexts' = [contexts EXCEPT ![up] = Append(@, n)]
           /\ children' = children
      /\ ~own =>
           /\ children' = [children EXCEPT ![s] = Append(@, n)]
           /\ parent' = parent /\ contexts' = contexts
  BY StyleNames DEF TreeInv, ListInv, Enter, HasContext
<1>2. /\ n # Root /\ pos \in Nat /\ pos <= End /\ Around(pos) = Ancestors(n)
      /\ Len(indices) = Depth(n) /\ s \in Nodes
  BY <1>1, LastCall, AtOpening DEF Contexts
<1>3. up \in Nodes /\ up = ContextAbove(n) /\ (~own => s = ContextAbove(n))
  BY <1>1, ParentStackIs, HomeIsAbove
<1>4. i = indices[Depth(n)]
  BY <1>2 DEF Last
<1> HIDE DEF up, s, own, i
<1>5. ASSUME NEW x \in Nodes PROVE Open[x] < pos' <=> Open[x] < pos \/ x = n
  <2>1. Open[x] \in Nat /\ (Open[x] = Open[n] => x = n)
    BY Positions, PositionsDiffer
  <2>2. QED
    BY <1>1, <1>2, <2>1
<1>6. CallInv'
  BY CallEnter DEF ListInv
<1>7. /\ parent \in [Nodes -> Nodes] /\ contexts \in [Nodes -> Seq(Nodes)]
      /\ children \in [Nodes -> Seq(Nodes)] /\ index \in [Nodes -> Nat]
  BY <1>1 DEF TypeInv, CallInv
<1>8. HomeInv'
  <2>1. ASSUME NEW x \in Contexts(style, pos'), x # Root PROVE parent'[x] = ContextAbove(x)
    <3>1. x \in Nodes /\ IsContext(style, x) /\ (x = n \/ x \in Contexts(style, pos))
      BY <1>5, <2>1 DEF Contexts
    <3>2. CASE x = n
      <4>1. parent' = [parent EXCEPT ![n] = up]
        BY <1>1, <3>1, <3>2 DEF own
      <4>2. QED
        BY <1>3, <1>7, <3>2, <4>1
    <3>3. CASE x # n
      <4>1. parent'[x] = parent[x]
        BY <1>1, <1>7, <3>1, <3>3
      <4>2. QED
        BY <1>1, <2>1, <3>1, <3>3, <4>1 DEF HomeInv
    <3>4. QED
      BY <3>2, <3>3
  <2>2. ASSUME NEW t \in Nodes, NEW k \in 1..Len(children'[t])
        PROVE  ContextAbove(children'[t][k]) = t
    <3>1. \A j \in 1..Len(children[t]) : ContextAbove(children[t][j]) = t
      BY <1>1 DEF HomeInv
    <3>2. CASE ~own /\ t = s
      <4>1. children'[t] = Append(children[t], n) /\ children[t] \in Seq(Nodes)
        BY <1>1, <1>7, <3>2
      <4>2. k \in 1..Len(children[t]) \/ children'[t][k] = n
        BY <4>1
      <4>3. k \in 1..Len(children[t]) => children'[t][k] = children[t][k]
        BY <4>1
      <4>4. QED
        BY <1>3, <3>1, <3>2, <4>2, <4>3
    <3>3. CASE own \/ t # s
      <4>1. children'[t] = children[t]
        BY <1>1, <1>7, <3>3
      <4>2. QED
        BY <3>1, <4>1
    <3>4. QED
      BY <3>2, <3>3
  <2>3. QED
    BY <1>1, <2>1, <2>2, AboveSame DEF HomeInv
<1>9. NumberInv'
  <2> SUFFICES ASSUME NEW x \in Nodes, NEW y \in Nodes, x # Root, Open[x] < Open[y],
                      Open[y] < pos', Ancestors(x) = Ancestors(y),
                      \A z \in Ancestors(y) : style[z].visible
               PROVE  index'[x] < index'[y]
    BY <1>1 DEF NumberInv
  <2>1. CASE y = n
    <3>1. x # n /\ index'[n] = i /\ index'[x] = index[x]
      BY <1>1, <1>7, <2>1, BeforeOpening
    <3>2. index[x] < indices[Depth(x)]
      BY <1>1, <1>2, <2>1 DEF CallInv
    <3>3. QED
      BY <1>4, <2>1, <3>1, <3>2 DEF Depth
  <2>2. CASE y # n
    <3>1. Open[y] < pos
      BY <1>5, <2>2
    <3>2. x # n
      <4>1. Open[x] \in Nat /\ Open[y] \in Nat
        BY Positions
      <4>2. QED
        BY <1>1, <1>2, <3>1, <4>1
    <3>3. index'[x] = index[x] /\ index'[y] = index[y]
      BY <1>1, <1>7, <2>2, <3>2
    <3>4. QED
      BY <1>1, <3>1, <3>3 DEF NumberInv
  <2>3. QED
    BY <2>1, <2>2
<1>10. RisesInv'
  <2>1. ASSUME NEW t \in Nodes PROVE Paired(contexts'[t], TreeOrder)
    <3>1. Paired(contexts[t], TreeOrder) /\ contexts[t] \in Seq(Nodes)
      BY <1>1, <1>7 DEF RisesInv
    <3>2. CASE own /\ t = up
      <4>1. \A k \in 1..Len(contexts[t]) : <<contexts[t][k], n>> \in TreeOrder
        <5>1. \A k \in 1..Len(contexts[t]) : contexts[t][k] \in Nodes /\ Open[contexts[t][k]] < pos
          BY <1>1 DEF Tree, Contexts
        <5>2. QED
          BY <1>1, <5>1 DEF TreeOrder
      <4>2. contexts'[t] = Append(contexts[t], n)
        BY <1>1, <1>7, <3>2
      <4>3. QED
        BY <3>1, <4>1, <4>2, AppendPaired
    <3>3. CASE ~own \/ t # up
      BY <1>1, <1>7, <3>1, <3>3
    <3>4. QED
      BY <3>2, <3>3
  <2>2. ASSUME NEW t \in Nodes PROVE Paired(children'[t], TreeOrder)
    <3>1. Paired(children[t], TreeOrder) /\ children[t] \in Seq(Nodes)
      BY <1>1, <1>7 DEF RisesInv
    <3>2. CASE ~own /\ t = s
      <4>1. \A k \in 1..Len(children[t]) : <<children[t][k], n>> \in TreeOrder
        <5>1. \A k \in 1..Len(children[t]) : children[t][k] \in Nodes /\ Open[children[t][k]] < pos
          BY <1>1 DEF Tree
        <5>2. QED
          BY <1>1, <5>1 DEF TreeOrder
      <4>2. children'[t] = Append(children[t], n)
        BY <1>1, <1>7, <3>2
      <4>3. QED
        BY <3>1, <4>1, <4>2, AppendPaired
    <3>3. CASE own \/ t # s
      BY <1>1, <1>7, <3>1, <3>3
    <3>4. QED
      BY <3>2, <3>3
  <2>3. QED
    BY <2>1, <2>2 DEF RisesInv
<1>11. QED
  BY <1>6, <1>8, <1>9, <1>10 DEF ListInv

\* The lists are in tree order, whatever the parser does.
LEMMA ListStep == TreeInv /\ ListInv /\ [Next]_vars => ListInv'
<1> SUFFICES ASSUME TreeInv, ListInv, [Next]_vars PROVE ListInv'
  OBVIOUS
<1>1. /\ TypeInv /\ CallInv /\ HomeInv /\ NumberInv /\ RisesInv
  BY DEF TreeInv, ListInv
<1>2. ASSUME UNCHANGED <<style, index, parent, contexts, children>>, CallInv',
             \A x \in Nodes : Open[x] < pos' <=> Open[x] < pos
      PROVE  ListInv'
  <2>1. Contexts(style, pos') = Contexts(style, pos)
    BY <1>2 DEF Contexts
  <2>2. HomeInv' /\ RisesInv'
    BY <1>1, <1>2, <2>1, AboveSame DEF HomeInv, RisesInv
  <2>3. NumberInv'
    BY <1>1, <1>2 DEF NumberInv
  <2>4. QED
    BY <1>2, <2>2, <2>3 DEF ListInv
<1>3. ASSUME NEW n \in Nodes, Enter(n) PROVE ListInv'
  BY <1>3, ListEnter
<1>4. ASSUME NEW n \in Nodes, Skip(n) PROVE ListInv'
  <2>1. /\ pos = Open[n] /\ ~style[n].visible /\ pos' = Close[n] + 1 /\ Parsing
        /\ index' = [index EXCEPT ![n] = Last(indices)]
        /\ UNCHANGED <<style, parent, contexts, children>>
    BY <1>4 DEF Skip
  <2>2. /\ pos \in Nat /\ pos <= End /\ Around(pos) = Ancestors(n) /\ index \in [Nodes -> Nat]
        /\ Last(indices) = indices[Depth(n)]
    BY <1>1, <2>1, LastCall DEF CallInv, Last
  <2>3. ASSUME NEW x \in Nodes, \A z \in Ancestors(x) : style[z].visible, Open[x] < pos', x # n
        PROVE  Open[x] < pos
    <3>1. /\ Open[x] \in Nat /\ Open[n] \in Nat /\ Close[n] \in Nat
          /\ Open[x] # Open[n] /\ Open[x] # Close[n]
      BY <2>3, Positions, PositionsDiffer
    <3>2. Open[n] < Open[x] /\ Open[x] < Close[n] => n \in Ancestors(x)
      BY Positions DEF Ancestors
    <3>3. QED
      BY <2>1, <2>3, <3>1, <3>2
  <2>4. NumberInv'
    <3> SUFFICES ASSUME NEW x \in Nodes, NEW y \in Nodes, x # Root, Open[x] < Open[y],
                        Open[y] < pos', Ancestors(x) = Ancestors(y),
                        \A z \in Ancestors(y) : style[z].visible
                 PROVE  index'[x] < index'[y]
      BY <2>1 DEF NumberInv
    <3>1. CASE y = n
      <4>1. x # n /\ index'[n] = Last(indices) /\ index'[x] = index[x]
        BY <2>1, <2>2, <3>1, BeforeOpening
      <4>2. index[x] < indices[Depth(x)]
        BY <1>1, <2>1, <2>2, <3>1 DEF CallInv
      <4>3. QED
        BY <2>2, <3>1, <4>1, <4>2 DEF Depth
    <3>2. CASE y # n
      <4>1. Open[y] < pos
        BY <2>3, <3>2
      <4>2. x # n
        <5>1. Open[x] \in Nat /\ Open[y] \in Nat
          BY Positions
        <5>2. QED
          BY <2>1, <2>2, <4>1, <5>1
      <4>3. index'[x] = index[x] /\ index'[y] = index[y]
        BY <2>1, <2>2, <3>2, <4>2
      <4>4. QED
        BY <1>1, <4>1, <4>3 DEF NumberInv
    <3>3. QED
      BY <3>1, <3>2
  <2>5. Contexts(style, pos') = Contexts(style, pos)
    <3>1. ASSUME NEW x \in Nodes, Visible(style, x) PROVE Open[x] < pos' <=> Open[x] < pos
      <4>1. /\ Open[x] \in Nat /\ Open[n] \in Nat /\ Close[n] \in Nat /\ Open[n] < Close[n]
        BY Positions
      <4>2. Open[x] < pos' => Open[x] < pos
        BY <2>1, <3>1, InvisibleInside
      <4>3. QED
        BY <2>1, <4>1, <4>2
    <3>2. QED
      BY <3>1 DEF Contexts
  <2>6. HomeInv' /\ RisesInv'
    BY <1>1, <2>1, <2>5, AboveSame DEF HomeInv, RisesInv
  <2>7. CallInv'
    BY <1>1, <1>4, CallSkip
  <2>8. QED
    BY <2>4, <2>6, <2>7 DEF ListInv
<1>5. ASSUME NEW n \in Nodes, Leave(n) PROVE ListInv'
  <2>1. /\ pos = Close[n] /\ pos' = pos + 1 /\ pos \in Nat
        /\ UNCHANGED <<style, index, parent, contexts, children>>
    BY <1>1, <1>5 DEF Leave, TypeInv
  <2>2. ASSUME NEW x \in Nodes PROVE Open[x] < pos' <=> Open[x] < pos
    <3>1. Open[x] \in Nat /\ Open[x] # Close[n]
      BY Positions, PositionsDiffer
    <3>2. QED
      BY <2>1, <3>1
  <2>3. CallInv'
    BY <1>1, <1>5, CallLeave
  <2>4. QED
    BY <1>2, <2>1, <2>2, <2>3
<1>6. CASE Begin
  <2>1. /\ pos = End /\ pos' = End + 1 /\ End \in Nat
        /\ UNCHANGED <<style, indices, index, parent, contexts, children>>
    BY <1>6, RootIsAround DEF Begin
  <2>2. ASSUME NEW x \in Nodes PROVE Open[x] < pos' <=> Open[x] < pos
    BY <2>1, Positions, RootIsAround
  <2>3. CallInv'
    <3>1. ~(pos' <= End)
      BY <2>1
    <3>2. QED
      BY <1>1, <2>1, <3>1 DEF CallInv
  <2>4. QED
    BY <1>2, <2>1, <2>2, <2>3
<1>7. CASE renderStack \/ Restore \/ renderNodePart \/ renderNode \/ UNCHANGED vars
  <2>1. UNCHANGED <<style, pos, indices, path, index, parent, contexts, children>>
    BY <1>7 DEF renderStack, Restore, renderNodePart, renderNode, vars, parseVars
  <2>2. CallInv'
    BY <1>1, <2>1 DEF CallInv
  <2>3. QED
    BY <1>2, <2>1, <2>2
<1>8. QED
  BY <1>3, <1>4, <1>5, <1>6, <1>7 DEF Next

-----------------------------------------------------------------------------
(***************************************************************************)
(* Places in the painting order.                                            *)
(***************************************************************************)
Triples == Int \X Int \X Int
RankLess(x, y) == \E k \in 1..3 : x[k] < y[k] /\ \A l \in 1..(k - 1) : x[l] = y[l]

\* The order of triples, spelled out; it is strict.
LEMMA TripleLess ==
  ASSUME NEW x \in Triples, NEW y \in Triples
  PROVE  /\ RankLess(x, y) <=> \/ x[1] < y[1]
                               \/ x[1] = y[1] /\ x[2] < y[2]
                               \/ x[1] = y[1] /\ x[2] = y[2] /\ x[3] < y[3]
         /\ RankLess(x, y) => ~RankLess(y, x) /\ x # y
<1>1. /\ x[1] \in Int /\ x[2] \in Int /\ x[3] \in Int
      /\ y[1] \in Int /\ y[2] \in Int /\ y[3] \in Int
  BY DEF Triples
<1>2. ASSUME NEW a, NEW b
      PROVE  RankLess(a, b) <=> \/ a[1] < b[1]
                                \/ a[1] = b[1] /\ a[2] < b[2]
                                \/ a[1] = b[1] /\ a[2] = b[2] /\ a[3] < b[3]
  <2>1. 1..3 = {1, 2, 3} /\ 1..(1 - 1) = {} /\ 1..(2 - 1) = {1} /\ 1..(3 - 1) = {1, 2}
    OBVIOUS
  <2> DEFINE At(k) == a[k] < b[k] /\ \A l \in 1..(k - 1) : a[l] = b[l]
  <2>2. RankLess(a, b) <=> At(1) \/ At(2) \/ At(3)
    <3> HIDE DEF At
    <3>1. RankLess(a, b) <=> \E k \in 1..3 : At(k)
      BY DEF RankLess, At
    <3>2. QED
      BY <2>1, <3>1
  <2>3. /\ At(1) <=> a[1] < b[1]
        /\ At(2) <=> a[2] < b[2] /\ a[1] = b[1]
        /\ At(3) <=> a[3] < b[3] /\ a[1] = b[1] /\ a[2] = b[2]
    BY <2>1, Zenon
  <2> HIDE DEF At
  <2>4. QED
    BY <2>2, <2>3
<1>3. QED
  BY <1>1, <1>2

\* Keys are compared at the first place where they differ.
LEMMA LessIs ==
  ASSUME NEW a \in Seq(Triples), NEW b \in Seq(Triples)
  PROVE  Less(a, b) <=> \E i \in 1..Len(a) : /\ i \in 1..Len(b) /\ RankLess(a[i], b[i])
                                              /\ \A j \in 1..(i - 1) : a[j] = b[j]
<1>1. DOMAIN a = 1..Len(a) /\ DOMAIN b = 1..Len(b)
  OBVIOUS
<1>2. QED
  BY <1>1, Zenon DEF Less, RankLess

\* Of two keys at most one is before the other.
LEMMA LessAsym ==
  ASSUME NEW a \in Seq(Triples), NEW b \in Seq(Triples), Less(a, b)
  PROVE  ~Less(b, a)
<1> SUFFICES ASSUME Less(b, a) PROVE FALSE
  OBVIOUS
<1>1. PICK i \in 1..Len(a) : /\ i \in 1..Len(b) /\ RankLess(a[i], b[i])
                             /\ \A j \in 1..(i - 1) : a[j] = b[j]
  BY LessIs
<1>2. PICK k \in 1..Len(b) : /\ k \in 1..Len(a) /\ RankLess(b[k], a[k])
                             /\ \A j \in 1..(k - 1) : b[j] = a[j]
  BY LessIs
<1>3. a[i] \in Triples /\ b[i] \in Triples /\ a[k] \in Triples /\ b[k] \in Triples
  BY <1>1, <1>2
<1>4. a[i] # b[i] /\ b[k] # a[k] /\ ~RankLess(b[i], a[i])
  BY <1>1, <1>2, <1>3, TripleLess
<1>5. i # k
  BY <1>2, <1>4
<1>6. ~(i < k) /\ ~(k < i)
  <2>1. i < k => i \in 1..(k - 1)
    BY <1>1, <1>2
  <2>2. k < i => k \in 1..(i - 1)
    BY <1>1, <1>2
  <2>3. QED
    BY <1>1, <1>2, <1>4, <2>1, <2>2
<1>7. QED
  BY <1>1, <1>2, <1>5, <1>6

\* What is inside the later is later, and what is inside the earlier is earlier.
LEMMA LessExtend ==
  ASSUME NEW a \in Seq(Triples), NEW b \in Seq(Triples), NEW x \in Triples, Less(a, b)
  PROVE  Less(Append(a, x), b) /\ Less(a, Append(b, x))
<1>1. PICK i \in 1..Len(a) : /\ i \in 1..Len(b) /\ RankLess(a[i], b[i])
                             /\ \A j \in 1..(i - 1) : a[j] = b[j]
  BY LessIs
<1>2. ASSUME NEW c \in Seq(Triples)
      PROVE  /\ Append(c, x) \in Seq(Triples)
             /\ \A j \in 1..Len(c) : j \in 1..Len(Append(c, x)) /\ Append(c, x)[j] = c[j]
  OBVIOUS
<1>3. \A j \in 1..(i - 1) : j \in 1..Len(a) /\ j \in 1..Len(b)
  BY <1>1
<1> DEFINE p == Append(a, x)
           q == Append(b, x)
<1>4. /\ p \in Seq(Triples) /\ \A j \in 1..Len(a) : j \in 1..Len(p) /\ p[j] = a[j]
      /\ q \in Seq(Triples) /\ \A j \in 1..Len(b) : j \in 1..Len(q) /\ q[j] = b[j]
  BY <1>2
<1> HIDE DEF p, q
<1>5. Less(p, b)
  <2>1. i \in 1..Len(p) /\ RankLess(p[i], b[i]) /\ \A j \in 1..(i - 1) : p[j] = b[j]
    BY <1>1, <1>3, <1>4
  <2>2. QED
    BY <1>1, <1>4, <2>1, LessIs
<1>6. Less(a, q)
  <2>1. i \in 1..Len(q) /\ RankLess(a[i], q[i]) /\ \A j \in 1..(i - 1) : a[j] = q[j]
    BY <1>1, <1>3, <1>4
  <2>2. QED
    BY <1>1, <1>4, <2>1, LessIs
<1>7. QED
  BY <1>5, <1>6 DEF p, q

\* Keys that differ in their last triple.
LEMMA LessAt ==
  ASSUME NEW a \in Seq(Triples), NEW x \in Triples, NEW y \in Triples, RankLess(x, y)
  PROVE  Less(Append(a, x), Append(a, y))
<1> DEFINE p == Append(a, x)
           q == Append(a, y)
<1>1. /\ p \in Seq(Triples) /\ Len(p) = Len(a) + 1 /\ p[Len(a) + 1] = x /\ Len(a) \in Nat
      /\ \A j \in 1..Len(a) : p[j] = a[j]
      /\ q \in Seq(Triples) /\ Len(q) = Len(a) + 1 /\ q[Len(a) + 1] = y
      /\ \A j \in 1..Len(a) : q[j] = a[j]
  OBVIOUS
<1> HIDE DEF p, q
<1>2. /\ Len(a) + 1 \in 1..Len(p) /\ Len(a) + 1 \in 1..Len(q)
      /\ \A j \in 1..(Len(a) + 1 - 1) : p[j] = q[j]
  BY <1>1
<1>3. RankLess(p[Len(a) + 1], q[Len(a) + 1])
  BY <1>1
<1>4. Less(p, q)
  BY <1>1, <1>2, <1>3, LessIs
<1>5. QED
  BY <1>4 DEF p, q

\* The steps of CSS are numbers.
LEMMA StepIs ==
  ASSUME NEW n \in Nodes
  PROVE  /\ Step(n) \in {2, 3, 4, 5, 6, 8}
         /\ IsContext(style, n) => /\ Level(n) = "negative" => Step(n) = 2
                                   /\ Level(n) = "float" => Step(n) = 4
                                   /\ Level(n) = "inline" => Step(n) = 5
                                   /\ Level(n) = "zero" => Step(n) = 6
                                   /\ Level(n) = "positive" => Step(n) = 8
         /\ ~IsContext(style, n) => Step(n) = IF style[n].inline THEN 5 ELSE 3
<1> DEFINE S == CASE Level(n) = "negative" -> 2 [] Level(n) = "float" -> 4
                  [] Level(n) = "inline" -> 5 [] Level(n) = "zero" -> 6 [] OTHER -> 8
<1>1. Step(n) = IF IsContext(style, n) THEN S ELSE IF style[n].inline THEN 5 ELSE 3
  BY StyleNames DEF Step
<1>2. /\ Level(n) = "negative" => S = 2
      /\ Level(n) = "float" => S = 4
      /\ Level(n) = "inline" => S = 5
      /\ Level(n) = "zero" => S = 6
      /\ Level(n) = "positive" => S = 8
  OBVIOUS
<1> HIDE DEF S
<1>3. Level(n) \in {"negative", "zero", "positive", "float", "inline"}
  BY LevelIs
<1>4. QED
  BY <1>1, <1>2, <1>3

\* Ranks are triples.
LEMMA RankIs ==
  ASSUME TypeInv, NEW n \in Nodes
  PROVE  /\ Rank(n) \in Triples /\ Rank(n) = <<Step(n), style[n].z, Open[n]>>
         /\ style[n] \in StyleRecords
         /\ ~style[n].positioned => style[n].z = 0
         /\ \A part : PartRank(part) \in Triples
<1>1. style[n] \in Styles[n]
  BY DEF TypeInv
<1>2. style[n] \in StyleRecords /\ (~style[n].positioned => style[n].z = 0)
  BY <1>1, StylesAssumption
<1>3. style[n].z \in Int
  BY <1>2 DEF StyleRecords
<1>4. Step(n) \in Int
  BY StepIs
<1>5. Open[n] \in Int
  BY Positions
<1>6. \A part : PartRank(part) \in Triples
  BY DEF PartRank, Triples
<1>7. QED
  BY <1>2, <1>3, <1>4, <1>5, <1>6 DEF Rank, Triples

\* The key of n without its parts.
Place(n) == [i \in 1..Len(Chain(n)) |-> Rank(Chain(n)[i])]

\* The place of an element is that of the context it is in, and its own rank.
LEMMA PlaceIs ==
  ASSUME TypeInv, NEW n \in Nodes
  PROVE  /\ Place(n) \in Seq(Triples)
         /\ n # Root => Place(n) = Append(Place(ContextAbove(n)), Rank(n))
<1> DEFINE Map(c) == [i \in 1..Len(c) |-> Rank(c[i])]
<1>1. \A m \in Nodes : Rank(m) \in Triples
  BY RankIs
<1>2. ASSUME NEW c \in Seq(Nodes) PROVE Map(c) \in Seq(Triples) /\ Len(Map(c)) = Len(c)
  <2>1. Len(c) \in Nat /\ \A i \in 1..Len(c) : c[i] \in Nodes
    OBVIOUS
  <2>2. QED
    BY <1>1, <2>1
<1>3. Chain(n) \in Seq(Nodes) /\ Place(n) = Map(Chain(n))
  BY ChainIs DEF Place
<1>4. ASSUME n # Root PROVE Place(n) = Append(Place(ContextAbove(n)), Rank(n))
  <2> DEFINE c == Chain(ContextAbove(n))
             d == Chain(n)
  <2>1. c \in Seq(Nodes) /\ d = Append(c, n) /\ Place(ContextAbove(n)) = Map(c)
    BY <1>4, AboveIs, ChainIs DEF Place
  <2> HIDE DEF c
  <2>2. /\ Len(d) = Len(c) + 1 /\ d[Len(c) + 1] = n /\ \A i \in 1..Len(c) : d[i] = c[i]
        /\ d \in Seq(Nodes) /\ Len(c) \in Nat
    BY <2>1
  <2>3. /\ Map(c) \in Seq(Triples) /\ Len(Map(c)) = Len(c)
        /\ Map(d) \in Seq(Triples) /\ Len(Map(d)) = Len(d)
    BY <1>2, <2>1, <2>2
  <2> HIDE DEF d
  <2>4. /\ \A i \in 1..Len(c) : Map(d)[i] = Map(c)[i]
        /\ Map(d)[Len(c) + 1] = Rank(n)
    BY <2>2
  <2> DEFINE e == Append(Map(c), Rank(n))
             g == Map(d)
  <2>5. /\ e \in Seq(Triples) /\ Len(e) = Len(c) + 1 /\ e[Len(c) + 1] = Rank(n)
        /\ \A i \in 1..Len(c) : e[i] = Map(c)[i]
    BY <1>1, <2>2, <2>3
  <2>6. g \in Seq(Triples) /\ Len(g) = Len(e) /\ \A i \in 1..Len(g) : g[i] = e[i]
    BY <2>2, <2>3, <2>4, <2>5
  <2> HIDE DEF e, g
  <2>7. g = e
    BY <2>5, <2>6, SeqEqual
  <2>8. QED
    BY <1>3, <2>1, <2>7 DEF d, e, g
<1>5. QED
  BY <1>2, <1>3, <1>4

\* The key of a part is the place of its element and the part.
LEMMA KeyIs ==
  ASSUME TypeInv, NEW d, d.node \in Nodes
  PROVE  Key(d) = Append(Place(d.node), PartRank(d.part)) /\ Key(d) \in Seq(Triples)
<1>1. Place(d.node) \in Seq(Triples) /\ PartRank(d.part) \in Triples
  BY PlaceIs, RankIs
<1>2. Key(d) = Place(d.node) \o <<PartRank(d.part)>>
  BY DEF Key, Place
<1>3. QED
  BY <1>1, <1>2

-----------------------------------------------------------------------------
(***************************************************************************)
(* The plan follows the painting order.                                     *)
(***************************************************************************)
\* Where a call of the plan of s comes among the others of s.
RankOf(t) == IF t.op \in {"background", "content"} THEN PartRank(t.op) ELSE Rank(t.node)
CssOrder == {d \in TaskRecords \X TaskRecords : RankLess(RankOf(d[1]), RankOf(d[2]))}
\* The documents PaintOrderIsCSS is about.
Untied == \A m, n \in Nodes : Rivals(m, n) => Ancestors(m) = Ancestors(n)

\* The calls made of a list are in the order of the list.
LEMMA TasksPaired ==
  ASSUME NEW S, NEW q \in Seq(S), NEW op, NEW Q, NEW P, Paired(q, Q),
         \A x, y \in S : <<x, y>> \in Q => <<[op |-> op, node |-> x], [op |-> op, node |-> y]>> \in P
  PROVE  Paired(Tasks(op, q), P)
<1> DEFINE r == Tasks(op, q)
<1>1. /\ DOMAIN q = 1..Len(q) /\ Len(q) \in Nat
      /\ \A i \in 1..Len(q) : q[i] \in S
  OBVIOUS
<1>2. Len(r) = Len(q) /\ \A i \in 1..Len(q) : r[i] = [op |-> op, node |-> q[i]]
  BY <1>1 DEF Tasks
<1> HIDE DEF r
<1>3. \A i, j \in 1..Len(r) : i < j => <<r[i], r[j]>> \in P
  BY <1>1, <1>2 DEF Paired
<1>4. QED
  BY <1>3 DEF Paired, r

\* A context of a list and an element of a list.
LEMMA InnerIs ==
  ASSUME TreeInv, NEW s \in Nodes, NEW n \in Inner(style, pos, parent, s)
  PROVE  /\ n \in Nodes /\ n # Root /\ IsContext(style, n) /\ Visible(style, n) /\ Open[n] < pos
         /\ parent[n] = s /\ n \in Contexts(style, pos)
BY DEF Inner, Contexts

\* A child that is listed is no context itself.
LEMMA KidIs ==
  ASSUME TreeInv, NEW s \in Nodes, NEW n \in Kids(s)
  PROVE  n \in Nodes /\ ~IsContext(style, n) /\ Visible(style, n)
BY DEF Kids, TreeInv, Tree

\* Levels of contexts, and what z is on them.
LEMMA LevelTells ==
  ASSUME TypeInv, NEW n \in Nodes
  PROVE  /\ Level(n) \in {"float", "inline", "zero"} => style[n].z = 0
         /\ Level(n) \in {"negative", "positive"} => style[n].z # 0
         /\ Level(n) = "inline" /\ IsContext(style, n) /\ n # Root => style[n].body
<1>1. style[n] \in StyleRecords /\ (~style[n].positioned => style[n].z = 0)
  BY RankIs
<1>2. style[n].z \in Int
  BY <1>1 DEF StyleRecords
<1>3. QED
  BY <1>1, <1>2 DEF Level, IsContext, Real

\* Nothing that is shown comes before a BODY but the root.
LEMMA BodyFirst ==
  ASSUME TypeInv, NEW b \in Nodes, style[b].body, NEW n \in Nodes, n # Root, n # b, Visible(style, n)
  PROVE  Open[b] < Open[n]
<1> SUFFICES ASSUME ~(Open[b] < Open[n]) PROVE FALSE
  OBVIOUS
<1>1. Open[n] < Open[b]
  <2>1. Open[b] \in Nat /\ Open[n] \in Nat /\ Open[b] # Open[n]
    BY Positions, PositionsDiffer
  <2>2. QED
    BY <2>1
<1>2. \E x \in Styles[b] : x.body
  BY DEF TypeInv
<1>3. PICK h \in Nodes : /\ Open[h] <= Open[n] /\ Close[n] <= Close[h]
                         /\ \A x \in Styles[h] : ~x.visible
  BY <1>1, <1>2, BodyAssumption
<1>4. ~style[h].visible
  BY <1>3 DEF TypeInv
<1>5. h \in Self(n)
  <2>1. CASE h = n
    BY <2>1 DEF Self
  <2>2. CASE h # n
    <3>1. /\ Open[h] \in Nat /\ Open[n] \in Nat /\ Close[h] \in Nat /\ Close[n] \in Nat
          /\ Open[h] # Open[n] /\ Close[h] # Close[n]
      BY <2>2, Positions, PositionsDiffer
    <3>2. QED
      BY <1>3, <3>1 DEF Self, Ancestors
  <2>3. QED
    BY <2>1, <2>2
<1>6. QED
  BY <1>4, <1>5 DEF Visible

Slots == <<1, 2, 3, 3, 4, 5, 5, 6, 8>>
\* The step of a call of the plan is that of its part.
LEMMA SlotIs ==
  ASSUME TreeInv, OnceInv, NEW s \in Nodes, NEW t \in Planned(s)
  PROVE  /\ t \in TaskRecords /\ RankOf(t) \in Triples
         /\ Turn(t) \in 1..9 /\ RankOf(t)[1] = Slots[Turn(t)]
         /\ Turn(t) = 3 => RankOf(t) = <<3, 0, 0>>
         /\ Turn(t) = 4 => RankOf(t) = <<3, 0, Open[t.node]>> /\ 1 <= Open[t.node]
         /\ Turn(t) = 6 => /\ RankOf(t) = <<5, 0, Open[t.node]>>
                           /\ t.node \in Inner(style, pos, parent, s) /\ style[t.node].body
         /\ Turn(t) = 7 => /\ RankOf(t) = <<5, 0, Open[t.node]>>
                           /\ t.node \in Kids(s)
<1>1. TypeInv
  BY DEF TreeInv
<1>2. CASE t \in On("background", {s})
  <2>1. t = [op |-> "background", node |-> s]
    BY <1>2 DEF On
  <2>2. t \in TaskRecords /\ RankOf(t) = <<1, 0, 0>> /\ Turn(t) = 1
    BY <2>1 DEF TaskRecords, RankOf, PartRank, Turn
  <2>3. QED
    BY <2>2 DEF Triples, Slots
<1>3. CASE t \in On("content", {s})
  <2>1. t = [op |-> "content", node |-> s]
    BY <1>3 DEF On
  <2>2. t \in TaskRecords /\ RankOf(t) = <<3, 0, 0>> /\ Turn(t) = 3
    BY <2>1 DEF TaskRecords, RankOf, PartRank, Turn
  <2>3. QED
    BY <2>2 DEF Triples, Slots
<1>4. CASE t \in On("stack", Inner(style, pos, parent, s))
  <2>1. PICK n \in Inner(style, pos, parent, s) : t = [op |-> "stack", node |-> n]
    BY <1>4 DEF On
  <2>2. /\ n \in Nodes /\ n # Root /\ IsContext(style, n)
    BY InnerIs
  <2>3. t \in TaskRecords /\ RankOf(t) = Rank(n) /\ t.op = "stack" /\ t.node = n
    BY <2>1, <2>2 DEF TaskRecords, RankOf
  <2>4. Rank(n) \in Triples /\ Rank(n) = <<Step(n), style[n].z, Open[n]>>
    BY <1>1, <2>2, RankIs
  <2>5. Level(n) \in {"negative", "zero", "positive", "float", "inline"}
    BY LevelIs
  <2>6. Turn(t) \in {2, 5, 6, 8, 9} /\ Step(n) = Slots[Turn(t)] /\ (Turn(t) = 6 => Level(n) = "inline")
    BY <2>2, <2>3, <2>5, StepIs DEF Turn, Slots
  <2>7. Turn(t) = 6 => style[n].z = 0 /\ style[n].body
    BY <1>1, <2>2, <2>6, LevelTells
  <2>8. Turn(t) = 6 => Step(n) = 5
    BY <2>6 DEF Slots
  <2>9. QED
    BY <2>1, <2>3, <2>4, <2>6, <2>7, <2>8
<1>5. CASE t \in On("node", Kids(s))
  <2>1. PICK n \in Kids(s) : t = [op |-> "node", node |-> n]
    BY <1>5 DEF On
  <2>2. n \in Nodes /\ ~IsContext(style, n)
    BY KidIs
  <2>3. t \in TaskRecords /\ RankOf(t) = Rank(n) /\ t.op = "node" /\ t.node = n
    BY <2>1, <2>2 DEF TaskRecords, RankOf
  <2>4. Rank(n) \in Triples /\ Rank(n) = <<Step(n), style[n].z, Open[n]>> /\ style[n].z = 0
    BY <1>1, <2>2, RankIs DEF IsContext
  <2>5. Step(n) = IF style[n].inline THEN 5 ELSE 3
    BY <2>2, StepIs
  <2>6. Turn(t) = IF style[n].inline THEN 7 ELSE 4
    BY <2>3 DEF Turn
  <2>7. 1 <= Open[n]
    BY <2>2, RootIsAround
  <2>8. Step(n) = Slots[Turn(t)]
    BY <2>5, <2>6 DEF Slots
  <2>9. QED
    BY <2>1, <2>3, <2>4, <2>5, <2>6, <2>7, <2>8
<1>6. QED
  BY <1>2, <1>3, <1>4, <1>5 DEF Planned

\* A call of an earlier part of the plan comes first.
LEMMA TurnsFollow ==
  ASSUME TreeInv, OnceInv, NEW s \in Nodes, NEW t \in Planned(s), NEW u \in Planned(s),
         Turn(t) < Turn(u)
  PROVE  <<t, u>> \in CssOrder
<1>1. /\ t \in TaskRecords /\ u \in TaskRecords
      /\ RankOf(t) \in Triples /\ RankOf(u) \in Triples
      /\ Turn(t) \in 1..9 /\ Turn(u) \in 1..9
      /\ RankOf(t)[1] = Slots[Turn(t)] /\ RankOf(u)[1] = Slots[Turn(u)]
  BY SlotIs
<1>2. CASE Turn(t) = 3 /\ Turn(u) = 4
  <2>1. RankOf(t) = <<3, 0, 0>> /\ RankOf(u) = <<3, 0, Open[u.node]>> /\ 1 <= Open[u.node]
    BY <1>2, SlotIs
  <2>2. Open[u.node] \in Int
    BY <1>1, <2>1, Positions DEF TaskRecords
  <2>3. RankLess(RankOf(t), RankOf(u))
    BY <1>1, <2>1, <2>2, TripleLess
  <2>4. QED
    BY <1>1, <2>3 DEF CssOrder
<1>3. CASE Turn(t) = 6 /\ Turn(u) = 7
  <2>1. /\ RankOf(t) = <<5, 0, Open[t.node]>> /\ RankOf(u) = <<5, 0, Open[u.node]>>
        /\ t.node \in Inner(style, pos, parent, s) /\ style[t.node].body /\ u.node \in Kids(s)
    BY <1>3, SlotIs
  <2>2. /\ t.node \in Nodes /\ IsContext(style, t.node)
        /\ u.node \in Nodes /\ ~IsContext(style, u.node) /\ Visible(style, u.node)
    BY <2>1, InnerIs, KidIs
  <2>3. u.node # Root
    BY <2>2 DEF IsContext, Real
  <2>4. Open[t.node] < Open[u.node]
    BY <2>1, <2>2, <2>3, BodyFirst DEF TreeInv
  <2>5. RankLess(RankOf(t), RankOf(u))
    BY <1>1, <2>1, <2>4, TripleLess
  <2>6. QED
    BY <1>1, <2>5 DEF CssOrder
<1>4. CASE ~(Turn(t) = 3 /\ Turn(u) = 4) /\ ~(Turn(t) = 6 /\ Turn(u) = 7)
  <2>1. \A i, j \in 1..9 : i < j /\ ~(i = 3 /\ j = 4) /\ ~(i = 6 /\ j = 7) => Slots[i] < Slots[j]
    <3>1. /\ Slots[1] = 1 /\ Slots[2] = 2 /\ Slots[3] = 3 /\ Slots[4] = 3 /\ Slots[5] = 4
          /\ Slots[6] = 5 /\ Slots[7] = 5 /\ Slots[8] = 6 /\ Slots[9] = 8
      BY DEF Slots
    <3>2. \A i \in 1..9 : i = 1 \/ i = 2 \/ i = 3 \/ i = 4 \/ i = 5 \/ i = 6 \/ i = 7 \/ i = 8 \/ i = 9
      OBVIOUS
    <3>3. QED
      BY <3>1, <3>2
  <2>2. RankOf(t)[1] < RankOf(u)[1]
    BY <1>1, <1>4, <2>1
  <2>3. RankLess(RankOf(t), RankOf(u))
    BY <1>1, <2>2, TripleLess
  <2>4. QED
    BY <1>1, <2>3 DEF CssOrder
<1>5. QED
  BY <1>2, <1>3, <1>4

\* In a list that is not sorted the tree decides.
LEMMA LevelRises ==
  ASSUME TreeInv, OnceInv, ListInv, NEW s \in Nodes, NEW l \in {"float", "inline", "zero"}
  PROVE  Paired(Tasks("stack", splitStackingContexts(s, l)), CssOrder)
<1> DEFINE q == splitStackingContexts(s, l)
           S == Inner(style, pos, parent, s) \cap AtLevel(l)
<1>1. TypeInv /\ contexts[s] \in Seq(Nodes) /\ Paired(contexts[s], TreeOrder)
  BY DEF TreeInv, TypeInv, ListInv, RisesInv
<1>2. Paired(q, TreeOrder)
  BY <1>1, SplitIs DEF splitStackingContexts
<1>3. q \in Seq(S)
  <2>1. TreeInv /\ OnceInv
    OBVIOUS
  <2>2. Lists(contexts[s], Inner(style, pos, parent, s)) /\ Inner(style, pos, parent, s) \in SUBSET Nodes
    BY DEF OnceInv, Inner, Contexts
  <2>3. Lists(q, S)
    BY <2>2, SplitLists DEF splitStackingContexts, AtLevel
  <2>4. QED
    BY <2>3 DEF Lists
<1>4. ASSUME NEW x \in S, NEW y \in S, <<x, y>> \in TreeOrder
      PROVE  <<[op |-> "stack", node |-> x], [op |-> "stack", node |-> y]>> \in CssOrder
  <2>1. /\ x \in Nodes /\ IsContext(style, x) /\ Level(x) = l
        /\ y \in Nodes /\ IsContext(style, y) /\ Level(y) = l
    BY InnerIs DEF AtLevel
  <2>2. Open[x] < Open[y]
    BY <1>4 DEF TreeOrder
  <2>3. Step(x) = Step(y) /\ style[x].z = 0 /\ style[y].z = 0
    BY <1>1, <2>1, StepIs, LevelTells
  <2>4. /\ Rank(x) \in Triples /\ Rank(x) = <<Step(x), style[x].z, Open[x]>>
        /\ Rank(y) \in Triples /\ Rank(y) = <<Step(y), style[y].z, Open[y]>>
    BY <1>1, <2>1, RankIs
  <2>5. RankLess(Rank(x), Rank(y))
    BY <2>2, <2>3, <2>4, TripleLess
  <2>6. QED
    BY <2>1, <2>5 DEF CssOrder, TaskRecords, RankOf
<1> HIDE DEF q, S
<1>5. Paired(Tasks("stack", q), CssOrder)
  BY <1>2, <1>3, <1>4, TasksPaired
<1>6. QED
  BY <1>5 DEF q

\* The same for the children of a context.
LEMMA KidsRise ==
  ASSUME TreeInv, OnceInv, ListInv, NEW s \in Nodes, NEW b
  PROVE  Paired(Tasks("node", splitDescendants(s, b)), CssOrder)
<1> DEFINE q == splitDescendants(s, b)
           S == Kids(s) \cap Flow(b)
<1>1. TypeInv /\ children[s] \in Seq(Nodes) /\ Paired(children[s], TreeOrder)
  BY DEF TreeInv, TypeInv, ListInv, RisesInv
<1>2. Paired(q, TreeOrder)
  BY <1>1, SplitIs DEF splitDescendants
<1>3. q \in Seq(S)
  <2>1. q = Split(children[s], Flow(b))
    BY DEF splitDescendants, Flow
  <2> HIDE DEF q
  <2>2. /\ q \in Seq(Nodes)
        /\ \A k \in 1..Len(q) : q[k] \in Flow(b) /\ \E i \in 1..Len(children[s]) : q[k] = children[s][i]
    BY <1>1, <2>1, SplitIs
  <2>3. \A k \in 1..Len(q) : q[k] \in S
    BY <2>2 DEF Kids
  <2> HIDE DEF S
  <2>4. QED
    BY <2>2, <2>3
<1>4. ASSUME NEW x \in S, NEW y \in S, <<x, y>> \in TreeOrder
      PROVE  <<[op |-> "node", node |-> x], [op |-> "node", node |-> y]>> \in CssOrder
  <2>1. /\ x \in Nodes /\ ~IsContext(style, x) /\ style[x].inline = b
        /\ y \in Nodes /\ ~IsContext(style, y) /\ style[y].inline = b
    BY KidIs DEF Flow
  <2>2. Open[x] < Open[y]
    BY <1>4 DEF TreeOrder
  <2>3. Step(x) = Step(y)
    BY <2>1, StepIs
  <2>4. /\ Rank(x) \in Triples /\ Rank(x) = <<Step(x), style[x].z, Open[x]>> /\ style[x].z = 0
        /\ Rank(y) \in Triples /\ Rank(y) = <<Step(y), style[y].z, Open[y]>> /\ style[y].z = 0
    BY <1>1, <2>1, RankIs DEF IsContext
  <2>5. RankLess(Rank(x), Rank(y))
    BY <2>2, <2>3, <2>4, TripleLess
  <2>6. QED
    BY <2>1, <2>5 DEF CssOrder, TaskRecords, RankOf
<1> HIDE DEF q, S
<1>5. Paired(Tasks("node", q), CssOrder)
  BY <1>2, <1>3, <1>4, TasksPaired
<1>6. QED
  BY <1>5 DEF q

\* In a sorted list z decides, and then the number among brothers.
LEMMA SortedRises ==
  ASSUME TreeInv, OnceInv, ListInv, Untied, NEW s \in Nodes, NEW l \in {"negative", "positive"},
         NEW q \in Sorted(splitStackingContexts(s, l))
  PROVE  Paired(Tasks("stack", q), CssOrder)
<1> DEFINE S == Inner(style, pos, parent, s) \cap AtLevel(l)
           Q == {d \in Nodes \X Nodes : RankLess(Rank(d[1]), Rank(d[2]))}
<1>1. TypeInv /\ HomeInv /\ NumberInv /\ index \in [Nodes -> Nat]
  BY DEF TreeInv, ListInv, CallInv
<1>2. Lists(q, S) /\ S \in SUBSET Nodes
  <2>1. Lists(contexts[s], Inner(style, pos, parent, s)) /\ Inner(style, pos, parent, s) \in SUBSET Nodes
    BY DEF OnceInv, Inner, Contexts
  <2>2. Lists(splitStackingContexts(s, l), S)
    BY <2>1, SplitLists DEF splitStackingContexts, AtLevel
  <2>3. QED
    BY <2>1, <2>2, SortedLists
<1>3. /\ q \in Seq(S) /\ DOMAIN q = 1..Len(q)
      /\ \A i \in 1..Len(q) : q[i] \in S
      /\ \A i, j \in 1..Len(q) : i # j => q[i] # q[j]
  BY <1>2 DEF Lists
<1>4. \A i, j \in 1..Len(q) : i < j =>
        \/ style[q[i]].z < style[q[j]].z
        \/ style[q[i]].z = style[q[j]].z /\ index[q[i]] <= index[q[j]]
  BY <1>3 DEF Sorted
<1>5. ASSUME NEW i \in 1..Len(q), NEW j \in 1..Len(q), i < j PROVE <<q[i], q[j]>> \in Q
  <2> DEFINE x == q[i]
             y == q[j]
  <2>1. x \in S /\ y \in S /\ x # y
    BY <1>3, <1>5
  <2>2. \/ style[x].z < style[y].z
        \/ style[x].z = style[y].z /\ index[x] <= index[y]
    BY <1>4, <1>5
  <2> HIDE DEF x, y
  <2>3. /\ x \in Nodes /\ IsContext(style, x) /\ Level(x) = l /\ Visible(style, x)
        /\ x # Root /\ x \in Contexts(style, pos) /\ Open[x] < pos /\ parent[x] = s
        /\ y \in Nodes /\ IsContext(style, y) /\ Level(y) = l /\ Visible(style, y)
        /\ y # Root /\ y \in Contexts(style, pos) /\ Open[y] < pos /\ parent[y] = s
    BY <2>1, InnerIs DEF AtLevel
  <2>4. Step(x) = Step(y) /\ style[x].z # 0
    BY <1>1, <2>3, StepIs, LevelTells
  <2>5. /\ Rank(x) \in Triples /\ Rank(x) = <<Step(x), style[x].z, Open[x]>>
        /\ Rank(y) \in Triples /\ Rank(y) = <<Step(y), style[y].z, Open[y]>>
    BY <1>1, <2>3, RankIs
  <2>6. CASE style[x].z < style[y].z
    <3>1. RankLess(Rank(x), Rank(y))
      BY <2>4, <2>5, <2>6, TripleLess
    <3>2. QED
      BY <2>3, <3>1 DEF x, y
  <2>7. CASE style[x].z = style[y].z /\ index[x] <= index[y]
    <3>1. ContextAbove(x) = s /\ ContextAbove(y) = s
      BY <1>1, <2>3 DEF HomeInv
    <3>2. Rivals(x, y)
      BY <2>1, <2>3, <2>4, <2>7, <3>1, StyleNames DEF Rivals
    <3>3. Ancestors(x) = Ancestors(y)
      BY <2>3, <3>2 DEF Untied
    <3>4. \A z \in Ancestors(x) : style[z].visible
      BY <2>3 DEF Visible, Self
    <3>5. ~(Open[y] < Open[x])
      <4>1. Open[y] < Open[x] => index[y] < index[x]
        BY <1>1, <2>3, <3>3, <3>4 DEF NumberInv
      <4>2. index[x] \in Nat /\ index[y] \in Nat
        BY <1>1, <2>3
      <4>3. QED
        BY <2>7, <4>1, <4>2
    <3>6. Open[x] < Open[y]
      <4>1. Open[x] \in Nat /\ Open[y] \in Nat /\ Open[x] # Open[y]
        BY <2>1, <2>3, Positions, PositionsDiffer
      <4>2. QED
        BY <3>5, <4>1
    <3>7. RankLess(Rank(x), Rank(y))
      BY <2>4, <2>5, <2>7, <3>6, TripleLess
    <3>8. QED
      BY <2>3, <3>7 DEF x, y
  <2>8. QED
    BY <2>2, <2>6, <2>7
<1>6. Paired(q, Q)
  BY <1>5 DEF Paired
<1>7. ASSUME NEW x \in S, NEW y \in S, <<x, y>> \in Q
      PROVE  <<[op |-> "stack", node |-> x], [op |-> "stack", node |-> y]>> \in CssOrder
  <2>1. x \in Nodes /\ y \in Nodes /\ RankLess(Rank(x), Rank(y))
    BY <1>2, <1>7
  <2>2. QED
    BY <2>1 DEF CssOrder, TaskRecords, RankOf
<1> HIDE DEF S, Q
<1>8. QED
  BY <1>3, <1>6, <1>7, TasksPaired

\* renderStackContent: each of the seven steps comes after those before it, and in a step
\* z and the tree decide.
LEMMA PlanRises ==
  ASSUME TreeInv, OnceInv, ListInv, Untied, NEW s \in Nodes,
         NEW negative \in Sorted(splitStackingContexts(s, "negative")),
         NEW positive \in Sorted(splitStackingContexts(s, "positive"))
  PROVE  Paired(renderStackContent(s, negative, positive), CssOrder)
<1>1. \A t, u \in Planned(s) : Turn(t) < Turn(u) => <<t, u>> \in CssOrder
  BY TurnsFollow
<1>2. Paired(Tasks("stack", negative), CssOrder) /\ Paired(Tasks("stack", positive), CssOrder)
  BY SortedRises
<1>3. \A l \in {"float", "inline", "zero"} : Paired(Tasks("stack", splitStackingContexts(s, l)), CssOrder)
  BY LevelRises
<1>4. \A b : Paired(Tasks("node", splitDescendants(s, b)), CssOrder)
  BY KidsRise
<1>5. QED
  BY <1>1, <1>2, <1>3, <1>4, PlanInTurn

-----------------------------------------------------------------------------
(***************************************************************************)
(* The painting order.                                                      *)
(***************************************************************************)
\* Where what a call draws comes.
Spot(t) == IF t.op \in {"background", "content"} THEN Append(Place(t.node), PartRank(t.op))
           ELSE Place(t.node)
\* What is drawn comes before what is still to be drawn, and both are in order.
Ordered(a, q) ==
  /\ \A i, j \in 1..Len(a) : i < j /\ a[i].op # "restore" /\ a[j].op # "restore" =>
       Less(Spot(a[i]), Spot(a[j]))
  /\ \A i \in 1..Len(q) : \A j \in 1..Len(a) : a[j].op # "restore" => Less(Key(q[i]), Spot(a[j]))
  /\ \A i, j \in 1..Len(q) : i < j => Less(Key(q[i]), Key(q[j]))
OrderInv == Untied => Ordered(agenda, drawn)

\* Keys are read off the style alone.
LEMMA StyleSame ==
  style' = style => /\ \A n : Place(n)' = Place(n)
                    /\ \A d : Key(d)' = Key(d)
                    /\ \A t : Spot(t)' = Spot(t)
                    /\ Untied' <=> Untied
                    /\ Ordered(agenda, drawn)' <=> Ordered(agenda', drawn')
<1> SUFFICES ASSUME style' = style
             PROVE  /\ \A n : Place(n)' = Place(n)
                    /\ \A d : Key(d)' = Key(d)
                    /\ \A t : Spot(t)' = Spot(t)
                    /\ Untied' <=> Untied
                    /\ Ordered(agenda, drawn)' <=> Ordered(agenda', drawn')
  OBVIOUS
<1>1. \A n : Chain(n)' = Chain(n)
  BY DEF Chain, ContextAbove, HasContext, createsRealStackingContext, createsStackingContext
<1>2. \A n : Rank(n)' = Rank(n)
  BY DEF Rank, Step, HasContext, createsRealStackingContext, createsStackingContext, Level
<1>3. \A n : Place(n)' = Place(n)
  BY <1>1, <1>2 DEF Place
<1>4. \A d : Key(d)' = Key(d)
  BY <1>1, <1>2 DEF Key
<1>5. \A t : Spot(t)' = Spot(t)
  BY <1>3 DEF Spot
<1>6. Untied' <=> Untied
  BY AboveSame DEF Untied, Rivals, Shown, HasContext, createsRealStackingContext,
       createsStackingContext
<1>7. Ordered(agenda, drawn)' <=> Ordered(agenda', drawn')
  BY <1>4, <1>5 DEF Ordered
<1>8. QED
  BY <1>3, <1>4, <1>5, <1>6, <1>7

\* Spots are keys.
LEMMA SpotIs ==
  ASSUME TypeInv, NEW t \in TaskRecords
  PROVE  /\ Spot(t) \in Seq(Triples)
         /\ t.op \in {"stack", "node", "restore"} => Spot(t) = Place(t.node)
         /\ t.op \in {"background", "content"} => Spot(t) = Append(Place(t.node), PartRank(t.op))
<1>1. t.node \in Nodes
  BY DEF TaskRecords
<1>2. Place(t.node) \in Seq(Triples) /\ PartRank(t.op) \in Triples
  BY <1>1, PlaceIs, RankIs
<1>3. QED
  BY <1>2 DEF Spot

\* What a context plans is placed in it.
LEMMA SpotOfPlanned ==
  ASSUME TreeInv, OnceInv, ListInv, NEW s \in Nodes, NEW t \in Planned(s)
  PROVE  /\ t \in TaskRecords /\ t.op # "restore" /\ RankOf(t) \in Triples
         /\ Spot(t) = Append(Place(s), RankOf(t))
<1>1. TypeInv /\ HomeInv /\ t \in TaskRecords /\ RankOf(t) \in Triples
  BY SlotIs DEF TreeInv, ListInv
<1>2. CASE t \in On("background", {s}) \cup On("content", {s})
  <2>1. t.op \in {"background", "content"} /\ t.node = s
    BY <1>2 DEF On
  <2>2. QED
    BY <1>1, <2>1 DEF Spot, RankOf
<1>3. CASE t \in On("stack", Inner(style, pos, parent, s))
  <2>1. t.op = "stack" /\ t.node \in Inner(style, pos, parent, s)
    BY <1>3 DEF On
  <2>2. ContextAbove(t.node) = s /\ t.node \in Nodes /\ t.node # Root
    BY <1>1, <2>1, InnerIs DEF HomeInv
  <2>3. Place(t.node) = Append(Place(s), Rank(t.node))
    BY <1>1, <2>2, PlaceIs
  <2>4. QED
    BY <1>1, <2>1, <2>3 DEF Spot, RankOf
<1>4. CASE t \in On("node", Kids(s))
  <2>1. t.op = "node" /\ t.node \in Kids(s)
    BY <1>4 DEF On
  <2>2. ContextAbove(t.node) = s /\ t.node \in Nodes /\ t.node # Root
    BY <1>1, <2>1, KidIs DEF HomeInv, Kids, IsContext, Real
  <2>3. Place(t.node) = Append(Place(s), Rank(t.node))
    BY <1>1, <2>2, PlaceIs
  <2>4. QED
    BY <1>1, <2>1, <2>3 DEF Spot, RankOf
<1>5. QED
  BY <1>2, <1>3, <1>4 DEF Planned

\* A call less on the agenda leaves the others in order.
LEMMA TailOrdered ==
  ASSUME NEW a \in Seq(TaskRecords), a # <<>>, NEW q, Ordered(a, q)
  PROVE  /\ Ordered(Tail(a), q)
         /\ \A j \in 1..Len(Tail(a)) : a[1].op # "restore" /\ Tail(a)[j].op # "restore" =>
              Less(Spot(a[1]), Spot(Tail(a)[j]))
<1>1. /\ Len(a) \in Nat /\ 1 \in 1..Len(a) /\ Len(Tail(a)) = Len(a) - 1
      /\ \A i \in 1..Len(Tail(a)) : i + 1 \in 1..Len(a) /\ Tail(a)[i] = a[i + 1]
  BY TailIs
<1> DEFINE r == Tail(a)
<1> HIDE DEF r
<1>2. \A i \in 1..Len(r) : i + 1 \in 1..Len(a) /\ r[i] = a[i + 1] /\ 1 < i + 1
  BY <1>1 DEF r
<1>3. \A i, j \in 1..Len(r) : i < j => i + 1 < j + 1
  OBVIOUS
<1>4. Ordered(r, q)
  BY <1>2, <1>3 DEF Ordered
<1>5. \A j \in 1..Len(r) : a[1].op # "restore" /\ r[j].op # "restore" => Less(Spot(a[1]), Spot(r[j]))
  BY <1>1, <1>2 DEF Ordered
<1>6. QED
  BY <1>4, <1>5 DEF r

\* One more drawing at the end, before what is still to be drawn.
LEMMA AppendOrdered ==
  ASSUME NEW a, NEW q \in Seq(Drawings), NEW e \in Drawings, Ordered(a, q),
         \A i \in 1..Len(q) : Less(Key(q[i]), Key(e)),
         \A j \in 1..Len(a) : a[j].op # "restore" => Less(Key(e), Spot(a[j]))
  PROVE  Ordered(a, Append(q, e)) /\ Append(q, e) \in Seq(Drawings)
<1> DEFINE r == Append(q, e)
<1>1. /\ r \in Seq(Drawings) /\ Len(r) = Len(q) + 1 /\ Len(q) \in Nat /\ r[Len(q) + 1] = e
      /\ \A i \in 1..Len(q) : r[i] = q[i]
  OBVIOUS
<1> HIDE DEF r
<1>2. \A i \in 1..Len(r) : i \in 1..Len(q) \/ i = Len(q) + 1
  BY <1>1
<1>3. \A i, j \in 1..Len(r) : i < j => i \in 1..Len(q)
  BY <1>1
<1>4. \A i \in 1..Len(r) : \A j \in 1..Len(a) : a[j].op # "restore" => Less(Key(r[i]), Spot(a[j]))
  BY <1>1, <1>2 DEF Ordered
<1>5. \A i, j \in 1..Len(r) : i < j => Less(Key(r[i]), Key(r[j]))
  BY <1>1, <1>2, <1>3 DEF Ordered
<1>6. Ordered(a, r)
  BY <1>4, <1>5 DEF Ordered
<1>7. QED
  BY <1>1, <1>6 DEF r

\* A context is replaced by the calls of its plan, which are in order and inside it.
LEMMA StackOrder ==
  ASSUME RenderInv, ListInv, OrderInv, renderStack
  PROVE  OrderInv'
<1> DEFINE s == agenda[1].node
           d == IF style[s].transformed THEN 0 ELSE 1
<1>1. TreeInv /\ OnceInv /\ RenderType /\ TypeInv /\ agenda \in Seq(TaskRecords)
  BY DEF RenderInv, TreeInv, RenderType
<1>2. style' = style /\ drawn' = drawn
  BY DEF renderStack
<1> SUFFICES ASSUME Untied PROVE Ordered(agenda', drawn')
  BY <1>2, StyleSame DEF OrderInv
<1>3. /\ agenda # <<>> /\ agenda[1].op = "stack" /\ s \in Nodes
      /\ \E C \in Seq(TaskRecords), R \in Seq(TaskRecords) :
           /\ agenda' = C \o R
           /\ Lists(C, Planned(s)) /\ Paired(C, Order)
           /\ \E negative \in Sorted(splitStackingContexts(s, "negative")),
                positive \in Sorted(splitStackingContexts(s, "positive")) :
                C = renderStackContent(s, negative, positive)
           /\ Len(R) = Len(agenda) - d
           /\ \A i \in 1..Len(R) : R[i] = IF i + d = 1 THEN Restoring(s) ELSE agenda[i + d]
  BY <1>1, NewAgenda
<1>4. 1 \in 1..Len(agenda) /\ Len(agenda) \in Nat /\ d \in {0, 1}
  BY <1>1, <1>3
<1> HIDE DEF s, d
<1>5. PICK C \in Seq(TaskRecords), R \in Seq(TaskRecords) :
        /\ agenda' = C \o R
        /\ Lists(C, Planned(s))
        /\ \E negative \in Sorted(splitStackingContexts(s, "negative")),
             positive \in Sorted(splitStackingContexts(s, "positive")) :
             C = renderStackContent(s, negative, positive)
        /\ Len(R) = Len(agenda) - d
        /\ \A i \in 1..Len(R) : R[i] = IF i + d = 1 THEN Restoring(s) ELSE agenda[i + d]
  BY <1>3
<1>6. Paired(C, CssOrder)
  BY <1>1, <1>3, <1>5, PlanRises
<1>7. ASSUME NEW i \in 1..Len(C)
      PROVE  C[i].op # "restore" /\ RankOf(C[i]) \in Triples /\ Spot(C[i]) = Append(Place(s), RankOf(C[i]))
  <2>1. C[i] \in Planned(s)
    BY <1>5 DEF Lists
  <2>2. QED
    BY <1>1, <1>3, <2>1, SpotOfPlanned
<1>8. ASSUME NEW i \in 1..Len(R), R[i].op # "restore"
      PROVE  i + d \in 1..Len(agenda) /\ 1 < i + d /\ R[i] = agenda[i + d] /\ agenda[i + d].op # "restore"
  BY <1>4, <1>5, <1>8 DEF Restoring
<1>9. Ordered(agenda, drawn) /\ Spot(agenda[1]) = Place(s) /\ Place(s) \in Seq(Triples)
  BY <1>1, <1>3, <1>4, PlaceIs DEF OrderInv, Spot, s
<1>10. \A i \in 1..Len(agenda) : Spot(agenda[i]) \in Seq(Triples)
  <2>1. \A i \in 1..Len(agenda) : agenda[i] \in TaskRecords
    BY <1>1
  <2>2. QED
    BY <1>1, <2>1, SpotIs
<1>11. \A i, j \in 1..Len(C) : i < j => Less(Spot(C[i]), Spot(C[j]))
  <2> SUFFICES ASSUME NEW i \in 1..Len(C), NEW j \in 1..Len(C), i < j
               PROVE  Less(Spot(C[i]), Spot(C[j]))
    OBVIOUS
  <2>1. RankLess(RankOf(C[i]), RankOf(C[j]))
    BY <1>6 DEF Paired, CssOrder
  <2>2. QED
    BY <1>7, <1>9, <2>1, LessAt
<1>12. \A i \in 1..Len(C) : \A j \in 1..Len(R) : R[j].op # "restore" => Less(Spot(C[i]), Spot(R[j]))
  <2> SUFFICES ASSUME NEW i \in 1..Len(C), NEW j \in 1..Len(R), R[j].op # "restore"
               PROVE  Less(Spot(C[i]), Spot(R[j]))
    OBVIOUS
  <2>1. j + d \in 1..Len(agenda) /\ 1 < j + d /\ R[j] = agenda[j + d] /\ agenda[j + d].op # "restore"
    BY <1>8
  <2>2. Less(Place(s), Spot(R[j]))
    BY <1>3, <1>4, <1>9, <2>1 DEF Ordered
  <2>3. QED
    BY <1>7, <1>9, <1>10, <2>1, <2>2, LessExtend
<1>13. \A i, j \in 1..Len(R) : i < j /\ R[i].op # "restore" /\ R[j].op # "restore" =>
         Less(Spot(R[i]), Spot(R[j]))
  <2>1. \A i, j \in 1..Len(R) : i < j => i + d < j + d
    BY <1>4
  <2>2. QED
    BY <1>8, <1>9, <2>1 DEF Ordered
<1>14. ASSUME NEW k \in 1..Len(drawn)
       PROVE  /\ \A i \in 1..Len(C) : Less(Key(drawn[k]), Spot(C[i]))
              /\ \A i \in 1..Len(R) : R[i].op # "restore" => Less(Key(drawn[k]), Spot(R[i]))
  <2>1. Key(drawn[k]) \in Seq(Triples)
    <3>1. drawn \in Seq(Drawings)
      BY <1>1 DEF RenderType, Drawings
    <3>2. drawn[k].node \in Nodes
      <4>1. drawn[k] \in Drawings
        BY <3>1, ElementOfSeq
      <4>2. QED
        BY <4>1 DEF Drawings
    <3>3. QED
      BY <1>1, <3>2, KeyIs
  <2>2. Less(Key(drawn[k]), Place(s))
    BY <1>3, <1>4, <1>9 DEF Ordered
  <2>3. \A i \in 1..Len(C) : Less(Key(drawn[k]), Spot(C[i]))
    BY <1>7, <1>9, <2>1, <2>2, LessExtend
  <2>4. \A i \in 1..Len(R) : R[i].op # "restore" => Less(Key(drawn[k]), Spot(R[i]))
    BY <1>8, <1>9 DEF Ordered
  <2>5. QED
    BY <2>3, <2>4
<1>15. /\ Len(C) \in Nat /\ Len(R) \in Nat /\ Len(agenda') = Len(C) + Len(R)
       /\ \A i \in 1..Len(agenda') :
            \/ i \in 1..Len(C) /\ agenda'[i] = C[i]
            \/ i - Len(C) \in 1..Len(R) /\ agenda'[i] = R[i - Len(C)] /\ ~(i <= Len(C))
  <2>1. /\ agenda' = C \o R /\ Len(C) \in Nat /\ Len(R) \in Nat
        /\ Len(C \o R) = Len(C) + Len(R)
        /\ \A i \in 1..(Len(C) + Len(R)) :
             (C \o R)[i] = IF i <= Len(C) THEN C[i] ELSE R[i - Len(C)]
    <3>1. /\ Len(C) \in Nat /\ Len(R) \in Nat /\ Len(C \o R) = Len(C) + Len(R)
          /\ \A i \in 1..(Len(C) + Len(R)) :
               (C \o R)[i] = IF i <= Len(C) THEN C[i] ELSE R[i - Len(C)]
      BY ConcatProperties
    <3>2. agenda' = C \o R
      BY <1>5
    <3>3. QED
      BY <3>1, <3>2
  <2> DEFINE l == Len(C)
             m == Len(R)
  <2> HIDE DEF l, m
  <2>2. \A i \in 1..(l + m) : l \in Nat /\ m \in Nat =>
          (i <= l /\ i \in 1..l) \/ (~(i <= l) /\ i - l \in 1..m)
    OBVIOUS
  <2>3. QED
    BY <2>1, <2>2 DEF l, m
<1>16. \A i, j \in 1..Len(agenda') :
         i < j /\ agenda'[i].op # "restore" /\ agenda'[j].op # "restore" =>
           Less(Spot(agenda'[i]), Spot(agenda'[j]))
  <2> SUFFICES ASSUME NEW i \in 1..Len(agenda'), NEW j \in 1..Len(agenda'),
                      i < j, agenda'[i].op # "restore", agenda'[j].op # "restore"
               PROVE  Less(Spot(agenda'[i]), Spot(agenda'[j]))
    OBVIOUS
  <2>1. CASE j \in 1..Len(C) /\ agenda'[j] = C[j]
    <3>1. i \in 1..Len(C) /\ agenda'[i] = C[i]
      BY <1>15, <2>1
    <3>2. QED
      BY <1>11, <2>1, <3>1
  <2>2. CASE j - Len(C) \in 1..Len(R) /\ agenda'[j] = R[j - Len(C)]
    <3>1. CASE i \in 1..Len(C) /\ agenda'[i] = C[i]
      BY <1>12, <2>2, <3>1
    <3>2. CASE i - Len(C) \in 1..Len(R) /\ agenda'[i] = R[i - Len(C)]
      <4>1. i - Len(C) < j - Len(C)
        BY <1>15
      <4>2. QED
        BY <1>13, <2>2, <3>2, <4>1
    <3>3. QED
      BY <1>15, <3>1, <3>2
  <2>3. QED
    BY <1>15, <2>1, <2>2
<1>17. \A k \in 1..Len(drawn') : \A i \in 1..Len(agenda') : agenda'[i].op # "restore" =>
         Less(Key(drawn'[k]), Spot(agenda'[i]))
  BY <1>2, <1>14, <1>15
<1>18. QED
  BY <1>2, <1>9, <1>16, <1>17 DEF Ordered

\* What is drawn next comes after all that is drawn.
LEMMA DrawOrder ==
  ASSUME RenderInv, OrderInv, renderNodePart \/ renderNode
  PROVE  OrderInv'
<1> DEFINE t == agenda[1]
           back == [node |-> t.node, part |-> "background", alpha |-> alpha,
                    transforms |-> Transforms(style, t.node)]
           front == [node |-> t.node, part |-> "content", alpha |-> alpha,
                     transforms |-> Transforms(style, t.node)]
<1>1. /\ agenda # <<>> /\ agenda' = Tail(agenda) /\ style' = style
      /\ t \in TaskRecords /\ back \in Drawings /\ front \in Drawings
      /\ \/ t.op = "background" /\ drawn' = Append(drawn, back)
         \/ t.op = "content" /\ drawn' = Append(drawn, front)
         \/ t.op = "node" /\ drawn' = Append(Append(drawn, back), front)
  BY DrawIs DEF RenderInv
<1>2. /\ TypeInv /\ RenderType /\ agenda \in Seq(TaskRecords) /\ drawn \in Seq(Drawings)
      /\ 1 \in 1..Len(agenda) /\ agenda' \in Seq(TaskRecords)
  BY <1>1, TailIs DEF RenderInv, TreeInv, RenderType, Drawings
<1> SUFFICES ASSUME Untied PROVE Ordered(agenda', drawn')
  BY <1>1, StyleSame DEF OrderInv
<1>3. /\ Ordered(agenda, drawn) /\ Ordered(agenda', drawn) /\ t.op # "restore"
      /\ \A j \in 1..Len(agenda') : agenda'[j].op # "restore" => Less(Spot(t), Spot(agenda'[j]))
  BY <1>1, <1>2, TailOrdered DEF OrderInv
<1>4. \A i \in 1..Len(drawn) : Less(Key(drawn[i]), Spot(t))
  BY <1>2, <1>3 DEF Ordered
<1>5. /\ t.node \in Nodes /\ Place(t.node) \in Seq(Triples)
      /\ PartRank("background") \in Triples /\ PartRank("content") \in Triples
      /\ Key(back) = Append(Place(t.node), PartRank("background")) /\ Key(back) \in Seq(Triples)
      /\ Key(front) = Append(Place(t.node), PartRank("content")) /\ Key(front) \in Seq(Triples)
  <2>1. t.node \in Nodes
    BY <1>1 DEF TaskRecords
  <2>2. back.node = t.node /\ back.part = "background" /\ front.node = t.node /\ front.part = "content"
    OBVIOUS
  <2> HIDE DEF back, front, t
  <2>3. QED
    BY <1>2, <2>1, <2>2, KeyIs, PlaceIs, RankIs
<1> HIDE DEF t, back, front
<1>6. Less(Key(back), Key(front))
  <2>1. RankLess(PartRank("background"), PartRank("content"))
    BY <1>5, TripleLess DEF PartRank
  <2>2. QED
    BY <1>5, <2>1, LessAt
<1>7. /\ Spot(t) \in Seq(Triples)
      /\ t.op = "background" => Spot(t) = Key(back)
      /\ t.op = "content" => Spot(t) = Key(front)
      /\ t.op = "node" => Spot(t) = Place(t.node)
  BY <1>1, <1>2, <1>5, SpotIs
<1>8. /\ \A i \in 1..Len(drawn) : Key(drawn[i]) \in Seq(Triples)
      /\ \A j \in 1..Len(agenda') : Spot(agenda'[j]) \in Seq(Triples)
  <2>1. \A i \in 1..Len(drawn) : drawn[i].node \in Nodes
    <3>1. \A i \in 1..Len(drawn) : drawn[i] \in Drawings
      BY <1>2, ElementOfSeq
    <3>2. QED
      BY <3>1 DEF Drawings
  <2>2. \A j \in 1..Len(agenda') : agenda'[j] \in TaskRecords
    BY <1>2
  <2>3. QED
    BY <1>2, <2>1, <2>2, KeyIs, SpotIs
<1> DEFINE Fits(e) == /\ \A i \in 1..Len(drawn) : Less(Key(drawn[i]), Key(e))
                      /\ \A j \in 1..Len(agenda') : agenda'[j].op # "restore" =>
                           Less(Key(e), Spot(agenda'[j]))
<1>9. /\ t.op \in {"background", "node"} => Fits(back)
      /\ t.op \in {"content", "node"} => Fits(front)
  BY <1>3, <1>4, <1>5, <1>7, <1>8, LessExtend
<1>10. CASE t.op = "background" /\ drawn' = Append(drawn, back)
  BY <1>1, <1>2, <1>3, <1>9, <1>10, AppendOrdered
<1>11. CASE t.op = "content" /\ drawn' = Append(drawn, front)
  BY <1>1, <1>2, <1>3, <1>9, <1>11, AppendOrdered
<1>12. CASE t.op = "node" /\ drawn' = Append(Append(drawn, back), front)
  <2> DEFINE q == Append(drawn, back)
  <2>1. Ordered(agenda', q) /\ q \in Seq(Drawings)
    BY <1>1, <1>2, <1>3, <1>9, <1>12, AppendOrdered
  <2>2. \A i \in 1..Len(q) : Less(Key(q[i]), Key(front))
    <3>1. /\ Len(q) = Len(drawn) + 1 /\ Len(drawn) \in Nat /\ q[Len(drawn) + 1] = back
          /\ \A i \in 1..Len(drawn) : q[i] = drawn[i]
      BY <1>1, <1>2
    <3> HIDE DEF q
    <3>2. \A i \in 1..Len(q) : i \in 1..Len(drawn) \/ i = Len(drawn) + 1
      BY <3>1
    <3>3. QED
      BY <1>6, <1>9, <1>12, <3>1, <3>2
  <2> HIDE DEF q
  <2>3. Ordered(agenda', Append(q, front))
    BY <1>1, <1>9, <1>12, <2>1, <2>2, AppendOrdered
  <2>4. QED
    BY <1>12, <2>3 DEF q
<1>13. QED
  BY <1>1, <1>10, <1>11, <1>12

\* What is drawn and what is pending stay in order.
LEMMA OrderStep == RenderInv /\ ListInv /\ OrderInv /\ [Next]_vars => OrderInv'
<1> SUFFICES ASSUME RenderInv, ListInv, OrderInv, [Next]_vars PROVE OrderInv'
  OBVIOUS
<1>1. style' = style
  BY DEF Next, Enter, Skip, Leave, Begin, renderStack, Restore, renderNodePart, renderNode, vars
<1>2. RenderType /\ TypeInv
  BY DEF RenderInv, TreeInv
<1>3. CASE UNCHANGED vars \/ \E n \in Nodes : Enter(n) \/ Skip(n) \/ Leave(n)
  <2>1. UNCHANGED <<agenda, drawn>>
    BY <1>3 DEF vars, drawVars, Enter, Skip, Leave
  <2>2. QED
    BY <1>1, <2>1, StyleSame DEF OrderInv
<1>4. CASE Begin
  <2>1. agenda' = Tasks("stack", <<Root>>) /\ drawn' = <<>>
    BY <1>2, <1>4, RootIsAround DEF Begin, RenderType
  <2>2. Len(agenda') = 1 /\ Len(drawn') = 0
    BY <2>1 DEF Tasks
  <2>3. Ordered(agenda', drawn')
    BY <2>2 DEF Ordered
  <2>4. QED
    BY <1>1, <2>3, StyleSame DEF OrderInv
<1>5. CASE renderStack
  BY <1>5, StackOrder
<1>6. CASE Restore
  <2>1. agenda # <<>> /\ agenda' = Tail(agenda) /\ drawn' = drawn /\ agenda \in Seq(TaskRecords)
    BY <1>2, <1>6 DEF Restore, Next1, Rest, RenderType
  <2>2. Untied => Ordered(agenda', drawn')
    BY <2>1, TailOrdered DEF OrderInv
  <2>3. QED
    BY <1>1, <2>2, StyleSame DEF OrderInv
<1>7. CASE renderNodePart \/ renderNode
  BY <1>7, DrawOrder
<1>8. QED
  BY <1>3, <1>4, <1>5, <1>6, <1>7 DEF Next

\* PaintOrderIsCSS: whatever the document, what is drawn earlier (NodeParser.renderStack,
\* renderStackContent, sortByZIndex) is what CSS paints earlier, unless z-index ties contexts
\* that are not brothers.
THEOREM PaintsInOrder == Spec => []PaintOrderIsCSS
<1>1. Init => ListInv /\ OrderInv
  <2>1. Init => Len(agenda) = 0 /\ Len(drawn) = 0
    BY DEF Init
  <2>2. QED
    BY <2>1, InitLists DEF OrderInv, Ordered
<1>2. RenderInv /\ ListInv /\ OrderInv /\ [Next]_vars => ListInv' /\ OrderInv'
  BY ListStep, OrderStep DEF RenderInv
<1>3. RenderInv /\ OrderInv => PaintOrderIsCSS
  <2> SUFFICES ASSUME RenderInv, OrderInv, Untied,
                      NEW i \in DOMAIN drawn, NEW j \in DOMAIN drawn, i < j
               PROVE  ~Less(Key(drawn[j]), Key(drawn[i]))
    BY DEF PaintOrderIsCSS, Untied
  <2>1. TypeInv /\ drawn \in Seq(Drawings)
    BY DEF RenderInv, TreeInv, RenderType, Drawings
  <2>2. i \in 1..Len(drawn) /\ j \in 1..Len(drawn)
    BY <2>1
  <2>3. drawn[i].node \in Nodes /\ drawn[j].node \in Nodes
    <3>1. drawn[i] \in Drawings /\ drawn[j] \in Drawings
      BY <2>1, <2>2, ElementOfSeq
    <3>2. QED
      BY <3>1 DEF Drawings
  <2>4. Key(drawn[i]) \in Seq(Triples) /\ Key(drawn[j]) \in Seq(Triples)
    BY <2>1, <2>3, KeyIs
  <2>5. Less(Key(drawn[i]), Key(drawn[j]))
    BY <2>2 DEF OrderInv, Ordered
  <2>6. QED
    BY <2>4, <2>5, LessAsym
<1>4. QED
  BY <1>1, <1>2, <1>3, RenderInvHolds, PTL DEF Spec
=============================================================================
