-------------------------------- MODULE Paint --------------------------------
(***************************************************************************)
(* How html2canvas draws a cloned document: NodeParser makes a tree of     *)
(* stacking contexts of it, and Renderer draws that tree on a canvas whose *)
(* state (opacity, transforms) is saved and restored on the way.           *)
(*                                                                         *)
(* An element is an interval of positions of the document, as the parser   *)
(* meets it; a stacking context has the name of the element it is for.  A  *)
(* context that is not `real' keeps its plain descendants together and     *)
(* leaves positioned ones to the real context around it.                   *)
(***************************************************************************)
EXTENDS Integers, Sequences, FiniteSets, FiniteSetsExt, SequencesExt

CONSTANTS Nodes, Open, Close, Root,
          Styles       \* [Nodes -> set of style records]

StyleRecords ==
  [positioned : BOOLEAN, z : Int, auto : BOOLEAN, float : BOOLEAN,
   translucent : BOOLEAN, transformed : BOOLEAN, inline : BOOLEAN, visible : BOOLEAN,
   body : BOOLEAN]     \* a BODY whose parent has a transparent background

ASSUME DocumentAssumption ==
  /\ IsFiniteSet(Nodes) /\ Root \in Nodes
  /\ Open \in [Nodes -> Nat] /\ Close \in [Nodes -> Nat]
  /\ {Open[n] : n \in Nodes} \cup {Close[n] : n \in Nodes} = 1..(2 * Cardinality(Nodes))
  /\ \A n \in Nodes : Open[n] < Close[n]
  /\ \A m, n \in Nodes : Open[m] < Open[n] /\ Open[n] < Close[m] => Close[n] < Close[m]
  /\ Open[Root] = 1 /\ Close[Root] = 2 * Cardinality(Nodes)
\* z-index is read for positioned elements only; a root is always drawn.
ASSUME StylesAssumption ==
  /\ \A n \in Nodes : Styles[n] \subseteq StyleRecords
  /\ \A n \in Nodes : \A s \in Styles[n] : (~s.positioned => s.auto) /\ (s.auto => s.z = 0)
  /\ \A s \in Styles[Root] : s.visible
\* A document has one BODY, and nothing before it that is shown: there is the
\* HEAD, and browsers hide that.
ASSUME BodyAssumption ==
  \A m, n \in Nodes : (\E s \in Styles[n] : s.body) /\ Open[m] < Open[n] =>
    \/ m = Root
    \/ \E h \in Nodes : /\ Open[h] <= Open[m] /\ Close[m] <= Close[h]
                       /\ \A s \in Styles[h] : ~s.visible

VARIABLES
  style, pos,
  indices,     \* the counter `index' of each open call of parseNodeTree
  path,        \* the stacking contexts of those calls
  index,       \* [Nodes -> Nat]: NodeContainer.index
  parent,      \* [Nodes -> context above], Root above itself
  opacity,     \* [Nodes -> Nat]: how many translucent factors getOpacity multiplies
  contexts, children,      \* [Nodes -> Seq(Nodes)] of a StackingContext
  agenda,      \* calls of the renderer that are still to be made
  alpha,       \* ctx.globalAlpha, as a number of translucent factors
  lastOpacity, \* Renderer._opacity; -1 while it is undefined
  saved,       \* ctx.save(): the alpha and the element whose transform follows
  drawn        \* what has been drawn, in order

parseVars == <<pos, indices, path, index, parent, opacity, contexts, children>>
drawVars == <<agenda, alpha, lastOpacity, saved, drawn>>
vars == <<style, parseVars, drawVars>>

Init ==
  /\ style \in [Nodes -> UNION {Styles[n] : n \in Nodes}]
  /\ \A n \in Nodes : style[n] \in Styles[n]
  /\ pos = 2
  /\ indices = <<1>>
  /\ path = <<Root>>
  /\ index = [n \in Nodes |-> 0]
  /\ parent = [n \in Nodes |-> Root]
  /\ opacity = [n \in Nodes |-> IF n = Root /\ style[n].translucent THEN 1 ELSE 0]
  /\ contexts = [n \in Nodes |-> <<>>]
  /\ children = [n \in Nodes |-> <<>>]
  /\ agenda = <<>> /\ alpha = 0 /\ lastOpacity = -1 /\ saved = <<>> /\ drawn = <<>>

-----------------------------------------------------------------------------
(* NodeParser.                                                              *)

End == 2 * Cardinality(Nodes)
Parsing == pos < End

\* A bug: a transform makes no context of its own.
realWithoutTransform(n) ==
  \/ n = Root \/ (style[n].positioned /\ ~style[n].auto)
  \/ style[n].translucent \/ style[n].body
createsRealStackingContext(n) ==
  \/ n = Root \/ (style[n].positioned /\ ~style[n].auto)
  \/ style[n].translucent \/ style[n].transformed \/ style[n].body
createsStackingContext(n) == style[n].positioned \/ style[n].float

\* Contexts above and including s, up to the first real one.
getRealParentStackingContext(s) ==
  LET up[x \in Nodes] == IF createsRealStackingContext(x) THEN x ELSE up[parent[x]] IN up[s]

\* The context that the context of n becomes a child of.
parentStack(n, s) == IF createsRealStackingContext(n) \/ style[n].positioned
                       THEN getRealParentStackingContext(s) ELSE s

\* Each visible element gets the next number of its level of the tree; the
\* calls for its children count on from there, but the level does not notice.
Enter(n) ==
  LET s == Last(path)
      i == Last(indices)
      own == createsRealStackingContext(n) \/ createsStackingContext(n)
      up == parentStack(n, s)
  IN  /\ Parsing /\ pos = Open[n] /\ style[n].visible
      /\ index' = [index EXCEPT ![n] = i]
      /\ indices' = Append(Append(Front(indices), i + 1), i + 1)
      /\ IF own
           THEN /\ parent' = [parent EXCEPT ![n] = up]
                /\ opacity' = [opacity EXCEPT
                     ![n] = opacity[up] + IF style[n].translucent THEN 1 ELSE 0]
                /\ contexts' = [contexts EXCEPT ![up] = Append(@, n)]
                /\ path' = Append(path, n)
                /\ UNCHANGED children
           ELSE /\ children' = [children EXCEPT ![s] = Append(@, n)]
                /\ path' = Append(path, s)
                /\ UNCHANGED <<parent, opacity, contexts>>
      /\ pos' = pos + 1
      /\ UNCHANGED <<style, drawVars>>

\* An invisible element is numbered, and its descendants are passed over.
Skip(n) ==
  /\ Parsing /\ pos = Open[n] /\ ~style[n].visible
  /\ indices' = Append(Front(indices), Last(indices) + 1)
  /\ index' = [index EXCEPT ![n] = Last(indices)]
  /\ pos' = Close[n] + 1
  /\ UNCHANGED <<style, path, parent, opacity, contexts, children, drawVars>>

Leave(n) ==
  /\ Parsing /\ pos = Close[n]
  /\ indices' = Front(indices) /\ path' = Front(path)
  /\ pos' = pos + 1
  /\ UNCHANGED <<style, index, parent, opacity, contexts, children, drawVars>>

-----------------------------------------------------------------------------
(* Renderer.                                                                *)

Level(n) == IF style[n].positioned \/ style[n].translucent \/ style[n].transformed
              THEN IF style[n].z < 0 THEN "negative" ELSE IF style[n].z > 0 THEN "positive" ELSE "zero"
              ELSE IF style[n].float THEN "float" ELSE "inline"
\* The members of a list that a loop pushes to one group.
Split(list, group) ==
  LET split[i \in 0..Len(list)] ==
        IF i = 0 THEN <<>>
        ELSE IF list[i] \in group THEN Append(split[i - 1], list[i]) ELSE split[i - 1]
  IN  split[Len(list)]
splitStackingContexts(s, level) == Split(contexts[s], {n \in Nodes : Level(n) = level})
splitDescendants(s, inline) == Split(children[s], {n \in Nodes : style[n].inline = inline})

\* sort(sortByZIndex): by z, then by index.  Of two contexts equal in both the
\* comparator says that each comes first, which leaves their order to the engine.
Sorted(seq) ==
  {p \in SetToSeqs(ToSet(seq)) : \A i, j \in DOMAIN p : i < j =>
      \/ style[p[i]].z < style[p[j]].z
      \/ style[p[i]].z = style[p[j]].z /\ index[p[i]] <= index[p[j]]}

Tasks(op, seq) == [i \in DOMAIN seq |-> [op |-> op, node |-> seq[i]]]

\* A bug: inline-level boxes are drawn before floats.
ContentInlineFirst(s, negative, positive) ==
  Tasks("background", <<s>>) \o Tasks("stack", negative) \o Tasks("content", <<s>>)
    \o Tasks("node", splitDescendants(s, FALSE)) \o Tasks("node", splitDescendants(s, TRUE))
    \o Tasks("stack", splitStackingContexts(s, "float"))
    \o Tasks("stack", splitStackingContexts(s, "inline"))
    \o Tasks("stack", splitStackingContexts(s, "zero")) \o Tasks("stack", positive)
\* A bug: the contexts that do not float are left out of step 5.
ContentFloatsOnly(s, negative, positive) ==
  Tasks("background", <<s>>) \o Tasks("stack", negative) \o Tasks("content", <<s>>)
    \o Tasks("node", splitDescendants(s, FALSE)) \o Tasks("stack", splitStackingContexts(s, "float"))
    \o Tasks("node", splitDescendants(s, TRUE))
    \o Tasks("stack", splitStackingContexts(s, "zero")) \o Tasks("stack", positive)
\* renderStackContent: the seven steps of the painting order.
renderStackContent(s, negative, positive) ==
  Tasks("background", <<s>>) \o Tasks("stack", negative) \o Tasks("content", <<s>>)
    \o Tasks("node", splitDescendants(s, FALSE))
    \o Tasks("stack", splitStackingContexts(s, "float"))
    \o Tasks("stack", splitStackingContexts(s, "inline"))
    \o Tasks("node", splitDescendants(s, TRUE))
    \o Tasks("stack", splitStackingContexts(s, "zero")) \o Tasks("stack", positive)

Begin ==
  /\ pos = End
  /\ pos' = End + 1
  /\ agenda' = Tasks("stack", <<Root>>)
  /\ UNCHANGED <<style, indices, path, index, parent, opacity, contexts, children,
                 alpha, lastOpacity, saved, drawn>>

Next1(op) == agenda # <<>> /\ Head(agenda).op = op
Rest == Tail(agenda)

\* A bug: the opacity is set only where an element is itself translucent.
SetOpacityOwn(s) ==
  IF style[s].translucent THEN alpha' = opacity[s] /\ lastOpacity' = opacity[s]
  ELSE UNCHANGED <<alpha, lastOpacity>>
\* The opacity is set when it differs from the one set last.
SetOpacity(s) ==
  /\ alpha' = IF opacity[s] # lastOpacity THEN opacity[s] ELSE alpha
  /\ lastOpacity' = opacity[s]

renderStack ==
  /\ Next1("stack")
  /\ LET s == Head(agenda).node IN
     \E negative \in Sorted(splitStackingContexts(s, "negative")),
        positive \in Sorted(splitStackingContexts(s, "positive")) :
       /\ SetOpacity(s)
       /\ IF style[s].transformed
            THEN /\ saved' = Append(saved, [alpha |-> alpha', node |-> s])
                 /\ agenda' = renderStackContent(s, negative, positive)
                                \o <<[op |-> "restore", node |-> s]>> \o Rest
            ELSE /\ agenda' = renderStackContent(s, negative, positive) \o Rest
                 /\ UNCHANGED saved
  /\ UNCHANGED <<style, parseVars, drawn>>

\* ctx.restore() after a transform: the canvas forgets the opacities set in it,
\* the renderer does not.
Restore ==
  /\ Next1("restore")
  /\ alpha' = Last(saved).alpha
  /\ saved' = Front(saved)
  /\ agenda' = Rest
  /\ UNCHANGED <<style, parseVars, lastOpacity, drawn>>

Drawing(n, part) == [node |-> n, part |-> part, alpha |-> alpha,
                     transforms |-> {saved[i].node : i \in DOMAIN saved}]

\* Background and borders, or text and image, of the element of a context.
renderNodePart ==
  /\ Next1("background") \/ Next1("content")
  /\ drawn' = Append(drawn, Drawing(Head(agenda).node, Head(agenda).op))
  /\ agenda' = Rest
  /\ UNCHANGED <<style, parseVars, alpha, lastOpacity, saved>>

\* Both, of an element without a context.
renderNode ==
  /\ Next1("node")
  /\ drawn' = drawn \o <<Drawing(Head(agenda).node, "background"),
                         Drawing(Head(agenda).node, "content")>>
  /\ agenda' = Rest
  /\ UNCHANGED <<style, parseVars, alpha, lastOpacity, saved>>

Next == \/ \E n \in Nodes : Enter(n) \/ Skip(n) \/ (n # Root /\ Leave(n))
        \/ Begin \/ renderStack \/ Restore \/ renderNodePart \/ renderNode
Spec == Init /\ [][Next]_vars

-----------------------------------------------------------------------------
(* The reference: the order in which CSS paints, as keys that compare        *)
(* lexicographically.                                                        *)

Ancestors(n) == {m \in Nodes : Open[m] < Open[n] /\ Close[n] < Close[m]}
Innermost(set) == CHOOSE m \in set : \A k \in set : Open[k] <= Open[m]
Shown(n) == \A m \in Ancestors(n) \cup {n} : style[m].visible
HasContext(n) == createsRealStackingContext(n) \/ createsStackingContext(n)
\* The context that n is painted in, and the contexts around that one.
ContextAbove(n) ==
  Innermost({m \in Ancestors(n) :
    IF HasContext(n) /\ (createsRealStackingContext(n) \/ style[n].positioned)
      THEN createsRealStackingContext(m) ELSE HasContext(m)})
Chain(n) ==
  LET chain[m \in Nodes] == IF m = Root THEN <<>> ELSE Append(chain[ContextAbove(m)], m)
  IN  chain[n]

\* The step of the painting order in which n is painted, z and tree order.
Step(n) ==
  IF HasContext(n)
    THEN CASE Level(n) = "negative" -> 2 [] Level(n) = "float" -> 4
           [] Level(n) = "inline" -> 5 [] Level(n) = "zero" -> 6 [] OTHER -> 8
    ELSE IF style[n].inline THEN 5 ELSE 3
Rank(n) == <<Step(n), style[n].z, Open[n]>>
PartRank(part) == IF part = "background" THEN <<1, 0, 0>> ELSE <<3, 0, 0>>
Key(d) == [i \in 1..Len(Chain(d.node)) |-> Rank(Chain(d.node)[i])] \o <<PartRank(d.part)>>
Less(a, b) == \E i \in DOMAIN a : i \in DOMAIN b /\
                 /\ \A j \in 1..(i - 1) : a[j] = b[j]
                 /\ \E k \in 1..3 : a[i][k] < b[i][k] /\ \A l \in 1..(k - 1) : a[i][l] = b[i][l]

Complete == pos > End /\ agenda = <<>>
Translucent(n) == {m \in Ancestors(n) \cup {n} : style[m].translucent}
\* Contexts that z-index orders against each other.
Rivals(m, n) == /\ m # n /\ Shown(m) /\ Shown(n) /\ HasContext(m) /\ HasContext(n)
                /\ style[m].z # 0 /\ style[m].z = style[n].z
                /\ ContextAbove(m) = ContextAbove(n)

\* Properties.

\* Nothing is lost and nothing is painted twice between the contexts' lists:
\* at the end each visible element has its background and its content once.
PaintedOnce ==
  Complete =>
    /\ {<<d.node, d.part>> : d \in ToSet(drawn)}
         = {n \in Nodes : Shown(n)} \X {"background", "content"}
    /\ Len(drawn) = 2 * Cardinality({n \in Nodes : Shown(n)})

\* What is painted earlier is what CSS paints earlier, whatever contexts are
\* inside one another: always, for elements whose stacking contexts z-index
\* does not tie, and among brothers if it does.
PaintOrderIsCSS ==
  (\A m, n \in Nodes : Rivals(m, n) => Ancestors(m) = Ancestors(n)) =>
    \A i, j \in DOMAIN drawn : i < j => ~Less(Key(drawn[j]), Key(drawn[i]))

\* Everything is drawn under the transforms of the elements around it and under
\* no other, though positioned elements are drawn far from their place in the tree.
TransformsAreOwn ==
  \A d \in ToSet(drawn) :
    d.transforms = {m \in Ancestors(d.node) \cup {d.node} : style[m].transformed}

\* Everything is drawn with the opacity of the elements around it, in documents
\* where no translucent element is painted below the content of its context,
\* inside a transform, or inside a BODY that is not all there is: the opacity is
\* not set back after the first and the last, and the restored one is not
\* noticed after the second.
OpacityIsOwn ==
  (\A n \in Nodes : style[n].translucent =>
      \A m \in Ancestors(n) \cup {n} :
        /\ style[m].z >= 0 /\ ~style[m].transformed
        /\ style[m].body => \A k \in Nodes : Shown(k) => k = Root \/ m \in Ancestors(k) \cup {k})
  => \A d \in ToSet(drawn) : d.alpha = Cardinality(Translucent(d.node))
=============================================================================
