------------------------------- MODULE Contour -------------------------------
(***************************************************************************)
(* The map page's answer to findCount (index.js): the rows of an explosion *)
(* or leakage calculation, grouped by their distance x, become the outline *)
(* of four areas, one for each concentration, on a map made for this       *)
(* answer.  A row has x, y and the concentration nd, in units of 10^-7.    *)
(* The callback runs to its end; an answer to another click comes later.   *)
(***************************************************************************)
EXTENDS Integers, Sequences, SequencesExt

CONSTANTS Answers,      \* [Clicks -> set of sequences of rows]
          Clicks
VARIABLES
  asked,       \* clicks that have been answered or not yet: [Clicks -> stage]
  answer,      \* the rows of the answer being drawn
  res,         \* those that are left of it
  points,      \* point1, point2, point01, ...: [Keys -> Seq(rows)]
  maps         \* the maps made, each with its overlays from below
vars == <<asked, answer, res, points, maps>>

Sides == {"below", "above"}          \* y < 0, y > 0
Levels == {100000, 10000, 1000, 100} \* 0.01, 0.001, 0.0001, 0.00001
Keys == Levels \X Sides
NoRow == [x |-> 0, y |-> 0, nd |-> 0]

Init ==
  /\ asked = [c \in Clicks |-> "no"]
  /\ answer = <<>> /\ res = <<>>
  /\ points = [key \in Keys |-> <<>>]
  /\ maps = <<>>

Drawing == \E c \in Clicks : asked[c] = "drawing"

Click(c) ==
  /\ ~Drawing /\ asked[c] = "no"
  /\ asked' = [asked EXCEPT ![c] = "sent"]
  /\ UNCHANGED <<answer, res, points, maps>>

success(c) ==
  /\ ~Drawing /\ asked[c] = "sent"
  /\ asked' = [asked EXCEPT ![c] = "drawing"]
  /\ answer' \in Answers[c] /\ res' = answer'
  /\ points' = [key \in Keys |-> <<>>]
  /\ UNCHANGED maps

Distance(row, level) == IF row.nd > level THEN row.nd - level ELSE level - row.nd
OnSide(row, side) == IF side = "below" THEN row.y < 0 ELSE row.y > 0
\* Within five per cent of the level; no row is near two of them.
InBand(row, level) == 20 * Distance(row, level) < level

\* The minimum that a row has to beat: the last two levels compare with the
\* minimum of 0.001 on their side, from which their own rows are far.
Rival(key) == IF key[1] >= 10000 THEN key ELSE <<10000, key[2]>>
Nearer(min, row) ==
  [key \in Keys |->
     IF /\ InBand(row, key[1]) /\ OnSide(row, key[2])
        /\ Distance(row, key[1]) < Distance(min[Rival(key)], key[1])
       THEN row ELSE min[key]]

\* The rows up to the last one with the x of the first are a column; its nearest
\* rows go to the lines, unless they are at the source, where x is 0.
TakeColumn ==
  /\ Drawing /\ res # <<>>
  /\ LET delnum == CHOOSE i \in DOMAIN res :
                     res[i].x = res[1].x /\ \A j \in DOMAIN res : res[j].x = res[1].x => j <= i
         min == FoldLeft(Nearer, [key \in Keys |-> NoRow], SubSeq(res, 1, delnum))
     IN  /\ points' = [key \in Keys |->
                         IF min[key].x # 0 THEN Append(points[key], min[key]) ELSE points[key]]
         /\ res' = SubSeq(res, delnum + 1, Len(res))
  /\ UNCHANGED <<asked, answer, maps>>

\* One side outwards, the other back.
Polygon(level) == points[<<level, "below">>] \o Reverse(points[<<level, "above">>])
\* The area of 0.01 is made and not added.
Overlays == <<Polygon(100), Polygon(1000), Polygon(10000)>>

Draw ==
  /\ Drawing /\ res = <<>>
  /\ maps' = Append(maps, Overlays)
  /\ asked' = [c \in Clicks |-> IF asked[c] = "drawing" THEN "answered" ELSE asked[c]]
  /\ UNCHANGED <<answer, res, points>>

Next == \/ \E c \in Clicks : Click(c) \/ success(c)
        \/ TakeColumn \/ Draw
Spec == Init /\ [][Next]_vars

-----------------------------------------------------------------------------
(* Properties.                                                              *)

\* "Loop over arrT, take the concentration nearest to 0.01": of the rows at one
\* distance and on one side, an outline goes through the one whose concentration
\* is nearest to its level.
NearestIsTaken ==
  \A key \in Keys : \A p \in ToSet(points[key]) :
    \A row \in ToSet(answer) :
      row.x = p.x /\ OnSide(row, key[2]) => Distance(p, key[1]) <= Distance(row, key[1])
=============================================================================
