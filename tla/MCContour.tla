------------------------------ MODULE MCContour ------------------------------
(***************************************************************************)
(* Answers of a few rows for Contour: two distances, both sides, and       *)
(* concentrations in and out of the bands of two levels.                   *)
(***************************************************************************)
EXTENDS Contour

Rows == {[x |-> x, y |-> y, nd |-> nd] : x \in {0, 10}, y \in {-5, 5}, nd \in {10000, 10300, 1000, 1020, 2000}}
MCAnswers == [c \in Clicks |-> UNION {[1..n -> Rows] : n \in 0..2}]
=============================================================================
