------------------------------- MODULE MCPaint -------------------------------
(***************************************************************************)
(* A small instance of Paint: "r" with "a", which has "c" and "d" in it,    *)
(* and "b" after it.                                                        *)
(***************************************************************************)
EXTENDS Paint, TLC

MCOpen == ("r" :> 1) @@ ("a" :> 2) @@ ("c" :> 3) @@ ("d" :> 5) @@ ("b" :> 8)
MCClose == ("r" :> 10) @@ ("a" :> 7) @@ ("c" :> 4) @@ ("d" :> 6) @@ ("b" :> 9)

Block == [positioned |-> FALSE, z |-> 0, auto |-> TRUE, float |-> FALSE,
          translucent |-> FALSE, transformed |-> FALSE, inline |-> FALSE,
          visible |-> TRUE, body |-> FALSE]
Float == [Block EXCEPT !.float = TRUE]
Inline == [Block EXCEPT !.inline = TRUE]
Faint == [Block EXCEPT !.translucent = TRUE]
Turned == [Block EXCEPT !.transformed = TRUE]
Relative == [Block EXCEPT !.positioned = TRUE]
At(z) == [Relative EXCEPT !.auto = FALSE, !.z = z]
MCStyles ==
  ("r" :> {Block})
  @@ ("a" :> {Block, Float, Relative, Turned, Faint, At(-1), [Block EXCEPT !.body = TRUE],
              [Block EXCEPT !.visible = FALSE]})
  @@ ("c" :> {Block, Float, Inline, Relative, At(-1), At(1), Turned})
  @@ ("d" :> {Block, Inline, Faint, At(1)})
  @@ ("b" :> {Block, Float, Inline, Faint, At(-1), At(0), At(1), At(2),
              [Block EXCEPT !.visible = FALSE]})
=============================================================================
