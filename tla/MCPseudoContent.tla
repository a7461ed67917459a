--------------------------- MODULE MCPseudoContent ---------------------------
(***************************************************************************)
(* A small instance of PseudoContent: a list "ol" with the items "a" and   *)
(* "b", the second with a list "sub" of its own, and a paragraph "p" after. *)
(***************************************************************************)
EXTENDS PseudoContent, TLC

MCOpen == ("ol" :> 1) @@ ("a" :> 2) @@ ("b" :> 4) @@ ("sub" :> 5) @@ ("p" :> 9)
MCClose == ("ol" :> 8) @@ ("a" :> 3) @@ ("b" :> 7) @@ ("sub" :> 6) @@ ("p" :> 10)

Plain == [reset |-> <<>>, before |-> NoContent, after |-> NoContent, quotes |-> 4,
          ignored |-> FALSE]
Say(incr, tokens) == [incr |-> incr, tokens |-> tokens]
Value == [type |-> "counter", name |-> "c", format |-> <<"thai">>]
Path == [type |-> "counters", name |-> "c", glue |-> <<",", " ">>, format |-> <<>>]
Roman == [type |-> "counters", name |-> "c", glue |-> <<>>, format |-> <<"upper-roman">>]
Note == [type |-> "string", value |-> <<"(", "see", " ", "\"", "\\", ")">>]
Link == [type |-> "url", value |-> <<"a", ",", "b">>]
Name == [type |-> "attr", name |-> "title"]
OpenMark == [type |-> "open"]
CloseMark == [type |-> "close"]
Reset(v) == [name |-> "c", value |-> v]
Late == [type |-> "counter", name |-> "c", format |-> <<"upper-roman">>]

Numbered == [Plain EXCEPT !.before = Say(<<"c", 1>>, <<Path>>)]
Lists == {Plain, [Plain EXCEPT !.reset = <<Reset(0)>>],
          [Plain EXCEPT !.reset = <<Reset(3), [name |-> "d", value |-> 0]>>,
                        !.after = Say(<<>>, <<Note, Value, Note>>)]}
Items == {Numbered, [Numbered EXCEPT !.ignored = TRUE],
          [Plain EXCEPT !.before = Say(<<>>, <<OpenMark>>), !.after = Say(<<>>, <<CloseMark>>)]}
MCStyles ==
  ("ol" :> Lists \cup {[Plain EXCEPT !.before = Say(<<>>, <<OpenMark, OpenMark>>)]}) @@ ("a" :> Items) @@ ("b" :> Items \cup {[Numbered EXCEPT !.reset = <<Reset(7)>>]})
  @@ ("sub" :> Lists \cup {[Numbered EXCEPT !.after = Say(<<"c", 2>>, <<OpenMark, Roman, CloseMark>>)]})
  @@ ("p" :> {Plain, [Plain EXCEPT !.before = Say(<<"c", 1>>, <<Name, Value, Link, OpenMark>>)],
              [Plain EXCEPT !.quotes = 1, !.before = Say(<<>>, <<OpenMark>>)],
              [Plain EXCEPT !.quotes = 1, !.before = Say(<<>>, <<OpenMark, OpenMark>>)],
              [Plain EXCEPT !.quotes = 1, !.before = Say(<<>>, <<CloseMark>>),
                            !.after = Say(<<>>, <<CloseMark>>)],
              [Plain EXCEPT !.quotes = 2,
                            !.before = Say(<<>>, <<OpenMark, OpenMark, CloseMark, CloseMark>>)],
              [Plain EXCEPT !.ignored = TRUE],
              [Plain EXCEPT !.before = Say(<<>>, <<Late>>)],
              [Plain EXCEPT !.before = Say(<<"d", 1>>, <<CloseMark, Path>>)]})
=============================================================================
