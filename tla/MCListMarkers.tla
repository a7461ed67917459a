--------------------------- MODULE MCListMarkers ---------------------------
(***************************************************************************)
(* Documents for ListMarkers: lists in lists, items with values and hidden *)
(* items, and lists that start where the counter styles have their edges.  *)
(***************************************************************************)
EXTENDS ListMarkers

Element(tag, parent) ==
  [tag |-> tag, parent |-> parent, start |-> <<>>, value |-> <<>>, type |-> "decimal", visible |-> TRUE]
Item(parent, value) == [Element("LI", parent) EXCEPT !.value = value]
Hidden(parent) == [Element("LI", parent) EXCEPT !.visible = FALSE]
Starts == {-9999, -101, -1, 9, 10, 19, 24, 25, 26, 47, 48, 99, 100, 109, 110, 399, 700, 702,
           728, 999, 1000, 1009, 1109, 1998, 3887, 3998, 5039, 9998, 19998}
Types == {"decimal", "decimal-leading-zero", "thai", "lower-greek", "lower-alpha", "cjk-decimal",
          "cjk-earthly-branch", "cjk-heavenly-stem", "hiragana", "katakana-iroha", "upper-roman",
          "armenian", "georgian", "hebrew", "cjk-ideographic", "trad-chinese-formal", "disc",
          "japanese-informal", "japanese-formal", "malayalam", "lower-latin", "none"}
Long(type, start) ==
  <<[Element("OL", 0) EXCEPT !.start = <<start>>]>>
    \o [i \in 1..3 |-> [Element("LI", 1) EXCEPT !.type = type]]
Values == {<<>>, <<7>>}
MCDocs ==
  {Long(type, start) : type \in Types, start \in Starts}
  \cup {<<[Element("OL", 0) EXCEPT !.start = s], Item(1, a), Item(1, <<>>), Element(inner, 3),
          Item(4, b), Hidden(4), Item(1, c), Item(4, <<>>)>> :
          s \in {<<>>, <<3>>}, inner \in {"UL", "OL", "DIV"}, a, b, c \in Values}
  \cup {<<Element("DIV", 0), Item(1, a), Element("DIV", 0), Item(3, b), Item(1, <<>>), Item(0, <<>>)>> :
          a, b \in Values}
=============================================================================
