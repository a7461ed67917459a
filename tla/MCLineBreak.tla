---------------------------- MODULE MCLineBreak ----------------------------
(***************************************************************************)
(* Texts of a few characters for LineBreak, by the rules they exercise.    *)
(***************************************************************************)
EXTENDS LineBreak

Char(class) == [class |-> class, han |-> FALSE, dash |-> FALSE, plane |-> FALSE,
                space |-> class \in {"SP", "BK", "CR", "LF"}, units |-> 1, data |-> 1]
Chars(classes) == {Char(c) : c \in classes}
Han == [Char("ID") EXCEPT !.han = TRUE]
Emoji == [Char("EB") EXCEPT !.units = 2, !.data = 2]
Sharp == [Char("AL") EXCEPT !.units = 2]     \* a sharp s, in upper case SS
Tab == [Char("BA") EXCEPT !.space = TRUE]
NoBreakSpace == [Char("GL") EXCEPT !.space = TRUE]
Dash == [Char("BA") EXCEPT !.dash = TRUE]
TextsOf(chars, n) == UNION {[1..k -> chars] : k \in 1..n}

MCTexts ==
  TextsOf(Chars({"PR", "HY", "OP", "NU", "IS", "CP", "AL"}), 4)
  \cup [1..5 -> Chars({"PR", "HY", "NU", "CP"})]
  \cup TextsOf(Chars({"SP", "QU", "OP", "CL", "NS", "B2", "ZW"}), 3)
  \cup TextsOf(Chars({"CR", "LF", "SP", "CM"}) \cup {Han, Emoji, Sharp}, 3)
  \cup TextsOf(Chars({"RI", "AL"}), 5)
  \cup TextsOf(Chars({"JL", "JV", "JT", "H2", "H3", "PO", "IN"}), 2)
  \cup TextsOf({Tab, NoBreakSpace, Han} \cup Chars({"SP", "AL", "NL"}), 3)
  \cup TextsOf({Dash, [Char("XX") EXCEPT !.plane = TRUE], [Char("XX") EXCEPT !.units = 2, !.data = 2]}
               \cup Chars({"CJ", "SA", "AI", "BB", "CB", "HL", "SY", "GL", "WJ", "EM", "EX", "ZWJ"}), 2)
MCOptions ==
  {[lineBreak |-> "normal", wordBreak |-> w, letterRendering |-> FALSE, rangeBounds |-> TRUE,
    decorated |-> FALSE] : w \in {"normal", "break-all", "keep-all"}}
  \cup {[lineBreak |-> "strict", wordBreak |-> "normal", letterRendering |-> l, rangeBounds |-> FALSE,
         decorated |-> l] : l \in BOOLEAN}

MarkTexts == TextsOf({Han} \cup Chars({"AL", "CM"}), 3)
=============================================================================
