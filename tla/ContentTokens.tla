---------------------------- MODULE ContentTokens ----------------------------
(***************************************************************************)
(* parseContent: the `content' of a pseudo-element, as the browser writes   *)
(* it, cut into tokens in one pass.  A text is a sequence of lexemes: a     *)
(* quotation mark, a backslash, a bracket, a comma, a space or a word.      *)
(***************************************************************************)
EXTENDS Naturals, Sequences

\* open-quote and close-quote; any other word is passed over.
addOtherToken(tokens, identifier) ==
  CASE identifier = <<"open-quote">> -> Append(tokens, [type |-> "open"])
    [] identifier = <<"close-quote">> -> Append(tokens, [type |-> "close"])
    [] OTHER -> tokens

\* The names and formats of counters are words.
Word(str) == str[1]
Argument(args, i) == IF Len(args) >= i THEN args[i] ELSE <<>>
\* What a function with at least one argument becomes.
functionTokens(name, args) ==
  IF args = <<>> THEN <<>>
  ELSE CASE name = <<"attr">> -> <<[type |-> "attr", name |-> Word(args[1])]>>
         [] name = <<"url">> -> <<[type |-> "url", value |-> args[1]]>>
         [] name = <<"counter">> ->
              <<[type |-> "counter", name |-> Word(args[1]), format |-> Argument(args, 2)]>>
         [] name = <<"counters">> ->
              <<[type |-> "counters", name |-> Word(args[1]), glue |-> Argument(args, 2),
                 format |-> Argument(args, 3)]>>
         [] OTHER -> <<>>

Lexing == [tokens |-> <<>>, str |-> <<>>, isString |-> FALSE, isEscaped |-> FALSE,
           isFunction |-> FALSE, functionName |-> <<>>, args |-> <<>>]
Keep(s, c) == [s EXCEPT !.str = Append(@, c)]

\* Either kind of mark opens a string, and either closes it.
Mark(s, c) ==
  IF s.isEscaped THEN Keep(s, c)
  ELSE IF s.isString /\ ~s.isFunction
    THEN [s EXCEPT !.isString = FALSE, !.str = <<>>,
                   !.tokens = Append(@, [type |-> "string", value |-> s.str])]
  ELSE [s EXCEPT !.isString = ~@]
OpenBracket(s) ==
  [s EXCEPT !.isFunction = TRUE, !.functionName = s.str, !.str = <<>>, !.args = <<>>]
CloseBracket(s) ==
  IF ~s.isFunction THEN s
  ELSE LET args == IF s.str # <<>> THEN Append(s.args, s.str) ELSE s.args
       IN  [s EXCEPT !.args = args, !.tokens = @ \o functionTokens(s.functionName, args),
                     !.isFunction = FALSE, !.str = <<>>]
Comma(s) == IF s.isFunction THEN [s EXCEPT !.args = Append(@, s.str), !.str = <<>>] ELSE s
Space(s) == IF s.str # <<>> THEN [s EXCEPT !.tokens = addOtherToken(@, s.str), !.str = <<>>] ELSE s

\* A bug: brackets count in strings too.
LexemeBracketed(s, c) ==
  LET r == CASE c \in {"'", "\""} -> Mark(s, c)
             [] c = "(" -> OpenBracket(s)
             [] c = ")" -> CloseBracket(s)
             [] c = "," /\ ~s.isString -> Comma(s)
             [] c \in {" ", "\t"} /\ ~s.isString -> Space(s)
             [] OTHER -> Keep(s, c)
  IN  IF c # "\\" THEN [r EXCEPT !.isEscaped = FALSE]
      ELSE IF s.isEscaped THEN [r EXCEPT !.isEscaped = FALSE] ELSE [s EXCEPT !.isEscaped = TRUE]
Lexeme(s, c) ==
  LET r == CASE c \in {"'", "\""} -> Mark(s, c)
             [] c = "(" /\ ~s.isString -> OpenBracket(s)
             [] c = ")" /\ ~s.isString -> CloseBracket(s)
             [] c = "," /\ ~s.isString -> Comma(s)
             [] c \in {" ", "\t"} /\ ~s.isString -> Space(s)
             [] OTHER -> Keep(s, c)
  IN  IF c # "\\" THEN [r EXCEPT !.isEscaped = FALSE]
      ELSE IF s.isEscaped THEN [r EXCEPT !.isEscaped = FALSE] ELSE [s EXCEPT !.isEscaped = TRUE]

\* The state s of the loop after a text.
Lexed(s, text) ==
  LET state[i \in 0..Len(text)] == IF i = 0 THEN s ELSE Lexeme(state[i - 1], text[i])
  IN  state[Len(text)]
parseContent(content) ==
  LET end == Lexed(Lexing, content)
  IN  IF end.str # <<>> THEN addOtherToken(end.tokens, end.str) ELSE end.tokens

-----------------------------------------------------------------------------
(* How a browser writes the tokens of a computed `content'.                 *)

\* Texts one after another, and what is put between them.
Joined(texts, between) ==
  LET text[i \in 0..Len(texts)] ==
        IF i = 0 THEN <<>> ELSE text[i - 1] \o (IF i = 1 THEN <<>> ELSE between) \o texts[i]
  IN  text[Len(texts)]
\* Control characters are written as their number and a space after it; these are the
\* ones that TLA+ can write.
Controls == {"\t", "\n", "\f", "\r"}
Hex(c) == CASE c = "\t" -> "9" [] c = "\n" -> "a" [] c = "\f" -> "c" [] c = "\r" -> "d"
Escaped(c) ==
  IF c \in {"\"", "\\"} THEN <<"\\", c>> ELSE IF c \in Controls THEN <<"\\", Hex(c), " ">> ELSE <<c>>
Quoted(value) == <<"\"">> \o Joined([i \in DOMAIN value |-> Escaped(value[i])], <<>>) \o <<"\"">>
Further(arg) == IF arg = <<>> THEN <<>> ELSE <<",", " ">> \o arg
Call(name, arguments) == <<name, "(">> \o arguments \o <<")">>
Written(t) ==
  CASE t.type = "string" -> Quoted(t.value)
    [] t.type = "attr" -> Call("attr", <<t.name>>)
    [] t.type = "url" -> Call("url", Quoted(t.value))
    [] t.type = "counter" -> Call("counter", <<t.name>> \o Further(t.format))
    [] t.type = "counters" ->
         Call("counters", <<t.name>> \o Further(Quoted(t.glue)) \o Further(t.format))
    [] t.type = "open" -> <<"open-quote">>
    [] t.type = "close" -> <<"close-quote">>
Content(tokens) == Joined([i \in DOMAIN tokens |-> Written(tokens[i])], <<" ">>)

\* The tokens an author can write.  No string has an apostrophe in it: parseContent
\* would take that for the end of the string; and it takes no token for an empty url.
Words == STRING \ ({"'", "\"", "\\", "(", ")", ",", " "} \cup Controls)
Formats == {f \in Seq(Words) : Len(f) <= 1}
TokensOver(values) ==
  [type : {"string"}, value : values] \cup [type : {"url"}, value : values \ {<<>>}]
  \cup [type : {"attr"}, name : Words]
  \cup [type : {"counter"}, name : Words, format : Formats]
  \cup [type : {"counters"}, name : Words, glue : values, format : Formats]
  \cup [type : {"open", "close"}]
Values == Seq(STRING \ {"'"})
Tokens == TokensOver(Values)

\* What parseContent keeps of them: of a control character the number and the space.
KeptLexeme(c) == IF c \in Controls THEN <<Hex(c), " ">> ELSE <<c>>
Kept(value) == Joined([i \in DOMAIN value |-> KeptLexeme(value[i])], <<>>)
KeptToken(t) ==
  CASE t.type \in {"string", "url"} -> [t EXCEPT !.value = Kept(@)]
    [] t.type = "counters" -> [t EXCEPT !.glue = Kept(@)]
    [] OTHER -> t
\* So it keeps the whole of these.
ReadableValues == Seq(STRING \ ({"'"} \cup Controls))
Readable == TokensOver(ReadableValues)
=============================================================================
