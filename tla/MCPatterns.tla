------------------------------ MODULE MCPatterns ------------------------------
(***************************************************************************)
(* Patterns for TLC: sequences of a few pieces, each with the item that it *)
(* stands for, matched against a few short strings.                        *)
(***************************************************************************)
EXTENDS PatternMachine

CONSTANT MeaningOf(_)  \* what the Lua manual says a call gives

C == INSTANCE PatternCompiler
M == INSTANCE PatternMeaning

Compilation(text) == LET compilation == C!Compilation(text) IN compilation
Meant(c) == LET meaning == M!Meaning(c) IN meaning

AllMembers == [a |-> {"a", "b"}, d |-> {"1"}]
AllLower == [A |-> "a", D |-> "d"]
AllCode == [ch \in {"a", "b", "1", "$", "-"} |-> CASE ch = "$" -> 36 [] ch = "-" -> 45 [] ch = "1" -> 49 [] ch = "a" -> 97 [] ch = "b" -> 98]

Piece(text, item) == [text |-> text, item |-> item]
AnyChar == M!Chars
Open == Piece(<<"(">>, M!OpenItem)
Close == Piece(<<")">>, M!CloseItem)
Start == Piece(<<"^">>, M!AtStart)
End == Piece(<<"$">>, M!AtEnd)
Dollar == Piece(<<"$">>, M!One({"$"}))
PosCap == Piece(<<"(", ")">>, M!Here)
First == Piece(<<"%", "1">>, M!Again(1))
Second == Piece(<<"%", "2">>, M!Again(2))
A == Piece(<<"a">>, M!One({"a"}))
Bs == Piece(<<"b", "*">>, M!Star({"b"}))
Dots == Piece(<<".", "-">>, M!Minus(AnyChar))
MaybeA == Piece(<<"a", "?">>, M!Maybe({"a"}))
NotA == Piece(<<"[", "^", "a", "]", "+">>, M!Plus(AnyChar \ {"a"}))
Letters == Piece(<<"%", "a", "+">>, M!Plus({"a", "b"}))
Ranges == Piece(<<"[", "1", "-", "a", "$", "]">>, M!One({"1", "a", "$"}))
NotDigits == Piece(<<"[", "%", "D", "-", "]", "*">>, M!Star(AnyChar \ {"1"}))
Bracket == Piece(<<"%", "b", "a", "b">>, M!Balanced("a", "b"))
Quoted == Piece(<<"%", "b", "a", "a">>, M!Balanced("a", "a"))

Short == {<<p>> : p \in {A, Bs, Dots, MaybeA, NotA, Letters, Ranges, NotDigits, Bracket, Quoted, PosCap, First, Close}}
Middle == {A, Bs, Dots, MaybeA, Bracket, PosCap}
Pairs == {<<p, q>> : p \in Middle, q \in Middle}
Captured == {<<Open, p, Close, q, First>> : p \in {A, Bs, Dots, Letters}, q \in {Bs, Dots, MaybeA, Dollar}}
Nested ==
  {<<Open, p, Open, q, Close, Close, r>> : p \in {A, Bs}, q \in {Dots, Letters}, r \in {A, First, Second}}
    \cup {<<Open, p, First, Close>> : p \in {A, Bs}} \cup {<<Open, A>>, <<PosCap, Open, Dots, Close, Second>>}
Triples == {<<p, q, r>> : p \in {A, Dots, PosCap}, q \in {Bs, Dots, MaybeA, Dollar}, r \in {MaybeA, NotA, Bracket}}
Bodies == Short \cup Pairs \cup Triples \cup Captured \cup Nested \cup {<< >>}

Sequences == Bodies \cup {b \o <<End>> : b \in Bodies} \cup {<<Start>> \o b : b \in Bodies} \cup {<<Start>> \o b \o <<End>> : b \in Captured}
Subjects == {<< >>, <<"a", "b">>, <<"b", "a", "a">>, <<"a", "a", "b", "b">>, <<"1", "a", "$">>}

Text(p) == FlattenSeq([i \in DOMAIN p |-> p[i].text])
Items(p) == [i \in DOMAIN p |-> p[i].item]
CallOf(name, p, t, offset, limit) ==
  [name |-> name, pattern |-> Text(p), items |-> Items(p), plain |-> FALSE, subject |-> t, offset |-> offset, limit |-> limit,
   repl |-> <<[text |-> <<"<">>], [ref |-> 1], [ref |-> 0]>>,
   table |-> ([text |-> <<"a">>] :> <<"A", "A">>) @@ ([pos |-> 2] :> << >>)]
AllCalls ==
  {CallOf("find", p, t, 0, 1) : p \in Sequences, t \in Subjects}
    \cup {CallOf("match", p, t, 1, 1) : p \in Sequences, t \in Subjects \ {<< >>}}
    \cup {CallOf(n, p, t, 0, -1) : n \in {"gsub", "gsubTable"}, p \in Sequences, t \in Subjects}
    \cup {CallOf("gsub", p, t, 0, n) : p \in Pairs \cup Captured, t \in Subjects, n \in {1, 2}}
    \cup {[CallOf("find", p, t, i, 1) EXCEPT !.plain = TRUE] : p \in {<<A>>, <<A, Dollar>>, <<A, A>>}, t \in Subjects \ {<< >>}, i \in {0, 1}}
    \cup {CallOf("gmatch", p, t, 0, -1) : p \in {q \in Sequences : q = << >> \/ q[1] # Start}, t \in Subjects}

-----------------------------------------------------------------------------

(* match that finds nothing returns nothing, where it should return nil. *)
Given ==
  IF reply = [values |-> << >>] /\ call.name = "match" THEN [values |-> <<Nil>>]
  ELSE IF "error" \in DOMAIN reply /\ reply.error # "panic" THEN M!IsError ELSE reply

(* find, match, gsub and gmatch give what the pattern means: the captures of
   the first way to match, in the order of the choices, at the first place,
   and text put together from what was not matched and what replaces the
   rest.  Whatever instructions were tried before, and whatever captures
   they set, does not show. *)
MatchesAsMeant == phase = "done" => Given = MeaningOf(call)

(* Each call ends: no repetition goes round without reading on, and Find gets
   past matches that are empty. *)
CallsEnd == <>(phase = "done")
===============================================================================
