----------------------------- MODULE PatternMeaning -----------------------------
(***************************************************************************)
(* What patterns mean, without instructions and without going back: a      *)
(* pattern is a sequence of items, and each item takes the first of its    *)
(* choices with which the rest of the pattern does not fail.               *)
(***************************************************************************)
EXTENDS Integers, Sequences, FiniteSetsExt, SequencesExt

Chars == {"a", "b", "1", "$"}

(* Items.  A set of characters stands for a class. *)
One(S) == [is |-> "repeat", S |-> S, least |-> 1, most |-> 1, greedy |-> TRUE]
Star(S) == [is |-> "repeat", S |-> S, least |-> 0, most |-> 99, greedy |-> TRUE]
Plus(S) == [is |-> "repeat", S |-> S, least |-> 1, most |-> 99, greedy |-> TRUE]
Minus(S) == [is |-> "repeat", S |-> S, least |-> 0, most |-> 99, greedy |-> FALSE]
Maybe(S) == [is |-> "repeat", S |-> S, least |-> 0, most |-> 1, greedy |-> TRUE]
OpenItem == [is |-> "open"]
CloseItem == [is |-> "close"]
Here == [is |-> "here"]
Again(n) == [is |-> "again", n |-> n]
Balanced(x, y) == [is |-> "balanced", x |-> x, y |-> y]
AtStart == [is |-> "start"]
AtEnd == [is |-> "end"]

(* A position, or a piece of the subject; one that is not closed has no end. *)
Fails == [is |-> "fails"]
Wrong == [is |-> "wrong"]
Matched(end, caps) == [is |-> "matched", end |-> end, caps |-> caps]

Run(t, S, s, most) == Max({n \in 0 .. Min({most, Len(t) - s}) : \A i \in s + 1 .. s + n : t[i] \in S})
Same(t, from, to, s) == s + (to - from) <= Len(t) /\ SubSeq(t, from + 1, to) = SubSeq(t, s + 1, s + (to - from))

Amount(t, from, n, ch) == Cardinality({i \in from + 1 .. from + n : t[i] = ch})
BalancedLengths(t, s, x, y) ==
  {n \in 2 .. Len(t) - s :
     /\ t[s + 1] = x /\ t[s + n] = y
     /\ x # y => /\ Amount(t, s, n, x) = Amount(t, s, n, y)
                 /\ \A k \in 1 .. n - 1 : Amount(t, s, k, x) > Amount(t, s, k, y)
     /\ x = y => \A k \in 2 .. n - 1 : t[s + k] # x}

RECURSIVE Outcome(_, _, _, _), FirstOutcome(_, _, _, _)

(* The outcome of the first of these places with which the rest succeeds. *)
FirstOutcome(items, t, places, caps) ==
  IF places = << >> THEN Fails
  ELSE LET o == Outcome(items, t, Head(places), caps)
       IN  IF o = Fails THEN FirstOutcome(items, t, Tail(places), caps) ELSE o

Outcome(items, t, s, caps) ==
  IF items = << >> THEN Matched(s, caps)
  ELSE
    LET item == Head(items)
        Rest(end, new) == Outcome(Tail(items), t, end, new)
        amounts == [i \in 1 .. Run(t, item.S, s, item.most) - item.least + 1 |-> s + item.least + i - 1]
        unclosed == {i \in DOMAIN caps : "to" \notin DOMAIN caps[i]}
        lengths == BalancedLengths(t, s, item.x, item.y)
    IN  CASE item.is = "repeat" -> FirstOutcome(Tail(items), t, IF item.greedy THEN Reverse(amounts) ELSE amounts, caps)
        []   item.is = "open" -> Rest(s, Append(caps, [from |-> s]))
        []   item.is = "close" -> LET i == Max(unclosed) IN Rest(s, [caps EXCEPT ![i] = [from |-> caps[i].from, to |-> s]])
        []   item.is = "here" -> Rest(s, Append(caps, [at |-> s + 1, to |-> s]))
        []   item.is = "again" ->
               IF item.n > Len(caps) \/ item.n \in unclosed THEN Wrong
               ELSE LET c == caps[item.n] IN IF Same(t, c.from, c.to, s) THEN Rest(s + (c.to - c.from), caps) ELSE Fails
        []   item.is = "balanced" -> IF lengths = {} THEN Fails ELSE Rest(s + Min(lengths), caps)
        []   item.is = "start" -> Rest(s, caps)
        []   item.is = "end" -> IF s = Len(t) THEN Rest(s, caps) ELSE Fails

(* Captures are closed as often as, and never before, they are opened. *)
Tally(items, n, what) == Cardinality({i \in 1 .. n : items[i].is = what})
WellFormed(items) ==
  /\ \A n \in DOMAIN items : Tally(items, n, "close") <= Tally(items, n, "open")
  /\ Tally(items, Len(items), "close") = Tally(items, Len(items), "open")
Anchored(items) == items # << >> /\ items[1].is = "start"

(* The matches from a position on, each at the first place that has one,
   from where the last one ended or one further when that was empty. *)
RECURSIVE FirstPlace(_, _, _, _), Found(_, _, _, _)
FirstPlace(items, t, s, last) ==
  IF s > last \/ Outcome(items, t, s, << >>) # Fails THEN s ELSE FirstPlace(items, t, s + 1, last)
Found(items, t, from, limit) ==
  LET last == IF Anchored(items) THEN from ELSE Len(t)
      s == IF from > Len(t) THEN from + 1 ELSE FirstPlace(items, t, from, last)
      o == Outcome(items, t, s, << >>)
      more == IF limit = 1 \/ Anchored(items) THEN << >> ELSE Found(items, t, Max({o.end, s + 1}), limit - 1)
  IN  CASE s > last -> << >>
      []   s <= last /\ o = Wrong -> <<Wrong>>
      []   OTHER -> IF Wrong \in Range(more) THEN <<Wrong>> ELSE <<[from |-> s, to |-> o.end, caps |-> o.caps]>> \o more

-----------------------------------------------------------------------------
(* The functions of the string library. *)

String(t, from, to) == [text |-> SubSeq(t, from + 1, to)]
CaptureOf(t, c) == IF "at" \in DOMAIN c THEN [pos |-> c.at] ELSE String(t, c.from, c.to)
CapturesOf(t, m) == [i \in DOMAIN m.caps |-> CaptureOf(t, m.caps[i])]
WholeOrCaptures(t, m) == IF m.caps = << >> THEN <<String(t, m.from, m.to)>> ELSE CapturesOf(t, m)

Referred(t, m, n) ==
  IF n = 0 THEN String(t, m.from, m.to) ELSE IF n = 1 THEN WholeOrCaptures(t, m)[1] ELSE CaptureOf(t, m.caps[n])
Shown(v) == IF "pos" \in DOMAIN v THEN <<ToString(v.pos)>> ELSE v.text

(* What a match is replaced by. *)
Replaced(t, m, c) ==
  IF c.name = "gsub"
  THEN FlattenSeq([i \in DOMAIN c.repl |-> IF "ref" \in DOMAIN c.repl[i] THEN Shown(Referred(t, m, c.repl[i].ref)) ELSE c.repl[i].text])
  ELSE LET key == WholeOrCaptures(t, m)[1] IN IF key \in DOMAIN c.table THEN c.table[key] ELSE SubSeq(t, m.from + 1, m.to)
Substituted(t, ms, c) ==
  LET After(i) == IF i = Len(ms) THEN Len(t) ELSE ms[i + 1].from
  IN  FlattenSeq(<<SubSeq(t, 1, ms[1].from)>> \o [i \in DOMAIN ms |-> Replaced(t, ms[i], c) \o SubSeq(t, ms[i].to + 1, After(i))])

Nil == [nil |-> TRUE]
IsError == [error |-> "some"]

(* What a call of find, match, gsub or gmatch gives; c.items is its pattern. *)
Meaning(c) ==
  LET t == c.subject
      ms == Found(c.items, t, c.offset, c.limit)
      OK == ~c.plain /\ WellFormed(c.items) /\ Wrong \notin Range(ms)
      plain == {s \in c.offset .. Len(t) : \A i \in DOMAIN c.pattern : s + i <= Len(t) /\ t[s + i] = c.pattern[i]}
      Gives(values) == [values |-> values]
  IN  CASE c.plain -> Gives(IF plain = {} THEN <<Nil>> ELSE <<[pos |-> Min(plain) + 1], [pos |-> Min(plain) + Len(c.pattern)]>>)
      []   ~c.plain /\ ~OK -> IsError
      []   OK /\ c.name = "find" ->
             Gives(IF ms = << >> THEN <<Nil>> ELSE <<[pos |-> ms[1].from + 1], [pos |-> ms[1].to]>> \o CapturesOf(t, ms[1]))
      []   OK /\ c.name = "match" -> Gives(IF ms = << >> THEN <<Nil>> ELSE WholeOrCaptures(t, ms[1]))
      []   OK /\ c.name \in {"gsub", "gsubTable"} ->
             IF c.name = "gsub" /\ ms # << >> /\ \E i \in DOMAIN c.repl : "ref" \in DOMAIN c.repl[i] /\ c.repl[i].ref > Max({1, Len(ms[1].caps)})
             THEN IsError
             ELSE Gives(<<[text |-> IF ms = << >> THEN t ELSE Substituted(t, ms, c)], [pos |-> Len(ms)]>>)
      []   OK /\ c.name = "gmatch" -> Gives([i \in DOMAIN ms |-> WholeOrCaptures(t, ms[i])])
===============================================================================
