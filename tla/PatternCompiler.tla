---------------------------- MODULE PatternCompiler ----------------------------
(***************************************************************************)
(* pm/pm.go as far as it turns the text of a pattern into instructions.  A *)
(* text is a sequence of one-letter strings; the scanner is the position   *)
(* of its next character.                                                  *)
(***************************************************************************)
EXTENDS Integers, Sequences, SequencesExt

-----------------------------------------------------------------------------
(* Parsing. *)

At(t, i) == IF i <= Len(t) THEN t[i] ELSE "EOS"
Char(ch) == [is |-> "char", ch |-> ch]
Single(class) == [is |-> "single", class |-> class]
Error(message) == [error |-> message]

parseClass(t, i) ==
  IF At(t, i) = "%" THEN [class |-> [is |-> "class", ch |-> At(t, i + 1)], next |-> i + 2]
  ELSE [class |-> Char(t[i]), next |-> i + 1]

(* A '-' that something precedes makes a range of it and what follows. *)
Ranged(classes) ==
  LET n == Len(classes)
  IN  Append(SubSeq(classes, 1, n - 2), [is |-> "range", begin |-> classes[n - 1], end |-> classes[n]])

RECURSIVE SetItems(_, _, _, _)
SetItems(t, i, classes, isrange) ==
  CASE At(t, i) = "EOS" -> Error("unexpected EOS")
  []   At(t, i) = "]" /\ classes # << >> -> [classes |-> IF isrange THEN Append(classes, Char("-")) ELSE classes, next |-> i + 1]
  []   At(t, i) = "-" /\ classes # << >> -> SetItems(t, i + 1, classes, TRUE)
  []   OTHER ->
         LET c == parseClass(t, i)
             all == Append(classes, c.class)
         IN  SetItems(t, c.next, IF isrange THEN Ranged(all) ELSE all, FALSE)

parseClassSet(t, i) ==
  LET isNot == At(t, i) = "^"
      items == SetItems(t, IF isNot THEN i + 1 ELSE i, << >>, FALSE)
  IN  IF "error" \in DOMAIN items THEN items
      ELSE [pattern |-> Single([is |-> "set", isNot |-> isNot, classes |-> items.classes]), next |-> items.next]

Digits == <<"1", "2", "3", "4", "5", "6", "7", "8", "9">>
parsePercent(t, i) ==
  LET ch == At(t, i + 1)
  IN  CASE ch = "0" -> Error("invalid capture index")
      []   ch \in Range(Digits) -> [pattern |-> [is |-> "number", n |-> CHOOSE n \in 1 .. 9 : Digits[n] = ch], next |-> i + 2]
      []   ch = "b" -> [pattern |-> [is |-> "brace", begin |-> At(t, i + 2), end |-> At(t, i + 3)], next |-> i + 4]
      []   OTHER -> LET c == parseClass(t, i) IN [pattern |-> Single(c.class), next |-> c.next]

(* A repetition applies to a single character class; elsewhere, as '$' that
   is not at the end, it is a character. *)
parseRepeat(t, i, pats) ==
  IF pats # << >> /\ Last(pats).is = "single"
  THEN Append(Front(pats), [is |-> "repeat", type |-> t[i], class |-> Last(pats).class])
  ELSE Append(pats, Single(Char(t[i])))

RECURSIVE Sequence(_, _, _, _)
Sequence(t, i, toplevel, pats) ==
  LET ch == At(t, i)
      Take(item) == IF "error" \in DOMAIN item THEN item ELSE Sequence(t, item.next, toplevel, Append(pats, item.pattern))
      inner == Sequence(t, i + 1, FALSE, << >>)
  IN  CASE ch = "EOS" -> [pats |-> pats, next |-> i, tail |-> FALSE]
      []   ch = ")" -> IF toplevel THEN Error("invalid ')'") ELSE [pats |-> pats, next |-> i, tail |-> FALSE]
      []   ch = "$" /\ toplevel /\ i = Len(t) -> [pats |-> pats, next |-> i + 1, tail |-> TRUE]
      []   ch \in {"*", "+", "-", "?"} -> Sequence(t, i + 1, toplevel, parseRepeat(t, i, pats))
      []   ch = "%" -> Take(parsePercent(t, i))
      []   ch = "[" -> Take(parseClassSet(t, i + 1))
      []   ch = "(" ->
             IF At(t, i + 1) = ")" THEN Take([pattern |-> [is |-> "posCap"], next |-> i + 2])
             ELSE IF "error" \in DOMAIN inner THEN inner
             ELSE IF At(t, inner.next) # ")" THEN Error("unfinished capture")
             ELSE Take([pattern |-> [is |-> "cap", pats |-> inner.pats], next |-> inner.next + 1])
      []   OTHER -> Take([pattern |-> Single(IF ch = "." THEN [is |-> "dot"] ELSE Char(ch)), next |-> i + 1])

parsePattern(t) ==
  LET head == At(t, 1) = "^"
      seq == Sequence(t, IF head THEN 2 ELSE 1, TRUE, << >>)
  IN  IF "error" \in DOMAIN seq THEN seq ELSE [head |-> head, tail |-> seq.tail, pats |-> seq.pats]

-----------------------------------------------------------------------------
(* Compiling. *)

OpChar(class) == [op |-> "char", class |-> class]
Op(op, operand) == [op |-> op, to |-> operand]
Split(first, second) == [op |-> "split", first |-> first, second |-> second]

MutantRepeatInsts(type, class, idx) ==
  CASE type = "*" -> <<Split(idx + 1, idx + 3), OpChar(class), Op("jmp", idx)>>
  []   type = "+" -> <<OpChar(class), Split(idx, idx + 2)>>
  []   type = "-" -> <<Split(idx + 3, idx + 1), OpChar(class), Op("jmp", idx)>>
  []   type = "?" -> <<Split(idx + 1, idx), OpChar(class)>>
RepeatInsts(type, class, idx) ==
  CASE type = "*" -> <<Split(idx + 1, idx + 3), OpChar(class), Op("jmp", idx)>>
  []   type = "+" -> <<OpChar(class), Split(idx, idx + 2)>>
  []   type = "-" -> <<Split(idx + 3, idx + 1), OpChar(class), Op("jmp", idx)>>
  []   type = "?" -> <<Split(idx + 1, idx + 2), OpChar(class)>>

(* ptr holds the instructions so far and the next slot for a capture. *)
Emit(ptr, code, slots) == [insts |-> ptr.insts \o code, capture |-> ptr.capture + slots]
RECURSIVE CompileAll(_, _)
CompileAll(pats, ptr) ==
  IF pats = << >> THEN ptr
  ELSE LET p == Head(pats)
           done ==
             CASE p.is = "single" -> Emit(ptr, <<OpChar(p.class)>>, 0)
             []   p.is = "repeat" -> Emit(ptr, RepeatInsts(p.type, p.class, Len(ptr.insts)), 0)
             []   p.is = "posCap" -> Emit(ptr, <<Op("psave", ptr.capture)>>, 2)
             []   p.is = "brace" -> Emit(ptr, <<[op |-> "brace", begin |-> p.begin, end |-> p.end]>>, 0)
             []   p.is = "number" -> Emit(ptr, <<Op("number", p.n)>>, 0)
             []   p.is = "cap" ->
                    LET inner == CompileAll(p.pats, Emit(ptr, <<Op("save", ptr.capture)>>, 2))
                    IN  Emit(inner, <<Op("save", ptr.capture + 1)>>, 0)
       IN  CompileAll(Tail(pats), done)

Saved(op) == <<Op("save", 1), [op |-> op]>>
compilePattern(pat) ==
  CompileAll(pat.pats, [insts |-> <<Op("save", 0)>>, capture |-> 2]).insts
    \o (IF pat.tail THEN Saved("tailMatch") ELSE << >>) \o Saved("match")


(* What Find makes of a pattern before it looks at the subject. *)
Compilation(t) ==
  LET pat == parsePattern(t)
  IN  IF "error" \in DOMAIN pat THEN pat ELSE [head |-> pat.head, insts |-> compilePattern(pat)]
===============================================================================
