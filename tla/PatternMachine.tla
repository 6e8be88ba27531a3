------------------------------- MODULE PatternMachine -------------------------------
(***************************************************************************)
(* Matching: Find and the machine of pm/pm.go, which runs the instructions *)
(* of a pattern and goes back to the last choice when it fails, and the    *)
(* functions of stringlib.go that use it.  Go's recursion of the machine   *)
(* is a stack here.  A string is a sequence of one-letter strings;         *)
(* positions count from 0 as in the code.                                  *)
(***************************************************************************)
EXTENDS Integers, Sequences, FiniteSetsExt, SequencesExt

CONSTANTS
  Compiled(_),  \* what the compiler makes of the text of a pattern
  Calls,    \* calls of find, match, gsub and gmatch: records, see MatchInit
  Members,  \* of the lower-case letters that name classes: the characters
  Lower,    \* of the upper-case ones: the lower-case one
  Code      \* of characters: their order

(* What programs look like: no instruction leads out of the program. *)
IsProgram(insts) ==
  LET Inside(n) == n + 1 \in DOMAIN insts
  IN  /\ Len(insts) \in Nat \ {0} /\ DOMAIN insts = 1 .. Len(insts)
      /\ \A k \in DOMAIN insts :
           LET i == insts[k]
           IN  /\ i.op \in {"char", "brace", "save", "psave", "number"} => Inside(k)
               /\ i.op \in {"save", "psave", "number"} => i.to \in Nat
               /\ i.op = "jmp" => i.to \in Nat /\ Inside(i.to)
               /\ i.op = "split" => {i.first, i.second} \subseteq Nat /\ Inside(i.first) /\ Inside(i.second)
               /\ i.op \in {"char", "brace", "save", "psave", "number", "jmp", "split", "match", "tailMatch"}
ASSUME CallsAssumption ==
  \A c \in Calls :
    /\ c.offset \in Nat /\ c.subject \in Seq(DOMAIN Code)
    /\ "error" \in DOMAIN Compiled(c.pattern) \/ IsProgram(Compiled(c.pattern).insts)

VARIABLES
  call,      \* the call
  phase,     \* call, try, run, fail, found, loop, or done
  compiled,  \* what the compiler makes of its pattern
  start, pc, sp, captures,       \* the machine, and where Find started it
  stack,     \* what the calls of recursiveVM do when those they made fail
  matches,   \* what Find has found
  reply     \* what the caller gets
machine == <<pc, sp, captures, stack>>
matchVars == <<call, phase, compiled, start, machine, matches, reply>>

Error(message) == [error |-> message]

-----------------------------------------------------------------------------
(* Classes and captures. *)

classMatches(c, ch) ==
  CASE c \in DOMAIN Members -> ch \in Members[c]
  []   c \in DOMAIN Lower -> ch \notin Members[Lower[c]]
  []   OTHER -> ch = c
rangeMatches(r, ch) ==
  r.begin.is = "char" /\ r.end.is = "char" /\ Code[r.begin.ch] <= Code[ch] /\ Code[ch] <= Code[r.end.ch]
OneMatches(c, ch) ==
  CASE c.is = "dot" -> TRUE
  []   c.is = "char" -> ch = c.ch
  []   c.is = "class" -> classMatches(c.ch, ch)
  []   c.is = "range" -> rangeMatches(c, ch)
Matches(c, ch) ==
  IF c.is = "set" THEN (\E i \in DOMAIN c.classes : OneMatches(c.classes[i], ch)) # c.isNot ELSE OneMatches(c, ch)

Slot(at, isPos) == [at |-> at, isPos |-> isPos]
WithSlot(m, s, v) ==
  [i \in 1 .. Max({Len(m), s + 1}) |-> IF i = s + 1 THEN v ELSE IF i <= Len(m) THEN m[i] ELSE Slot(0, FALSE)]
setCapture(m, s, at) == WithSlot(m, s, Slot(at, FALSE))
addPosCapture(m, s, at) == WithSlot(WithSlot(m, s, Slot(at, TRUE)), s + 1, Slot(at, TRUE))
Capture(m, idx) == m[idx + 1].at

Nil == [nil |-> TRUE]

(* What a capture is to a program: a position or a string. *)
Between(t, from, to) == SubSeq(t, from + 1, to)
Value(m, idx) ==
  IF m[idx + 1].isPos THEN [pos |-> Capture(m, idx)] ELSE [text |-> Between(call.subject, Capture(m, idx), Capture(m, idx + 1))]
Values(m) == [i \in 1 .. (Len(m) \div 2) - 1 |-> Value(m, 2 * i)]

-----------------------------------------------------------------------------
(* Find and the machine. *)

Finish(given) == phase' = "done" /\ reply' = given
Return(values) == Finish([values |-> values])
Raise(message) == Finish(Error(message))

strFindEmpty ==
  /\ phase = "call" /\ call.name = "find" /\ call.pattern = << >>
  /\ Return(<<[pos |-> 1], [pos |-> 0]>>)
  /\ UNCHANGED <<call, compiled, start, machine, matches>>

(* A plain search is strings.Index from where it is to begin. *)
Places(t, p, from) == {i \in from .. Len(t) - Len(p) : Between(t, i, i + Len(p)) = p}
strFindPlain ==
  /\ phase = "call" /\ call.plain /\ call.pattern # << >>
  /\ LET at == Min(Places(call.subject, call.pattern, call.offset))
     IN  IF call.offset > Len(call.subject) THEN Raise("panic")
         ELSE IF Places(call.subject, call.pattern, call.offset) = {} THEN Return(<<Nil>>)
         ELSE Return(<<[pos |-> at + 1], [pos |-> at + Len(call.pattern)]>>)
  /\ UNCHANGED <<call, compiled, start, machine, matches>>

Try(at) ==
  IF at <= Len(call.subject)
  THEN phase' = "run" /\ start' = at /\ pc' = 0 /\ sp' = at /\ captures' = << >> /\ stack' = << >>
  ELSE phase' = "found" /\ UNCHANGED <<start, machine>>

Find ==
  /\ phase = "call" /\ ~call.plain /\ ~(call.name = "find" /\ call.pattern = << >>)
  /\ IF "error" \in DOMAIN compiled THEN Raise(compiled.error) /\ UNCHANGED <<start, machine>>
     ELSE Try(call.offset) /\ UNCHANGED reply
  /\ UNCHANGED <<call, compiled, matches>>

(* The end of an attempt: the next one is at the next character, or after
   what was matched. *)
MutantAttemptEnds(ok, nsp) ==
  LET found == IF ok THEN Append(matches, captures) ELSE matches
  IN  /\ matches' = found
      /\ IF Len(found) = call.limit \/ compiled.head
         THEN phase' = "found" /\ UNCHANGED <<start, machine>>
         ELSE Try(start + 1)
      /\ UNCHANGED <<call, compiled, reply>>
AttemptEnds(ok, nsp) ==
  LET found == IF ok THEN Append(matches, captures) ELSE matches
  IN  /\ matches' = found
      /\ IF Len(found) = call.limit \/ compiled.head
         THEN phase' = "found" /\ UNCHANGED <<start, machine>>
         ELSE Try(IF ok /\ start + 1 < nsp THEN nsp ELSE start + 1)
      /\ UNCHANGED <<call, compiled, reply>>

src == call.subject
Inst == compiled.insts[pc + 1]
Running(op) == phase = "run" /\ Inst.op = op
Others == UNCHANGED <<call, compiled, start, matches, reply>>
Goto(to, at) == phase' = "run" /\ pc' = to /\ sp' = at
Fail == phase' = "fail" /\ UNCHANGED machine

Char1 ==
  /\ Running("char")
  /\ IF sp < Len(src) /\ Matches(Inst.class, src[sp + 1])
     THEN Goto(pc + 1, sp + 1) /\ UNCHANGED <<captures, stack>>
     ELSE Fail
  /\ Others

Match == Running("match") /\ AttemptEnds(TRUE, sp)
TailMatch ==
  \/ Running("tailMatch") /\ sp >= Len(src) /\ AttemptEnds(TRUE, sp)
  \/ Running("tailMatch") /\ sp < Len(src) /\ Fail /\ Others

Jmp == Running("jmp") /\ Goto(Inst.to, sp) /\ UNCHANGED <<captures, stack>> /\ Others

(* The first branch is tried in a call of recursiveVM of its own. *)
Branch ==
  /\ Running("split")
  /\ stack' = Append(stack, [is |-> "split", pc |-> Inst.second, sp |-> sp])
  /\ Goto(Inst.first, sp) /\ UNCHANGED captures /\ Others

(* The slot gets its old value back when what follows fails. *)
Save ==
  /\ Running("save")
  /\ captures' = setCapture(captures, Inst.to, sp)
  /\ stack' = Append(stack, [is |-> "save", slot |-> Inst.to,
                             old |-> IF Inst.to < Len(captures) THEN captures[Inst.to + 1] ELSE Slot(0, FALSE)])
  /\ Goto(pc + 1, sp) /\ Others

PSave ==
  /\ Running("psave")
  /\ captures' = addPosCapture(captures, Inst.to, sp + 1)
  /\ Goto(pc + 1, sp) /\ UNCHANGED stack /\ Others

(* Where what begins at sp is closed: where the one closes as many as the
   other has opened before. *)
Count(ch, from, to) == Cardinality({i \in from + 1 .. to : src[i] = ch})
Closings(i, begin, end) ==
  {k \in i + 2 .. Len(src) : src[k] = end /\ Count(end, i + 1, k) = 1 + Count(begin, i + 1, k - 1)}
MutantBrace ==
  /\ Running("brace")
  /\ IF sp < Len(src) /\ src[sp + 1] = Inst.begin /\ Closings(sp, Inst.begin, Inst.end) # {}
     THEN Goto(pc + 1, Min(Closings(sp, Inst.begin, Inst.end)) + 1) /\ UNCHANGED <<captures, stack>>
     ELSE Fail
  /\ Others
Brace ==
  /\ Running("brace")
  /\ IF sp < Len(src) /\ src[sp + 1] = Inst.begin /\ Closings(sp, Inst.begin, Inst.end) # {}
     THEN Goto(pc + 1, Min(Closings(sp, Inst.begin, Inst.end))) /\ UNCHANGED <<captures, stack>>
     ELSE Fail
  /\ Others

(* Go's slices panic outside of their bounds. *)
Number ==
  /\ Running("number")
  /\ LET idx == 2 * Inst.to
         from == Capture(captures, idx)
         to == Capture(captures, idx + 1)
         n == to - from
     IN  IF idx >= Len(captures) - 1 THEN Raise("invalid capture index") /\ UNCHANGED machine
         ELSE IF from > to \/ to > Len(src) THEN Raise("panic") /\ UNCHANGED machine
         ELSE /\ IF sp + n <= Len(src) /\ Between(src, sp, sp + n) = Between(src, from, to)
                 THEN Goto(pc + 1, sp + n) /\ UNCHANGED <<captures, stack>> ELSE Fail
              /\ UNCHANGED reply
  /\ UNCHANGED <<call, compiled, start, matches>>

(* A failure goes back to the last call that has another branch. *)
Back ==
  /\ phase = "fail" /\ stack # << >>
  /\ stack' = Front(stack)
  /\ LET top == Last(stack)
     IN  \/ top.is = "split" /\ Goto(top.pc, top.sp) /\ UNCHANGED captures
         \/ /\ top.is = "save"
            /\ captures' = [captures EXCEPT ![top.slot + 1] = top.old]
            /\ UNCHANGED <<phase, pc, sp>>
  /\ Others
Fails == phase = "fail" /\ stack = << >> /\ AttemptEnds(FALSE, sp)

-----------------------------------------------------------------------------
(* The functions of the string library, with what Find has found. *)

Got(name) == phase = "found" /\ call.name = name
Kept == UNCHANGED <<call, compiled, start, machine, matches>>
m1 == matches[1]

strFind ==
  /\ Got("find")
  /\ Return(IF matches = << >> THEN <<Nil>>
            ELSE <<[pos |-> Capture(m1, 0) + 1], [pos |-> Capture(m1, 1)]>> \o Values(m1))
  /\ Kept

(* Without a match it returns nothing. *)
strMatch ==
  /\ Got("match")
  /\ Return(IF matches = << >> THEN << >> ELSE IF Len(m1) = 2 THEN <<Value(m1, 0)>> ELSE Values(m1))
  /\ Kept

(* What %n of a replacement stands for: a string, or a position. *)
capturedString(m, n) ==
  LET v == Value(m, IF n = 1 /\ Len(m) = 2 THEN 0 ELSE 2 * n) IN IF "text" \in DOMAIN v THEN v.text ELSE <<ToString(v.pos)>>
IsReference(r) == "ref" \in DOMAIN r
Expanded(m) ==
  FlattenSeq([i \in DOMAIN call.repl |-> IF IsReference(call.repl[i]) THEN capturedString(m, call.repl[i].ref) ELSE call.repl[i].text])

(* A table or a function is given the first capture, or the whole match. *)
Key(m) == Value(m, IF Len(m) > 2 THEN 2 ELSE 0)

Replacements ==
  IF call.name = "gsub"
  THEN [i \in DOMAIN matches |-> [from |-> Capture(matches[i], 0), to |-> Capture(matches[i], 1), by |-> Expanded(matches[i])]]
  ELSE LET kept == SelectSeq(matches, LAMBDA m : Key(m) \in DOMAIN call.table)
       IN  [i \in DOMAIN kept |-> [from |-> Capture(kept[i], 0), to |-> Capture(kept[i], 1), by |-> call.table[Key(kept[i])]]]

(* offset is by how much the text before has grown. *)
strGsubDoReplace(infos) ==
  FoldLeft(LAMBDA b, r :
             [buf |-> Between(b.buf, 0, b.offset + r.from) \o r.by \o Between(b.buf, b.offset + r.to, Len(b.buf)),
              offset |-> b.offset + Len(r.by) - (r.to - r.from)],
           [buf |-> src, offset |-> 0], infos).buf

InvalidIndex ==
  \E i \in DOMAIN call.repl : IsReference(call.repl[i]) /\ call.repl[i].ref > 1 /\ 2 * call.repl[i].ref >= Len(m1)
strGsub ==
  /\ phase = "found" /\ call.name \in {"gsub", "gsubTable"}
  /\ IF matches # << >> /\ call.name = "gsub" /\ InvalidIndex THEN Raise("invalid capture index")
     ELSE Return(<<[text |-> IF matches = << >> THEN src ELSE strGsubDoReplace(Replacements)], [pos |-> Len(matches)]>>)
  /\ Kept

(* The loop over gmatch calls the iterator until it returns nothing. *)
strGmatch ==
  /\ Got("gmatch")
  /\ phase' = "loop" /\ reply' = [values |-> << >>]
  /\ Kept
strGmatchIter ==
  /\ phase = "loop"
  /\ LET n == Len(reply.values)
         m == matches[n + 1]
     IN  \/ n = Len(matches) /\ phase' = "done" /\ UNCHANGED reply
         \/ /\ n < Len(matches)
            /\ reply' = [values |-> Append(reply.values, IF Len(m) = 2 THEN <<Value(m, 0)>> ELSE Values(m))]
            /\ UNCHANGED phase
  /\ Kept

-----------------------------------------------------------------------------

MatchInit ==
  /\ call \in Calls
  /\ phase = "call"
  /\ compiled = Compiled(call.pattern)
  /\ start = 0 /\ pc = 0 /\ sp = 0 /\ captures = << >> /\ stack = << >>
  /\ matches = << >> /\ reply = [values |-> << >>]

MatchNext ==
  \/ strFindEmpty \/ strFindPlain \/ Find
  \/ Char1 \/ Match \/ TailMatch \/ Jmp \/ Branch \/ Save \/ PSave \/ Brace \/ Number \/ Back \/ Fails
  \/ strFind \/ strMatch \/ strGsub \/ strGmatch \/ strGmatchIter

MatchSpec == MatchInit /\ [][MatchNext]_matchVars /\ WF_matchVars(MatchNext)

-----------------------------------------------------------------------------
InAttempt == phase \in {"run", "fail"}

(* recursiveVM reads insts[pc], src[sp] and the captures without looking
   whether they are there, and Go panics when they are not: whatever jumps,
   repetitions and ways back there were, the machine is at an instruction of
   the program and not behind the end of the subject, and so is every place
   that the stack goes back to; a slot that the stack restores exists. *)
MachineInside ==
  InAttempt =>
    /\ pc + 1 \in DOMAIN compiled.insts /\ sp \in 0 .. Len(src)
    /\ \A i \in DOMAIN stack :
         LET entry == stack[i]
         IN  \/ entry.is = "split" /\ entry.pc + 1 \in DOMAIN compiled.insts /\ entry.sp \in 0 .. Len(src)
             \/ entry.is = "save" /\ entry.slot + 1 \in DOMAIN captures
===============================================================================
