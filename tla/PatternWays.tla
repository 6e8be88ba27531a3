------------------------------ MODULE PatternWays ------------------------------
(***************************************************************************)
(* What the instructions of a pattern mean without the machine's stack: a  *)
(* choice has two ways on, and of the ways that end in a match that one is *)
(* meant that takes the first branch wherever a match can be reached by    *)
(* it.  A game g is a program and the text it is played on.                *)
(***************************************************************************)
EXTENDS PatternMachine

Game == [insts |-> compiled.insts, text |-> src]

(* Slots that hold text: recursiveVM gives them their old value back when it
   fails, which it does not do for the slots of psave. *)
Named(i) == CASE i.op = "save" -> {i.to} [] i.op = "number" -> {2 * i.to, 2 * i.to + 1} [] OTHER -> {}
OfPosition(i) == IF i.op = "psave" THEN {i.to, i.to + 1} ELSE {}
TextSlots(g) ==
  (UNION {Named(g.insts[k]) : k \in DOMAIN g.insts}) \ UNION {OfPosition(g.insts[k]) : k \in DOMAIN g.insts}

(* No %n refers to a position capture. *)
RefersToText(g) == \A k \in DOMAIN g.insts : g.insts[k].op = "number" => Named(g.insts[k]) \subseteq TextSlots(g)

Unset == Slot(0, FALSE)
TextSlot == {Slot(at, FALSE) : at \in Nat}
View(g, m) == [s \in TextSlots(g) |-> IF s < Len(m) THEN m[s + 1] ELSE Unset]

(* A place in a game: the next instruction, where in the text it is to
   match, and what the slots hold. *)
Squares(g) == [pc : Nat, sp : Nat, saved : [TextSlots(g) -> TextSlot]]
Square(to, at, saved) == [pc |-> to, sp |-> at, saved |-> saved]

(* Where the instruction at a place leads, in the order of preference. *)
OnIf(condition, c, at) == IF condition THEN <<Square(c.pc + 1, at, c.saved)>> ELSE << >>
CharFollows(g, c, i) == OnIf(c.sp < Len(g.text) /\ Matches(i.class, g.text[c.sp + 1]), c, c.sp + 1)
CountIn(t, ch, from, to) == Cardinality({i \in from + 1 .. to : t[i] = ch})
ClosingsIn(t, i, begin, end) ==
  {k \in i + 2 .. Len(t) : t[k] = end /\ CountIn(t, end, i + 1, k) = 1 + CountIn(t, begin, i + 1, k - 1)}
BraceFollows(g, c, i) ==
  LET closings == ClosingsIn(g.text, c.sp, i.begin, i.end)
  IN  OnIf(c.sp < Len(g.text) /\ g.text[c.sp + 1] = i.begin /\ closings # {}, c, Min(closings))
NumberFollows(g, c, i) ==
  LET from == c.saved[2 * i.to].at
      to == c.saved[2 * i.to + 1].at
      end == c.sp + (to - from)
  IN  OnIf(/\ from <= to /\ to <= Len(g.text) /\ end <= Len(g.text)
           /\ Between(g.text, c.sp, end) = Between(g.text, from, to), c, end)
Follows(g, c) ==
  LET i == g.insts[c.pc + 1]
  IN  CASE i.op = "char" -> CharFollows(g, c, i)
      []   i.op = "jmp" -> <<Square(i.to, c.sp, c.saved)>>
      []   i.op = "split" -> <<Square(i.first, c.sp, c.saved), Square(i.second, c.sp, c.saved)>>
      []   i.op = "save" -> <<Square(c.pc + 1, c.sp, [c.saved EXCEPT ![i.to] = Slot(c.sp, FALSE)])>>
      []   i.op = "psave" -> <<Square(c.pc + 1, c.sp, c.saved)>>
      []   i.op = "brace" -> BraceFollows(g, c, i)
      []   i.op = "number" -> NumberFollows(g, c, i)
      []   OTHER -> << >>
IsMatch(g, c) ==
  LET i == g.insts[c.pc + 1] IN i.op = "match" \/ (i.op = "tailMatch" /\ c.sp >= Len(g.text))

(* The ways from a place to a match, and those of them that are preferred. *)
Ways(g, c) ==
  {w \in Seq(Squares(g)) :
     /\ w # << >> /\ w[1] = c /\ IsMatch(g, w[Len(w)])
     /\ \A n \in 1 .. Len(w) - 1 : \E k \in DOMAIN Follows(g, w[n]) : w[n + 1] = Follows(g, w[n])[k]}
Accepts(g, c) == Ways(g, c) # {}
Prefers(g, c, d) ==
  \E k \in DOMAIN Follows(g, c) : d = Follows(g, c)[k] /\ \A j \in 1 .. k - 1 : ~Accepts(g, Follows(g, c)[j])
Ends(g, c, e) ==
  \E w \in Ways(g, c) : e = w[Len(w)] /\ \A n \in 1 .. Len(w) - 1 : Prefers(g, w[n], w[n + 1])
OnlyEnd(g, c, e) == \A f : Ends(g, c, f) <=> f = e

-----------------------------------------------------------------------------
(* Where the machine is, and where an attempt begins. *)
Here == Square(pc, sp, View(Game, captures))
Origin(g, at) == Square(0, at, View(g, << >>))

(* What the stack stands for: places to go on from, each with the slots as
   they are when the entries above it have been undone. *)
Undone(st, i, s) == {j \in i + 1 .. Len(st) : st[j].is = "save" /\ st[j].slot = s}
SavedAt(g, m, st, i) ==
  [s \in TextSlots(g) |-> IF Undone(st, i, s) = {} THEN View(g, m)[s] ELSE st[Min(Undone(st, i, s))].old]
IsChoice(st, i) == st[i].is = "split"
Choice(g, m, st, i) == Square(st[i].pc, st[i].sp, SavedAt(g, m, st, i))

(* The first of the places at hand from which there is a way to a match. *)
LeadsTo(g, m, st, e) ==
  \E i \in DOMAIN st :
    /\ IsChoice(st, i) /\ Ends(g, Choice(g, m, st, i), e)
    /\ \A j \in i + 1 .. Len(st) : IsChoice(st, j) => ~Accepts(g, Choice(g, m, st, j))
MayMatch(g, m, st) == \E i \in DOMAIN st : IsChoice(st, i) /\ Accepts(g, Choice(g, m, st, i))

(* In an attempt what the places at hand lead to is what its beginning leads
   to, and no way to a match is lost. *)
OnCourse(g, at, running, c, m, st) ==
  /\ \A e \in Squares(g) :
       (running /\ Ends(g, c, e)) \/ (~(running /\ Accepts(g, c)) /\ LeadsTo(g, m, st, e)) => Ends(g, Origin(g, at), e)
  /\ Accepts(g, Origin(g, at)) => (running /\ Accepts(g, c)) \/ MayMatch(g, m, st)
AttemptOnCourse ==
  InAttempt /\ RefersToText(Game) => OnCourse(Game, start, phase = "run", Here, captures, stack)

(* An attempt that fails had no way to a match, and one that succeeds has
   found the one and only that the order of the branches prefers: of the ways
   that recursiveVM is to try one after the other, none is forgotten and none
   is seen with the captures of another. *)
Succeeds == Match \/ (TailMatch /\ phase' # "fail")
AttemptDecides ==
  [][InAttempt /\ RefersToText(Game) =>
       /\ Succeeds => OnlyEnd(Game, Origin(Game, start), Here)
       /\ Fails => ~Accepts(Game, Origin(Game, start))]_matchVars

-----------------------------------------------------------------------------
(* From where the next attempt is made after a match. *)
After(f) == IF f.at + 1 < f.end.sp THEN f.end.sp ELSE f.at + 1
Begin(offset, found, n) == IF n = 1 THEN offset ELSE After(found[n - 1])
Misses(g, from, upto) == \A b \in from .. upto : ~Accepts(g, Origin(g, b))

(* What Find has found: each match is the preferred one at the first place,
   from the end of the one before it, that has a match at all. *)
IsScan(g, offset, ms, found) ==
  /\ Len(found) = Len(ms)
  /\ \A n \in 1 .. Len(found) :
       /\ found[n].at \in Begin(offset, found, n) .. Len(g.text)
       /\ Ends(g, Origin(g, found[n].at), found[n].end)
       /\ View(g, ms[n]) = found[n].end.saved
       /\ Misses(g, Begin(offset, found, n), found[n].at - 1)
Scans(g) == Seq([at : Nat, end : Squares(g)])

Scanning(g, offset, ms, at, head) ==
  \E found \in Scans(g) :
    /\ IsScan(g, offset, ms, found)
    /\ at \in Begin(offset, found, Len(found) + 1) .. Len(g.text)
    /\ Misses(g, Begin(offset, found, Len(found) + 1), at - 1)
    /\ head => at = offset /\ found = << >>
ScanOnCourse == InAttempt /\ RefersToText(Game) => Scanning(Game, call.offset, matches, start, compiled.head)

(* Find stops where it was told to, at the end of the subject, or, with ^,
   after one attempt. *)
Scanned(g, offset, ms, limit, head) ==
  \E found \in Scans(g) :
    /\ IsScan(g, offset, ms, found)
    /\ \/ Len(found) = limit
       \/ head /\ found = << >> /\ (offset <= Len(g.text) => ~Accepts(g, Origin(g, offset)))
       \/ head /\ Len(found) = 1 /\ found[1].at = offset
       \/ ~head /\ Misses(g, Begin(offset, found, Len(found) + 1), Len(g.text))
FoundAsMeant ==
  phase \in {"found", "loop"} /\ RefersToText(Game) => Scanned(Game, call.offset, matches, call.limit, compiled.head)
===============================================================================
