------------------------- MODULE ProtectedCallsProofs -------------------------
(***************************************************************************)
(* For every size of the stack and of the frames: PCalls are nested and    *)
(* restore what they changed; the list of open upvalues is exact,          *)
(* variables and closures stay together until an error is raised, and no   *)
(* open upvalue refers to a register of another frame unless an error has  *)
(* kept it open.                                                           *)
(***************************************************************************)
EXTENDS ProtectedCalls, SequenceTheorems, WellFoundedInduction, TLAPS

(* How PCalls pc lie among the frames fr: each was called from a Go function,
   or the host, above all the earlier ones, and knows the panic function of
   its caller.  A Go function that was tail-called is on top of the Lua frame
   that called it, and is not what a PCall called.  A PCall's function is run
   where it began. *)
PCallPlaced(fr, p, i) ==
  /\ p.sp <= p.base /\ p.base <= Len(fr)
  /\ p.sp = 0 <=> i = 1
  /\ p.sp # 0 => fr[p.sp] # "lua"
  /\ p.base < Len(fr) => fr[p.base + 1] # "gotail"
  /\ p.oldpanic = IF i = 1 THEN "traceback" ELSE "plain"
  /\ p.stage = "body" => p.base = p.sp

Placed(fr, pc) ==
  /\ \A i \in 1 .. Len(pc) : PCallPlaced(fr, pc[i], i)
  /\ \A i, j \in 1 .. Len(pc) : i < j => pc[i].base < pc[j].sp
  /\ \A n \in 1 .. Len(fr) : fr[n] = "gotail" => n > 1 /\ fr[n - 1] = "lua"

(* Running code is above the last PCall, and there is none outside of one. *)
CodeAbove(fr, pc) ==
  IF pc = << >> THEN Len(fr) = 0 ELSE pc[Len(pc)].base < Len(fr)

StackTypeOK ==
  /\ frames \in Seq(Kinds) /\ Len(frames) \in Depths
  /\ pcalls \in Seq(PCallRecord)
  /\ hasErrorFunc \in BOOLEAN
  /\ Panic \in PanicFunctions
  /\ raising \in Panics \cup {"none"}

(* hasErrorFunc is set only while an error function waits. *)
ErrorFuncExpected == hasErrorFunc => ErrorFuncWaits

StackInv ==
  /\ StackTypeOK
  /\ Placed(frames, pcalls)
  /\ raising = "none" => CodeAbove(frames, pcalls)
  /\ PanicOfPCall
  /\ ErrorFuncExpected

-----------------------------------------------------------------------------
(* Sequences. *)

LEMMA Pushed ==
  ASSUME NEW S, NEW s \in Seq(S), NEW v \in S
  PROVE  /\ Append(s, v) \in Seq(S) /\ Len(Append(s, v)) = Len(s) + 1
         /\ Append(s, v)[Len(s) + 1] = v
         /\ \A i \in 1 .. Len(s) : Append(s, v)[i] = s[i]
  BY AppendProperties

LEMMA Cut ==
  ASSUME NEW S, NEW s \in Seq(S), NEW n \in 0 .. Len(s)
  PROVE  /\ SubSeq(s, 1, n) \in Seq(S) /\ Len(SubSeq(s, 1, n)) = n
         /\ \A i \in 1 .. n : SubSeq(s, 1, n)[i] = s[i]
  <1>1. \A i \in 1 .. n : s[i] \in S
    OBVIOUS
  <1> DEFINE t == SubSeq(s, 1, n)
  <1>2. /\ t \in Seq(S) /\ Len(t) = (IF 1 <= n THEN n - 1 + 1 ELSE 0)
        /\ \A i \in 1 .. n - 1 + 1 : t[i] = s[1 + i - 1]
    BY <1>1, SubSeqProperties
  <1> HIDE DEF t
  <1>3. t \in Seq(S) /\ Len(t) = n /\ \A i \in 1 .. n : t[i] = s[i]
    BY <1>2
  <1> QED
    BY <1>3 DEF t

-----------------------------------------------------------------------------
(* What the operations do to the placement of PCalls and frames. *)

LEMMA Records ==
  ASSUME NEW pc \in Seq(PCallRecord)
  PROVE  /\ Len(pc) \in Nat
         /\ \A i \in 1 .. Len(pc) : pc[i].sp \in Nat /\ pc[i].base \in Nat
  <1>1. \A i \in 1 .. Len(pc) : pc[i] \in PCallRecord
    OBVIOUS
  <1>2. \A i \in 1 .. Len(pc) : pc[i].sp \in Depths /\ pc[i].base \in Depths
    BY <1>1 DEF PCallRecord
  <1>3. Len(pc) \in Nat /\ Depths \subseteq Nat
    BY SizesAssumption DEF Depths
  <1> QED
    BY <1>2, <1>3

(* All PCalls begin no higher than the last one. *)
LEMMA LastHighest ==
  ASSUME NEW fr \in Seq(Kinds), NEW pc \in Seq(PCallRecord), Placed(fr, pc),
         pc # << >>, NEW i \in 1 .. Len(pc) - 1
  PROVE  pc[i].base < pc[Len(pc)].sp /\ pc[i].base < pc[Len(pc)].base
  <1>1. Len(pc) \in 1 .. Len(pc) /\ i \in 1 .. Len(pc) /\ i < Len(pc)
    BY Records
  <1>2. pc[i].base < pc[Len(pc)].sp
    BY <1>1 DEF Placed
  <1>3. pc[Len(pc)].sp <= pc[Len(pc)].base
    BY <1>1 DEF Placed, PCallPlaced
  <1> QED
    BY <1>1, <1>2, <1>3, Records

LEMMA AllBelow ==
  ASSUME NEW fr \in Seq(Kinds), NEW pc \in Seq(PCallRecord), Placed(fr, pc),
         NEW n \in Nat, pc # << >> => pc[Len(pc)].base < n
  PROVE  \A i \in 1 .. Len(pc) : pc[i].base < n
  <1> SUFFICES ASSUME NEW i \in 1 .. Len(pc) PROVE pc[i].base < n
    OBVIOUS
  <1>1. pc # << >>
    OBVIOUS
  <1>2. CASE i = Len(pc)
    BY <1>1, <1>2
  <1>3. CASE i \in 1 .. Len(pc) - 1
    <2>1. pc[i].base < pc[Len(pc)].base
      BY <1>1, <1>3, LastHighest
    <2> QED
      BY <1>1, <2>1, Records
  <1> QED
    BY <1>2, <1>3, Records

LEMMA PushPlaced ==
  ASSUME NEW fr \in Seq(Kinds), NEW pc \in Seq(PCallRecord), Placed(fr, pc),
         NEW kind \in Kinds,
         kind = "gotail" => /\ Len(fr) > 0 /\ fr[Len(fr)] = "lua"
                            /\ \A i \in 1 .. Len(pc) : pc[i].base < Len(fr)
  PROVE  Placed(Append(fr, kind), pc)
  <1> DEFINE t == Append(fr, kind)
  <1>1. Len(fr) \in Nat
    OBVIOUS
  <1>2. Len(t) = Len(fr) + 1 /\ t[Len(fr) + 1] = kind /\ \A i \in 1 .. Len(fr) : t[i] = fr[i]
    BY Pushed
  <1> HIDE DEF t
  <1>3. ASSUME NEW i \in 1 .. Len(pc)
        PROVE  PCallPlaced(t, pc[i], i)
    <2>1. PCallPlaced(fr, pc[i], i) /\ pc[i].sp \in Nat /\ pc[i].base \in Nat
      BY Records DEF Placed
    <2>2. pc[i].base < Len(t) => t[pc[i].base + 1] # "gotail"
      BY <1>1, <1>2, <2>1 DEF PCallPlaced
    <2>3. pc[i].sp # 0 => t[pc[i].sp] # "lua"
      BY <1>1, <1>2, <2>1 DEF PCallPlaced
    <2> QED
      BY <1>1, <1>2, <2>1, <2>2, <2>3 DEF PCallPlaced
  <1>4. ASSUME NEW n \in 1 .. Len(t), t[n] = "gotail"
        PROVE  n > 1 /\ t[n - 1] = "lua"
    <2>1. CASE n \in 1 .. Len(fr)
      <3>1. fr[n] = "gotail"
        BY <1>2, <1>4, <2>1
      <3>2. n > 1 /\ fr[n - 1] = "lua"
        BY <2>1, <3>1 DEF Placed
      <3> QED
        BY <1>1, <1>2, <2>1, <3>2
    <2>2. CASE n = Len(fr) + 1
      BY <1>1, <1>2, <1>4, <2>2
    <2> QED
      BY <1>1, <1>2, <2>1, <2>2
  <1>5. Placed(t, pc)
    BY <1>3, <1>4 DEF Placed
  <1> QED
    BY <1>5 DEF t

LEMMA CutPlaced ==
  ASSUME NEW fr \in Seq(Kinds), NEW pc \in Seq(PCallRecord), Placed(fr, pc),
         NEW n \in 0 .. Len(fr), \A i \in 1 .. Len(pc) : pc[i].base <= n
  PROVE  Placed(SubSeq(fr, 1, n), pc)
  <1> DEFINE t == SubSeq(fr, 1, n)
  <1>1. Len(fr) \in Nat
    OBVIOUS
  <1>2. Len(t) = n /\ \A i \in 1 .. n : t[i] = fr[i]
    BY Cut
  <1> HIDE DEF t
  <1>3. ASSUME NEW i \in 1 .. Len(pc)
        PROVE  PCallPlaced(t, pc[i], i)
    <2>1. PCallPlaced(fr, pc[i], i) /\ pc[i].sp \in Nat /\ pc[i].base \in Nat /\ pc[i].base <= n
      BY Records DEF Placed
    <2>2. pc[i].base < n => t[pc[i].base + 1] # "gotail"
      BY <1>1, <1>2, <2>1 DEF PCallPlaced
    <2>3. pc[i].sp # 0 => t[pc[i].sp] # "lua"
      BY <1>1, <1>2, <2>1 DEF PCallPlaced
    <2> QED
      BY <1>2, <2>1, <2>2, <2>3 DEF PCallPlaced
  <1>4. ASSUME NEW m \in 1 .. n, t[m] = "gotail"
        PROVE  m > 1 /\ t[m - 1] = "lua"
    <2>1. m > 1 /\ fr[m - 1] = "lua"
      BY <1>1, <1>2, <1>4 DEF Placed
    <2> QED
      BY <1>1, <1>2, <2>1
  <1>5. Placed(t, pc)
    BY <1>2, <1>3, <1>4 DEF Placed
  <1> QED
    BY <1>5 DEF t

(* A PCall that begins on top of the frames. *)
LEMMA BeginPlaced ==
  ASSUME NEW fr \in Seq(Kinds), NEW pc \in Seq(PCallRecord), Placed(fr, pc),
         NEW p \in PCallRecord, p.sp = Len(fr), p.base = Len(fr),
         pc = << >> <=> Len(fr) = 0,
         Len(fr) > 0 => fr[Len(fr)] # "lua",
         \A i \in 1 .. Len(pc) : pc[i].base < Len(fr),
         p.oldpanic = IF pc = << >> THEN "traceback" ELSE "plain"
  PROVE  Placed(fr, Append(pc, p))
  <1> DEFINE q == Append(pc, p)
  <1>1. Len(pc) \in Nat /\ (pc = << >> <=> Len(pc) = 0) /\ Len(fr) \in Nat
    OBVIOUS
  <1>2. /\ q \in Seq(PCallRecord) /\ Len(q) = Len(pc) + 1 /\ q[Len(pc) + 1] = p
        /\ \A i \in 1 .. Len(pc) : q[i] = pc[i]
    BY Pushed
  <1> HIDE DEF q
  <1>3. ASSUME NEW i \in 1 .. Len(q)
        PROVE  PCallPlaced(fr, q[i], i)
    <2>1. CASE i \in 1 .. Len(pc)
      BY <1>2, <2>1 DEF Placed
    <2>2. CASE i = Len(pc) + 1
      <3>1. i = 1 <=> pc = << >>
        BY <1>1, <2>2
      <3> QED
        BY <1>1, <1>2, <2>2, <3>1 DEF PCallPlaced
    <2> QED
      BY <1>1, <1>2, <2>1, <2>2
  <1>4. ASSUME NEW i \in 1 .. Len(q), NEW j \in 1 .. Len(q), i < j
        PROVE  q[i].base < q[j].sp
    <2>1. i \in 1 .. Len(pc) /\ q[i] = pc[i]
      BY <1>1, <1>2, <1>4
    <2>2. CASE j \in 1 .. Len(pc)
      BY <1>2, <1>4, <2>1, <2>2 DEF Placed
    <2>3. CASE j = Len(pc) + 1
      BY <1>2, <2>1, <2>3
    <2> QED
      BY <1>1, <1>2, <2>2, <2>3
  <1>5. Placed(fr, q)
    BY <1>3, <1>4 DEF Placed
  <1> QED
    BY <1>5 DEF q

(* The last PCall is gone. *)
LEMMA EndPlaced ==
  ASSUME NEW fr \in Seq(Kinds), NEW pc \in Seq(PCallRecord), Placed(fr, pc), pc # << >>
  PROVE  LET q == SubSeq(pc, 1, Len(pc) - 1)
         IN  /\ q \in Seq(PCallRecord) /\ Placed(fr, q)
             /\ Len(q) = Len(pc) - 1 /\ \A i \in 1 .. Len(q) : q[i] = pc[i]
             /\ \A i \in 1 .. Len(q) : q[i].base < pc[Len(pc)].sp
  <1> DEFINE q == SubSeq(pc, 1, Len(pc) - 1)
  <1>1. Len(pc) \in Nat \ {0} /\ Len(pc) - 1 \in 0 .. Len(pc)
    OBVIOUS
  <1>2. /\ q \in Seq(PCallRecord) /\ Len(q) = Len(pc) - 1
        /\ \A i \in 1 .. Len(pc) - 1 : q[i] = pc[i]
    BY <1>1, Cut, Zenon
  <1> HIDE DEF q
  <1>3. \A i \in 1 .. Len(q) : i \in 1 .. Len(pc) /\ q[i] = pc[i]
    BY <1>1, <1>2
  <1>4. Placed(fr, q)
    BY <1>3 DEF Placed
  <1>5. \A i \in 1 .. Len(q) : q[i].base < pc[Len(pc)].sp
    <2> SUFFICES ASSUME NEW i \in 1 .. Len(q)
                 PROVE  q[i].base < pc[Len(pc)].sp
      OBVIOUS
    <2>1. i \in 1 .. Len(pc) - 1 /\ q[i] = pc[i]
      BY <1>2, <1>3
    <2>2. pc[i].base < pc[Len(pc)].sp
      BY <2>1, LastHighest
    <2> QED
      BY <2>1, <2>2
  <1>6. \A i \in 1 .. Len(q) : q[i] = pc[i]
    BY <1>3
  <1> QED
    BY <1>2, <1>4, <1>5, <1>6, Zenon DEF q

(* The last PCall calls its error function on top of the frames. *)
LEMMA HandlerPlaced ==
  ASSUME NEW fr \in Seq(Kinds), NEW pc \in Seq(PCallRecord), Placed(fr, pc), pc # << >>,
         NEW p \in PCallRecord, p.sp = pc[Len(pc)].sp, p.base = Len(fr),
         p.oldpanic = pc[Len(pc)].oldpanic, p.stage = "handler"
  PROVE  LET q == [pc EXCEPT ![Len(pc)] = p]
         IN  q \in Seq(PCallRecord) /\ Placed(fr, q) /\ Len(q) = Len(pc) /\ q[Len(pc)] = p
  <1> DEFINE q == [pc EXCEPT ![Len(pc)] = p]
  <1>1. Len(pc) \in Nat \ {0} /\ Len(pc) \in 1 .. Len(pc) /\ Len(fr) \in Nat
    OBVIOUS
  <1>2. q \in Seq(PCallRecord) /\ Len(q) = Len(pc) /\ q[Len(pc)] = p
    BY <1>1
  <1>3. \A i \in 1 .. Len(pc) : i # Len(pc) => q[i] = pc[i]
    BY <1>1
  <1> HIDE DEF q
  <1>4. ASSUME NEW i \in 1 .. Len(q)
        PROVE  PCallPlaced(fr, q[i], i)
    <2>1. PCallPlaced(fr, pc[i], i)
      BY <1>2 DEF Placed
    <2>2. CASE i = Len(pc)
      <3>1. pc[i].sp \in Nat /\ pc[i].base \in Nat
        BY <1>2, Records
      <3> QED
        BY <1>1, <1>2, <2>1, <2>2, <3>1 DEF PCallPlaced
    <2>3. CASE i # Len(pc)
      BY <1>2, <1>3, <2>1, <2>3
    <2> QED
      BY <2>2, <2>3
  <1>5. ASSUME NEW i \in 1 .. Len(q), NEW j \in 1 .. Len(q), i < j
        PROVE  q[i].base < q[j].sp
    <2>1. q[i] = pc[i]
      BY <1>1, <1>2, <1>3, <1>5
    <2>2. q[j].sp = pc[j].sp
      BY <1>2, <1>3
    <2>3. pc[i].base < pc[j].sp
      BY <1>2, <1>5 DEF Placed
    <2> QED
      BY <2>1, <2>2, <2>3
  <1>6. Placed(fr, q)
    BY <1>4, <1>5 DEF Placed
  <1> QED
    BY <1>2, <1>6 DEF q

-----------------------------------------------------------------------------
(* The kinds of steps, as far as the stack is concerned. *)

LEMMA InitStack == Init => StackInv
  <1> SUFFICES ASSUME Init PROVE StackInv
    OBVIOUS
  <1>1. frames = << >> /\ pcalls = << >> /\ Len(frames) = 0 /\ Len(pcalls) = 0
    BY DEF Init
  <1>2. StackTypeOK
    <2>1. hasErrorFunc \in BOOLEAN /\ Panic \in PanicFunctions /\ raising \in Panics \cup {"none"}
      BY DEF Init, PanicFunctions
    <2>2. frames \in Seq(Kinds) /\ pcalls \in Seq(PCallRecord) /\ Len(frames) \in Depths
      BY <1>1, SizesAssumption DEF Depths
    <2> QED
      BY <2>1, <2>2 DEF StackTypeOK
  <1>3. Placed(frames, pcalls) /\ CodeAbove(frames, pcalls)
    BY <1>1 DEF Placed, CodeAbove
  <1>4. PanicOfPCall
    BY DEF Init, PanicOfPCall
  <1>5. ErrorFuncExpected
    BY DEF Init, ErrorFuncExpected
  <1> QED
    BY <1>2, <1>3, <1>4, <1>5 DEF StackInv

LEMMA StackTypes ==
  ASSUME StackInv
  PROVE  /\ frames \in Seq(Kinds) /\ Depth = Len(frames)
         /\ Depth \in 0 .. CallStackSize /\ CallStackSize \in Nat
         /\ pcalls \in Seq(PCallRecord) /\ Len(pcalls) \in Nat
         /\ Placed(frames, pcalls)
         /\ pcalls # << >> =>
              /\ Len(pcalls) \in 1 .. Len(pcalls) /\ Current = pcalls[Len(pcalls)]
              /\ Current \in PCallRecord
              /\ Current.sp \in 0 .. Current.base /\ Current.base \in 0 .. Depth
  <1>1. /\ frames \in Seq(Kinds) /\ Depth = Len(frames)
        /\ Depth \in 0 .. CallStackSize /\ CallStackSize \in Nat
        /\ pcalls \in Seq(PCallRecord) /\ Len(pcalls) \in Nat
        /\ Placed(frames, pcalls)
    BY SizesAssumption DEF StackInv, StackTypeOK, Depths, Depth
  <1>2. ASSUME pcalls # << >>
        PROVE  /\ Len(pcalls) \in 1 .. Len(pcalls) /\ Current = pcalls[Len(pcalls)]
               /\ Current \in PCallRecord
               /\ Current.sp \in 0 .. Current.base /\ Current.base \in 0 .. Depth
    <2>1. Len(pcalls) \in 1 .. Len(pcalls) /\ Current = pcalls[Len(pcalls)] /\ Current \in PCallRecord
      BY <1>1, <1>2 DEF Current
    <2>2. Current.sp \in Nat /\ Current.base \in Nat
      BY <1>1, <2>1, Records
    <2>3. Current.sp <= Current.base /\ Current.base <= Depth
      BY <1>1, <2>1 DEF Placed, PCallPlaced
    <2> QED
      BY <1>1, <2>1, <2>2, <2>3
  <1> QED
    BY <1>1, <1>2

(* Running code, its frame and its PCall. *)
LEMMA CodeFacts ==
  ASSUME StackInv, InCall
  PROVE  /\ Depth \in 1 .. CallStackSize /\ raising = "none"
         /\ pcalls # << >> /\ Current.base < Depth
         /\ \A i \in 1 .. Len(pcalls) : pcalls[i].base < Depth
  <1>1. Depth \in 1 .. CallStackSize /\ raising = "none"
    BY StackTypes DEF InCall
  <1>2. CodeAbove(frames, pcalls)
    BY <1>1 DEF StackInv
  <1>3. pcalls # << >> /\ Current.base < Depth
    BY <1>1, <1>2, StackTypes DEF CodeAbove, Current
  <1>4. \A i \in 1 .. Len(pcalls) : pcalls[i].base < Depth
    <2>1. pcalls # << >> => pcalls[Len(pcalls)].base < Depth
      BY <1>3 DEF Current
    <2>2. Depth \in Nat
      BY <1>1
    <2> QED
      BY <2>1, <2>2, AllBelow, StackTypes
  <1> QED
    BY <1>1, <1>3, <1>4

(* An error starts. *)
LEMMA RaiseStack ==
  ASSUME StackInv, raising' \in Panics, UNCHANGED <<frames, pcalls, hasErrorFunc, Panic>>
  PROVE  StackInv'
  <1>1. StackTypeOK'
    BY DEF StackInv, StackTypeOK
  <1>2. Placed(frames, pcalls)'
    BY DEF StackInv
  <1>3. raising' # "none"
    BY DEF Panics
  <1>4. PanicOfPCall' /\ ErrorFuncExpected'
    BY DEF StackInv, PanicOfPCall, ErrorFuncExpected, ErrorFuncWaits
  <1> QED
    BY <1>1, <1>2, <1>3, <1>4 DEF StackInv

(* Running code pushes a frame. *)
LEMMA PushStack ==
  ASSUME StackInv, InCall, ~IsFull, NEW kind \in Kinds,
         kind = "gotail" => frames[Depth] = "lua",
         frames' = Append(frames, kind),
         UNCHANGED <<pcalls, hasErrorFunc, Panic, raising>>
  PROVE  StackInv'
  <1>1. /\ frames' \in Seq(Kinds) /\ Len(frames') = Len(frames) + 1
        /\ Len(frames) \in 0 .. CallStackSize - 1 /\ CallStackSize \in Nat
    <2>1. Len(frames) # CallStackSize
      BY DEF IsFull, Depth
    <2> QED
      BY <2>1, StackTypes, Pushed
  <1>2. StackTypeOK'
    <2>1. Len(frames') \in Depths
      BY <1>1 DEF Depths
    <2> QED
      BY <1>1, <2>1 DEF StackInv, StackTypeOK
  <1>3. Placed(frames, pcalls)'
    <2>1. kind = "gotail" => /\ Len(frames) > 0 /\ frames[Len(frames)] = "lua"
                             /\ \A i \in 1 .. Len(pcalls) : pcalls[i].base < Len(frames)
      BY CodeFacts, StackTypes
    <2>2. Placed(Append(frames, kind), pcalls)
      BY <2>1, StackTypes, PushPlaced
    <2> QED
      BY <2>2
  <1>4. CodeAbove(frames, pcalls)'
    <2>1. pcalls # << >> /\ pcalls[Len(pcalls)].base < Len(frames) /\ pcalls[Len(pcalls)].base \in Nat
      BY CodeFacts, StackTypes
    <2> QED
      BY <1>1, <2>1 DEF CodeAbove
  <1>5. PanicOfPCall' /\ ErrorFuncExpected'
    BY DEF StackInv, PanicOfPCall, ErrorFuncExpected, ErrorFuncWaits
  <1> QED
    BY <1>2, <1>3, <1>4, <1>5 DEF StackInv

(* A function that is not its PCall's returns: the frames are cut to n. *)
LEMMA CutStack ==
  ASSUME StackInv, InCall, NEW n \in 0 .. Depth, Current.base < n,
         frames' = SubSeq(frames, 1, n),
         UNCHANGED <<pcalls, hasErrorFunc, Panic, raising>>
  PROVE  StackInv'
  <1>1. n \in 0 .. Len(frames) /\ n \in Nat /\ pcalls # << >>
    BY CodeFacts, StackTypes
  <1>2. frames' \in Seq(Kinds) /\ Len(frames') = n
    BY <1>1, StackTypes, Cut
  <1>3. StackTypeOK'
    <2>1. Len(frames') \in Depths
      BY <1>1, <1>2, StackTypes DEF Depths
    <2> QED
      BY <1>2, <2>1 DEF StackInv, StackTypeOK
  <1>4. Placed(frames, pcalls)'
    <2>1. \A i \in 1 .. Len(pcalls) : pcalls[i].base < n
      BY <1>1, AllBelow, StackTypes DEF Current
    <2>2. \A i \in 1 .. Len(pcalls) : pcalls[i].base <= n
      BY <1>1, <2>1, Records, StackTypes
    <2>3. Placed(SubSeq(frames, 1, n), pcalls)
      BY <1>1, <2>2, StackTypes, CutPlaced
    <2> QED
      BY <2>3
  <1>5. CodeAbove(frames, pcalls)'
    BY <1>1, <1>2 DEF CodeAbove, Current
  <1>6. PanicOfPCall' /\ ErrorFuncExpected'
    BY DEF StackInv, PanicOfPCall, ErrorFuncExpected, ErrorFuncWaits
  <1> QED
    BY <1>3, <1>4, <1>5, <1>6 DEF StackInv

(* What the end of a PCall leaves. *)
LEMMA OthersFacts ==
  ASSUME StackInv, pcalls # << >>
  PROVE  /\ OtherPCalls \in Seq(PCallRecord) /\ Placed(frames, OtherPCalls)
         /\ Len(OtherPCalls) = Len(pcalls) - 1
         /\ \A i \in 1 .. Len(OtherPCalls) :
              OtherPCalls[i] = pcalls[i] /\ OtherPCalls[i].base < Current.sp
         /\ OtherPCalls = << >> <=> Current.sp = 0
         /\ Current.oldpanic = IF OtherPCalls = << >> THEN "traceback" ELSE "plain"
  <1> DEFINE q == SubSeq(pcalls, 1, Len(pcalls) - 1)
  <1>1. /\ q \in Seq(PCallRecord) /\ Placed(frames, q)
        /\ Len(q) = Len(pcalls) - 1 /\ \A i \in 1 .. Len(q) : q[i] = pcalls[i]
        /\ \A i \in 1 .. Len(q) : q[i].base < pcalls[Len(pcalls)].sp
    BY StackTypes, EndPlaced
  <1> HIDE DEF q
  <1>2. Len(pcalls) \in Nat \ {0} /\ Len(pcalls) \in 1 .. Len(pcalls)
    BY StackTypes
  <1>3. q = << >> <=> Len(pcalls) = 1
    BY <1>1, <1>2
  <1>4. PCallPlaced(frames, Current, Len(pcalls))
    BY <1>2, StackTypes DEF Placed
  <1>5. Current.sp = 0 <=> Len(pcalls) = 1
    BY <1>4 DEF PCallPlaced
  <1>6. Current.oldpanic = IF Len(pcalls) = 1 THEN "traceback" ELSE "plain"
    BY <1>4 DEF PCallPlaced
  <1>7. q = OtherPCalls
    BY DEF q, OtherPCalls
  <1>8. \A i \in 1 .. Len(q) : q[i].base < Current.sp
    BY <1>1 DEF Current
  <1>9. q = << >> <=> Current.sp = 0
    BY <1>3, <1>5
  <1>10. Current.oldpanic = IF q = << >> THEN "traceback" ELSE "plain"
    BY <1>3, <1>6
  <1> QED
    BY <1>1, <1>7, <1>8, <1>9, <1>10

LEMMA FlagsRestored ==
  ASSUME StackInv, pcalls # << >>, pcalls' = OtherPCalls, Panic' = Current.oldpanic,
         hasErrorFunc' = FALSE
  PROVE  PanicOfPCall' /\ ErrorFuncExpected' /\ Panic' \in PanicFunctions
  <1>1. Panic' = IF pcalls' = << >> THEN "traceback" ELSE "plain"
    BY OthersFacts
  <1> QED
    BY <1>1 DEF PanicOfPCall, ErrorFuncExpected, PanicFunctions

LEMMA EndStack ==
  ASSUME StackInv, pcalls # << >>, EndPCall, raising' = "none"
  PROVE  StackInv'
  <1>1. /\ frames' = SubSeq(frames, 1, Current.sp) /\ pcalls' = OtherPCalls
        /\ Panic' = Current.oldpanic /\ hasErrorFunc' = FALSE
    BY DEF EndPCall
  <1>2. PanicOfPCall' /\ ErrorFuncExpected' /\ Panic' \in PanicFunctions
    BY <1>1, FlagsRestored
  <1>3. Current.sp \in 0 .. Len(frames) /\ Current.sp \in 0 .. CallStackSize
    BY StackTypes
  <1>4. frames' \in Seq(Kinds) /\ Len(frames') = Current.sp
    BY <1>1, <1>3, StackTypes, Cut
  <1>5. StackTypeOK'
    <2>1. Len(frames') \in Depths
      BY <1>3, <1>4 DEF Depths
    <2>2. hasErrorFunc' \in BOOLEAN
      BY <1>1
    <2>3. pcalls' \in Seq(PCallRecord)
      BY <1>1, OthersFacts
    <2> QED
      BY <1>2, <1>4, <2>1, <2>2, <2>3 DEF StackTypeOK
  <1>6. \A i \in 1 .. Len(OtherPCalls) : OtherPCalls[i].base < Current.sp
    BY OthersFacts
  <1>7. Placed(frames, pcalls)'
    <2>1. \A i \in 1 .. Len(OtherPCalls) : OtherPCalls[i].base <= Current.sp
      BY <1>3, <1>6, Records, OthersFacts
    <2>2. Placed(SubSeq(frames, 1, Current.sp), OtherPCalls)
      BY <1>3, <2>1, StackTypes, OthersFacts, CutPlaced
    <2> QED
      BY <1>1, <2>2
  <1>8. CodeAbove(frames, pcalls)'
    <2>1. CASE OtherPCalls = << >>
      BY <1>1, <1>4, <2>1, OthersFacts DEF CodeAbove
    <2>2. CASE OtherPCalls # << >>
      <3>1. Len(OtherPCalls) \in 1 .. Len(OtherPCalls)
        BY <2>2, OthersFacts
      <3>2. OtherPCalls[Len(OtherPCalls)].base < Current.sp
        BY <1>6, <3>1
      <3> QED
        BY <1>1, <1>4, <2>2, <3>2 DEF CodeAbove
    <2> QED
      BY <2>1, <2>2
  <1> QED
    BY <1>2, <1>5, <1>7, <1>8 DEF StackInv

LEMMA HandlerDoesNotFitStack ==
  ASSUME StackInv, pcalls # << >>, HandlerDoesNotFit
  PROVE  StackInv'
  <1>1. /\ pcalls' = OtherPCalls /\ Panic' = Current.oldpanic /\ hasErrorFunc' = FALSE
        /\ frames' = frames /\ raising' = "overflow"
    BY DEF HandlerDoesNotFit, Raise
  <1>2. PanicOfPCall' /\ ErrorFuncExpected' /\ Panic' \in PanicFunctions
    BY <1>1, FlagsRestored
  <1>3. StackTypeOK'
    <2>1. hasErrorFunc' \in BOOLEAN /\ raising' \in Panics \cup {"none"}
      BY <1>1 DEF Panics
    <2>2. pcalls' \in Seq(PCallRecord)
      BY <1>1, OthersFacts
    <2>3. frames' \in Seq(Kinds) /\ Len(frames') \in Depths
      BY <1>1 DEF StackInv, StackTypeOK
    <2> QED
      BY <1>2, <2>1, <2>2, <2>3 DEF StackTypeOK
  <1>4. Placed(frames, pcalls)'
    BY <1>1, OthersFacts
  <1> QED
    BY <1>1, <1>2, <1>3, <1>4 DEF StackInv

(* The error function is called. *)
LEMMA RunHandlerStack ==
  ASSUME StackInv, pcalls # << >>, ~IsFull, RunHandler
  PROVE  StackInv'
  <1> DEFINE p == [sp |-> Current.sp, base |-> Depth, errfunc |-> Current.errfunc,
                   stage |-> "handler", oldpanic |-> Current.oldpanic]
             q == [pcalls EXCEPT ![Len(pcalls)] = p]
  <1>1. /\ pcalls' = q /\ hasErrorFunc' = FALSE /\ Panic' = "plain"
        /\ raising' = "none"
    BY DEF RunHandler
  <1>11. PICK kind \in {"lua", "go"} : frames' = Append(frames, kind)
    BY DEF RunHandler
  <1>2. p \in PCallRecord
    <2>1. Current.sp \in Depths /\ Current.errfunc \in BOOLEAN /\ Current.oldpanic \in PanicFunctions
      BY StackTypes DEF PCallRecord
    <2>2. Depth \in Depths
      BY StackTypes DEF Depths
    <2> QED
      BY <2>1, <2>2 DEF PCallRecord
  <1>3. /\ p.sp = pcalls[Len(pcalls)].sp /\ p.base = Len(frames)
        /\ p.oldpanic = pcalls[Len(pcalls)].oldpanic /\ p.stage = "handler"
    BY DEF Current, Depth
  <1> HIDE DEF p
  <1>4. q \in Seq(PCallRecord) /\ Placed(frames, q) /\ Len(q) = Len(pcalls) /\ q[Len(pcalls)] = p
    BY <1>2, <1>3, HandlerPlaced, StackTypes
  <1> HIDE DEF q
  <1>5. /\ frames' \in Seq(Kinds) /\ Len(frames') = Len(frames) + 1
        /\ Len(frames) \in 0 .. CallStackSize - 1 /\ CallStackSize \in Nat
    <2>1. Len(frames) # CallStackSize
      BY DEF IsFull, Depth
    <2>2. kind \in Kinds
      BY DEF Kinds
    <2> QED
      BY <1>11, <2>1, <2>2, StackTypes, Pushed
  <1>6. StackTypeOK'
    <2>1. Len(frames') \in Depths
      BY <1>5 DEF Depths
    <2>2. hasErrorFunc' \in BOOLEAN /\ raising' \in Panics \cup {"none"} /\ Panic' \in PanicFunctions
      BY <1>1 DEF PanicFunctions
    <2> QED
      BY <1>1, <1>4, <1>5, <2>1, <2>2 DEF StackTypeOK
  <1>7. Placed(frames, pcalls)'
    <2>1. kind \in Kinds /\ kind # "gotail"
      BY DEF Kinds
    <2>2. Placed(Append(frames, kind), q)
      BY <1>4, <2>1, StackTypes, PushPlaced
    <2> QED
      BY <1>1, <1>11, <2>2
  <1>8. q # << >>
    BY <1>4, StackTypes
  <1>9. CodeAbove(frames, pcalls)'
    <2>1. q[Len(q)].base < Len(frames')
      BY <1>3, <1>4, <1>5
    <2> QED
      BY <1>1, <1>8, <2>1 DEF CodeAbove
  <1>10. PanicOfPCall' /\ ErrorFuncExpected'
    BY <1>1, <1>8 DEF PanicOfPCall, ErrorFuncExpected, ErrorFuncWaits
  <1> QED
    BY <1>6, <1>7, <1>9, <1>10 DEF StackInv

(* A PCall begins. *)
LEMMA PCallStack ==
  ASSUME StackInv, ProtectedCall
  PROVE  StackInv'
  <1>1. PICK e \in BOOLEAN, kind \in {"lua", "go"} : PCall(e, kind)
    BY DEF ProtectedCall
  <1> DEFINE p == [sp |-> Depth, base |-> Depth, errfunc |-> e, stage |-> "body", oldpanic |-> Panic]
             q == Append(pcalls, p)
  <1>2. pcalls' = q /\ hasErrorFunc' = (hasErrorFunc \/ e) /\ Panic' = "plain"
    BY <1>1 DEF PCall
  <1>3. \/ raising' = "error" /\ frames' = frames
        \/ ~IsFull /\ frames' = Append(frames, kind) /\ raising' = raising
    <2>1. PICK flag : PushCallFrame(kind, flag)
      BY <1>1 DEF PCall
    <2> QED
      BY <2>1 DEF PushCallFrame, Raise
  <1>4. raising = "none" /\ CodeAbove(frames, pcalls)
    BY DEF ProtectedCall, InGo, InCall, StackInv
  <1>5. pcalls = << >> <=> Len(frames) = 0
    BY <1>4, StackTypes DEF CodeAbove
  <1>6. \A i \in 1 .. Len(pcalls) : pcalls[i].base < Len(frames)
    <2>1. pcalls # << >> => pcalls[Len(pcalls)].base < Len(frames)
      BY <1>4 DEF CodeAbove
    <2> QED
      BY <2>1, AllBelow, StackTypes
  <1>7. Len(frames) > 0 => frames[Len(frames)] # "lua"
    BY DEF ProtectedCall, InGo, InCall, Depth
  <1>8. p \in PCallRecord
    <2>1. Depth \in Depths /\ Panic \in PanicFunctions
      BY DEF StackInv, StackTypeOK, Depth
    <2> QED
      BY <2>1 DEF PCallRecord
  <1>9. /\ p.sp = Len(frames) /\ p.base = Len(frames) /\ p.errfunc = e /\ p.stage = "body"
        /\ p.oldpanic = Panic
    BY DEF Depth
  <1>10. Panic = IF pcalls = << >> THEN "traceback" ELSE "plain"
    BY DEF StackInv, StackTypeOK, PanicOfPCall, PanicFunctions
  <1> HIDE DEF p
  <1>11. /\ q \in Seq(PCallRecord) /\ Len(q) = Len(pcalls) + 1 /\ q[Len(pcalls) + 1] = p
         /\ \A i \in 1 .. Len(pcalls) : q[i] = pcalls[i]
    BY <1>8, StackTypes, Pushed
  <1>12. Placed(frames, q)
    BY <1>5, <1>6, <1>7, <1>8, <1>9, <1>10, StackTypes, BeginPlaced
  <1> HIDE DEF q
  <1>13. q # << >> /\ Len(q) \in 1 .. Len(q)
    BY <1>11, StackTypes
  <1>14. PanicOfPCall'
    BY <1>2, <1>13 DEF PanicOfPCall
  <1>15. ErrorFuncExpected'
    <2>1. SUFFICES ASSUME hasErrorFunc'
                   PROVE  \E i \in 1 .. Len(q) :
                            q[i].errfunc /\ \A j \in i .. Len(q) : q[j].stage = "body"
      BY <1>2 DEF ErrorFuncExpected, ErrorFuncWaits
    <2>2. q[Len(q)] = p /\ q[Len(q)].stage = "body" /\ q[Len(q)].errfunc = e
      <3>1. q[Len(q)] = p
        BY <1>11
      <3> QED
        BY <1>9, <3>1, Zenon
    <2>3. CASE e
      <3>1. \A j \in Len(q) .. Len(q) : j = Len(q)
        BY <1>13
      <3> QED
        BY <1>13, <2>2, <2>3, <3>1, Zenon
    <2>4. CASE ~e
      <3>1. PICK i \in 1 .. Len(pcalls) :
              pcalls[i].errfunc /\ \A j \in i .. Len(pcalls) : pcalls[j].stage = "body"
        BY <1>2, <2>1, <2>4 DEF StackInv, ErrorFuncExpected, ErrorFuncWaits
      <3>2. i \in 1 .. Len(q) /\ q[i] = pcalls[i]
        BY <1>11, StackTypes
      <3>3. ASSUME NEW j \in i .. Len(q) PROVE q[j].stage = "body"
        <4>1. j = Len(q) \/ (j \in i .. Len(pcalls) /\ j \in 1 .. Len(pcalls))
          BY <1>11, StackTypes
        <4>2. CASE j \in i .. Len(pcalls) /\ j \in 1 .. Len(pcalls)
          <5>1. q[j] = pcalls[j]
            BY <1>11, <4>2
          <5> QED
            BY <3>1, <4>2, <5>1, Zenon
        <4> QED
          BY <2>2, <4>1, <4>2
      <3> QED
        BY <3>1, <3>2, <3>3, Zenon
    <2> QED
      BY <2>3, <2>4
  <1>16. hasErrorFunc' \in BOOLEAN /\ Panic' \in PanicFunctions
    BY <1>2 DEF PanicFunctions, StackInv, StackTypeOK
  <1>17. CASE raising' = "error" /\ frames' = frames
    <2>1. StackTypeOK'
      <3>1. raising' \in Panics
        BY <1>17 DEF Panics
      <3>2. frames' \in Seq(Kinds) /\ Len(frames') \in Depths
        BY <1>17 DEF StackInv, StackTypeOK
      <3> QED
        BY <1>2, <1>11, <1>16, <3>1, <3>2 DEF StackTypeOK
    <2>2. Placed(frames, pcalls)'
      BY <1>2, <1>12, <1>17
    <2> QED
      BY <1>14, <1>15, <1>17, <2>1, <2>2 DEF StackInv
  <1>18. CASE ~IsFull /\ frames' = Append(frames, kind) /\ raising' = raising
    <2>1. kind \in Kinds /\ kind # "gotail"
      BY DEF Kinds
    <2>2. /\ frames' \in Seq(Kinds) /\ Len(frames') = Len(frames) + 1
          /\ Len(frames) \in 0 .. CallStackSize - 1 /\ CallStackSize \in Nat
      <3>1. Len(frames) # CallStackSize
        BY <1>18 DEF IsFull, Depth
      <3> QED
        BY <1>18, <2>1, <3>1, StackTypes, Pushed
    <2>3. StackTypeOK'
      <3>1. Len(frames') \in Depths
        BY <2>2 DEF Depths
      <3>2. raising' \in Panics \cup {"none"}
        BY <1>4, <1>18
      <3> QED
        BY <1>2, <1>11, <1>16, <2>2, <3>1, <3>2 DEF StackTypeOK
    <2>4. Placed(frames, pcalls)'
      <3>1. Placed(Append(frames, kind), q)
        BY <1>11, <1>12, <2>1, StackTypes, PushPlaced
      <3> QED
        BY <1>2, <1>18, <3>1
    <2>5. CodeAbove(frames, pcalls)'
      <3>1. q[Len(q)].base < Len(frames')
        BY <1>9, <1>11, <2>2
      <3> QED
        BY <1>2, <1>13, <3>1 DEF CodeAbove
    <2> QED
      BY <1>14, <1>15, <2>3, <2>4, <2>5 DEF StackInv
  <1> QED
    BY <1>3, <1>17, <1>18

(* What returning leaves is never below the running PCall. *)
LEMMA ReturnDepth ==
  ASSUME StackInv, InCall
  PROVE  DepthAfterReturn \in Current.base .. Depth - 1
  <1>1. /\ Depth \in 1 .. CallStackSize /\ CallStackSize \in Nat /\ Depth = Len(frames)
        /\ pcalls # << >> /\ Current.base < Depth /\ Current.base \in Nat
    BY CodeFacts, StackTypes
  <1>2. CASE frames[Depth] # "gotail"
    BY <1>1, <1>2 DEF DepthAfterReturn
  <1>3. CASE frames[Depth] = "gotail"
    <2>1. Depth \in 1 .. Len(frames) /\ Placed(frames, pcalls)
      BY <1>1, StackTypes
    <2>2. PCallPlaced(frames, Current, Len(pcalls))
      BY <1>1, <2>1, StackTypes DEF Placed
    <2>3. frames[Current.base + 1] # "gotail"
      BY <1>1, <2>2 DEF PCallPlaced
    <2>4. Current.base + 1 # Depth
      BY <1>3, <2>3
    <2> QED
      BY <1>1, <1>3, <2>4 DEF DepthAfterReturn
  <1> QED
    BY <1>2, <1>3

LEMMA ReturnStack ==
  ASSUME StackInv, Return
  PROVE  StackInv'
  <1>1. InCall /\ UNCHANGED raising
    BY DEF Return
  <1>2. pcalls # << >> /\ raising = "none"
    BY <1>1, CodeFacts
  <1>3. CASE DepthAfterReturn = Current.base
    BY <1>1, <1>2, <1>3, EndStack DEF Return
  <1>4. CASE DepthAfterReturn # Current.base
    <2>1. frames' = SubSeq(frames, 1, DepthAfterReturn) /\ UNCHANGED <<pcalls, Panic, hasErrorFunc>>
      BY <1>4 DEF Return
    <2>2. DepthAfterReturn \in 0 .. Depth /\ Current.base < DepthAfterReturn
      BY <1>1, <1>2, <1>4, ReturnDepth, StackTypes
    <2> QED
      BY <1>1, <2>1, <2>2, CutStack
  <1> QED
    BY <1>3, <1>4

LEMMA NextStack == StackInv /\ [Next]_vars => StackInv'
  <1> SUFFICES ASSUME StackInv, [Next]_vars
               PROVE  StackInv'
    OBVIOUS
  <1>1. CASE RaiseError
    <2>1. raising' \in Panics
      BY <1>1 DEF RaiseError, Raise, Panics
    <2> QED
      BY <1>1, <2>1, RaiseStack DEF RaiseError
  <1>2. CASE GoPanic
    <2>1. raising' \in Panics
      BY <1>2 DEF GoPanic, Panics
    <2> QED
      BY <1>2, <2>1, RaiseStack DEF GoPanic
  <1>3. CASE Call
    <2>1. PICK kind \in {"lua", "go"} : PushCallFrame(kind, hasErrorFunc)
      BY <1>3 DEF Call
    <2>2. kind \in Kinds /\ kind # "gotail"
      BY DEF Kinds
    <2>3. CASE IsFull
      <3>1. raising' \in Panics /\ UNCHANGED frames
        BY <2>1, <2>3 DEF PushCallFrame, Raise, Panics
      <3> QED
        BY <1>3, <3>1, RaiseStack DEF Call
    <2>4. CASE ~IsFull
      BY <1>3, <2>1, <2>2, <2>4, PushStack DEF Call, PushCallFrame
    <2> QED
      BY <2>3, <2>4
  <1>4. CASE ProtectedCall
    BY <1>4, PCallStack
  <1>5. CASE TailCallGo
    <2>1. InCall /\ frames[Depth] = "lua" /\ UNCHANGED <<pcalls, hasErrorFunc, Panic>>
      BY <1>5 DEF TailCallGo, InLua
    <2>2. CASE IsFull
      <3>1. raising' \in Panics /\ UNCHANGED frames
        BY <1>5, <2>2 DEF TailCallGo, Panics
      <3> QED
        BY <2>1, <3>1, RaiseStack
    <2>3. CASE ~IsFull
      <3>1. frames' = Append(frames, "gotail") /\ UNCHANGED raising
        BY <1>5, <2>3 DEF TailCallGo
      <3>2. "gotail" \in Kinds
        BY DEF Kinds
      <3> QED
        BY <2>1, <2>3, <3>1, <3>2, PushStack
    <2> QED
      BY <2>2, <2>3
  <1>6. CASE Return
    BY <1>6, ReturnStack
  <1>7. CASE Recover
    <2>1. pcalls # << >>
      BY <1>7 DEF Recover
    <2>2. CASE Unwind
      BY <2>1, <2>2, EndStack DEF Unwind
    <2>3. CASE ~IsFull /\ RunHandler
      BY <2>1, <2>3, RunHandlerStack
    <2>4. CASE HandlerOverflow
      BY <2>1, <2>4, EndStack DEF HandlerOverflow
    <2>5. CASE HandlerDoesNotFit
      BY <2>1, <2>5, HandlerDoesNotFitStack
    <2> QED
      BY <1>7, <2>2, <2>3, <2>4, <2>5 DEF Recover
  <1>8. CASE UNCHANGED stackVars
    BY <1>8 DEF stackVars, StackInv, StackTypeOK, PanicOfPCall, ErrorFuncExpected, ErrorFuncWaits
  <1>9. CASE TailCall \/ Capture \/ EndBlock \/ UNCHANGED vars
    <2>1. UNCHANGED stackVars
      BY <1>9 DEF TailCall, Capture, EndBlock, vars, stackVars
    <2> QED
      BY <1>8, <2>1
  <1> QED
    BY <1>1, <1>2, <1>3, <1>4, <1>5, <1>6, <1>7, <1>9 DEF Next

(* The invariant of calls, returns and PCalls: where they lie on the stack. *)
THEOREM StackInvariant == Spec => []StackInv
  BY InitStack, NextStack, PTL DEF Spec

(* However PCalls, errors and error functions follow each other, PCalls are
   nested: the unwinding of one drops no frame of an outer one and leaves the
   Go function that called it on top. *)
THEOREM CallsPCallsNested == Spec => []PCallsNested
  <1>1. StackInv => PCallsNested
    BY StackTypes DEF Placed, PCallPlaced, PCallsNested
  <1> QED
    BY <1>1, StackInvariant, PTL

(* ls.Panic is a PCall's exactly while one is running. *)
THEOREM CallsPanicOfPCall == Spec => []PanicOfPCall
  <1>1. StackInv => PanicOfPCall
    BY DEF StackInv
  <1> QED
    BY <1>1, StackInvariant, PTL

-----------------------------------------------------------------------------
(* Open upvalues. *)

UpvalueTypeOK ==
  /\ uvcache \in Seq(Registers)
  /\ opened \subseteq Registers
  /\ detached \subseteq Registers
  /\ orphans \subseteq opened
  /\ raised \subseteq {"closing", "keeping"}

UpvalueInv == UpvalueTypeOK /\ OpenListed /\ SharedUntilError

-----------------------------------------------------------------------------
(* Registers of frames. *)

LEMMA Multiples ==
  ASSUME NEW L \in Nat, NEW m \in Nat, NEW n \in Nat, m <= n
  PROVE  m * L \in Nat /\ m * L <= n * L
  BY SMTT(30)

LEMMA NextMultiple ==
  ASSUME NEW L \in Nat, NEW n \in Nat
  PROVE  (n + 1) * L = n * L + L
  BY SMTT(30)

(* A window begins where the one of the frame below ends. *)
LEMMA Windows ==
  ASSUME NEW n \in Nat \ {0}
  PROVE  /\ LocalBase(n) \in Nat /\ Locals \in Nat \ {0}
         /\ LocalBase(n + 1) = n * Locals /\ LocalBase(n + 1) = LocalBase(n) + Locals
         /\ \A r \in Window(n) : r \in Nat /\ LocalBase(n) <= r /\ r < LocalBase(n + 1)
  <1>1. Locals \in Nat \ {0} /\ n - 1 \in Nat /\ (n - 1) + 1 = n
    BY SizesAssumption
  <1>2. (n - 1) * Locals \in Nat
    BY <1>1, Multiples
  <1>3. n * Locals = (n - 1) * Locals + Locals
    <2>1. ((n - 1) + 1) * Locals = (n - 1) * Locals + Locals
      BY <1>1, NextMultiple
    <2> QED
      BY <1>1, <2>1
  <1>4. LocalBase(n) = (n - 1) * Locals
    BY DEF LocalBase
  <1>5. LocalBase(n + 1) = n * Locals
    <2>1. (n + 1) - 1 = n
      OBVIOUS
    <2> QED
      BY <2>1 DEF LocalBase
  <1>6. Window(n) = LocalBase(n) .. n * Locals - 1
    BY DEF Window
  <1> QED
    BY <1>1, <1>2, <1>3, <1>4, <1>5, <1>6

LEMMA BasesGrow ==
  ASSUME NEW m \in Nat \ {0}, NEW n \in Nat \ {0}, m <= n
  PROVE  LocalBase(m) \in Nat /\ LocalBase(n) \in Nat /\ LocalBase(m) <= LocalBase(n)
  <1>1. Locals \in Nat /\ m - 1 \in Nat /\ n - 1 \in Nat /\ m - 1 <= n - 1
    BY SizesAssumption
  <1>2. /\ (m - 1) * Locals \in Nat /\ (n - 1) * Locals \in Nat
        /\ (m - 1) * Locals <= (n - 1) * Locals
    BY <1>1, Multiples
  <1> QED
    BY <1>2 DEF LocalBase

LEMMA WindowRegisters ==
  ASSUME NEW n \in 1 .. CallStackSize
  PROVE  Window(n) \subseteq Registers
  <1>1. n \in Nat \ {0} /\ CallStackSize \in Nat \ {0} /\ n <= CallStackSize
    BY SizesAssumption
  <1>2. Locals \in Nat
    BY SizesAssumption
  <1>3. n * Locals \in Nat /\ n * Locals <= CallStackSize * Locals
    BY <1>1, <1>2, Multiples
  <1>4. CallStackSize * Locals \in Nat
    BY <1>1, <1>2, Multiples
  <1>5. \A r \in Window(n) : r \in Nat /\ r <= n * Locals - 1
    BY <1>1, <1>3, Windows DEF Window
  <1> DEFINE top == CallStackSize * Locals
  <1>6. top \in Nat /\ n * Locals <= top
    BY <1>3, <1>4
  <1> HIDE DEF top
  <1>7. \A r \in Window(n) : r \in 0 .. top - 1
    BY <1>3, <1>5, <1>6
  <1> QED
    BY <1>7 DEF Registers, top

-----------------------------------------------------------------------------
(* Walking along the list. *)

LessThan == {ss \in Nat \X Nat : ss[1] < ss[2]}

LEMMA MinimumExists ==
  ASSUME NEW S \in SUBSET Nat, S # {}
  PROVE  \E n \in S : \A m \in S : n <= m
  <1>1. IsWellFoundedOn(LessThan, Nat)
    BY NatLessThanWellFounded DEF OpToRel, LessThan
  <1>2. PICK n \in S : \A m \in S : <<m, n>> \notin LessThan
    BY <1>1, WFMin
  <1>3. \A m \in S : ~(m < n)
    BY <1>2 DEF LessThan
  <1> QED
    BY <1>3

LEMMA WalkFacts ==
  ASSUME uvcache \in Seq(Registers), NEW idx \in Nat
  PROVE  /\ Walk(idx) \in 0 .. Len(uvcache)
         /\ \A i \in 1 .. Walk(idx) : uvcache[i] < idx
         /\ Walk(idx) < Len(uvcache) => uvcache[Walk(idx) + 1] >= idx
  <1> DEFINE Stop(n) == n < Len(uvcache) => uvcache[n + 1] >= idx
             S == {n \in 0 .. Len(uvcache) : Stop(n)}
             Good(n) == (\A i \in 1 .. n : uvcache[i] < idx) /\ Stop(n)
  <1>1. Len(uvcache) \in Nat /\ \A i \in 1 .. Len(uvcache) : uvcache[i] \in Nat
    BY SizesAssumption DEF Registers
  <1>2. S \in SUBSET Nat /\ S # {}
    <2>1. Len(uvcache) \in S
      BY <1>1
    <2>2. S \subseteq Nat
      BY <1>1
    <2> HIDE DEF S
    <2> QED
      BY <2>1, <2>2
  <1>3. PICK n \in S : \A m \in S : n <= m
    <2> HIDE DEF S
    <2> QED
      BY <1>2, MinimumExists
  <1>4. \A i \in 1 .. n : uvcache[i] < idx
    <2> SUFFICES ASSUME NEW i \in 1 .. n, ~(uvcache[i] < idx) PROVE FALSE
      OBVIOUS
    <2>1. i - 1 \in 0 .. Len(uvcache) /\ i \in 1 .. Len(uvcache) /\ (i - 1) + 1 = i /\ ~(n <= i - 1)
      BY <1>1, <1>3
    <2>2. uvcache[i] >= idx
      BY <1>1, <2>1
    <2>3. i - 1 \in S
      BY <2>1, <2>2
    <2> HIDE DEF S
    <2> QED
      BY <1>3, <2>1, <2>3
  <1>5. n \in 0 .. Len(uvcache) /\ Good(n)
    BY <1>3, <1>4
  <1>6. Walk(idx) = CHOOSE k \in 0 .. Len(uvcache) : Good(k)
    BY DEF Walk
  <1> HIDE DEF Good
  <1>7. Walk(idx) \in 0 .. Len(uvcache) /\ Good(Walk(idx))
    BY <1>5, <1>6
  <1> QED
    BY <1>7 DEF Good

(* A list that is cut before register idx holds the registers below. *)
LEMMA CloseFacts ==
  ASSUME uvcache \in Seq(Registers), OpenListed, NEW idx \in Nat, closeUpvalues(idx)
  PROVE  uvcache' \in Seq(Registers) /\ OpenListed' /\ opened' = OpenBelow(idx)
  <1> DEFINE n == Walk(idx)
             t == SubSeq(uvcache, 1, n)
  <1>1. /\ n \in 0 .. Len(uvcache) /\ \A i \in 1 .. n : uvcache[i] < idx
        /\ n < Len(uvcache) => uvcache[n + 1] >= idx
    BY WalkFacts
  <1> HIDE DEF n
  <1>2. t \in Seq(Registers) /\ Len(t) = n /\ \A i \in 1 .. n : t[i] = uvcache[i]
    BY <1>1, Cut
  <1>3. uvcache' = t /\ opened' = OpenBelow(idx)
    BY DEF closeUpvalues, Unclosed, n
  <1> HIDE DEF t
  <1>4. Len(uvcache) \in Nat /\ \A i \in 1 .. Len(uvcache) : uvcache[i] \in Nat
    BY SizesAssumption DEF Registers
  <1>5. \A i, j \in 1 .. Len(uvcache) : i < j => uvcache[i] < uvcache[j]
    BY DEF OpenListed
  <1>6. \A i \in 1 .. Len(uvcache) : uvcache[i] < idx <=> i <= n
    <2> SUFFICES ASSUME NEW i \in 1 .. Len(uvcache), ~(i <= n) PROVE ~(uvcache[i] < idx)
      BY <1>1
    <2>1. n < Len(uvcache) /\ n + 1 \in 1 .. Len(uvcache) /\ n + 1 <= i
      BY <1>1, <1>4
    <2>2. uvcache[n + 1] >= idx /\ uvcache[n + 1] <= uvcache[i]
      BY <1>1, <1>4, <1>5, <2>1
    <2> QED
      BY <1>4, <2>1, <2>2
  <1>7. \A i, j \in 1 .. Len(t) : i < j => t[i] < t[j]
    <2>1. \A i \in 1 .. n : i \in 1 .. Len(uvcache)
      BY <1>1, <1>4
    <2> QED
      BY <1>2, <1>5, <2>1
  <1>8. OpenBelow(idx) = {t[i] : i \in 1 .. Len(t)}
    <2>1. opened = {uvcache[i] : i \in 1 .. Len(uvcache)}
      BY DEF OpenListed
    <2>2. ASSUME NEW r \in OpenBelow(idx) PROVE r \in {t[i] : i \in 1 .. Len(t)}
      <3>1. r \in opened /\ r < idx
        BY DEF OpenBelow
      <3>2. PICK i \in 1 .. Len(uvcache) : r = uvcache[i]
        BY <2>1, <3>1
      <3>3. i \in 1 .. n
        BY <1>1, <1>4, <1>6, <3>1, <3>2
      <3> QED
        BY <1>2, <3>2, <3>3
    <2>3. ASSUME NEW i \in 1 .. Len(t) PROVE t[i] \in OpenBelow(idx)
      <3>1. i \in 1 .. Len(uvcache) /\ t[i] = uvcache[i] /\ uvcache[i] < idx
        BY <1>1, <1>2, <1>4
      <3> QED
        BY <2>1, <3>1 DEF OpenBelow
    <2> QED
      BY <2>2, <2>3
  <1> QED
    BY <1>2, <1>3, <1>7, <1>8 DEF OpenListed

(* A list with register idx put in before the first one that is higher. *)
LEMMA FindFacts ==
  ASSUME uvcache \in Seq(Registers), OpenListed, NEW idx \in Registers, findUpvalue(idx)
  PROVE  uvcache' \in Seq(Registers) /\ OpenListed' /\ opened' = opened \cup {idx}
  <1> DEFINE n == Walk(idx)
             l == SubSeq(uvcache, 1, n)
             r == SubSeq(uvcache, n + 1, Len(uvcache))
             m == l \o <<idx>>
             t == m \o r
  <1>1. idx \in Nat /\ Len(uvcache) \in Nat /\ \A i \in 1 .. Len(uvcache) : uvcache[i] \in Nat
    BY SizesAssumption DEF Registers
  <1>2. /\ n \in 0 .. Len(uvcache) /\ \A i \in 1 .. n : uvcache[i] < idx
        /\ n < Len(uvcache) => uvcache[n + 1] >= idx
    BY <1>1, WalkFacts
  <1>3. /\ uvcache' = IF n < Len(uvcache) /\ uvcache[n + 1] = idx THEN uvcache ELSE t
        /\ opened' = opened \cup {idx}
    BY DEF findUpvalue
  <1> HIDE DEF n
  <1>4. opened = {uvcache[i] : i \in 1 .. Len(uvcache)}
    BY DEF OpenListed
  <1>5. \A i, j \in 1 .. Len(uvcache) : i < j => uvcache[i] < uvcache[j]
    BY DEF OpenListed
  <1>6. CASE n < Len(uvcache) /\ uvcache[n + 1] = idx
    <2>1. n + 1 \in 1 .. Len(uvcache)
      BY <1>1, <1>2, <1>6
    <2>2. idx \in opened
      BY <1>4, <1>6, <2>1
    <2>3. uvcache' = uvcache /\ opened' = opened
      BY <1>3, <1>6, <2>2
    <2> QED
      BY <1>3, <2>3 DEF OpenListed
  <1>7. CASE ~(n < Len(uvcache) /\ uvcache[n + 1] = idx)
    <2>1. uvcache' = t
      BY <1>3, <1>7
    <2>2. l \in Seq(Registers) /\ Len(l) = n /\ \A i \in 1 .. n : l[i] = uvcache[i]
      BY <1>2, Cut
    <2>3. /\ r \in Seq(Registers) /\ Len(r) = Len(uvcache) - n
          /\ \A i \in 1 .. Len(uvcache) - n : r[i] = uvcache[n + i]
      <3>1. \A i \in n + 1 .. Len(uvcache) : uvcache[i] \in Registers
        BY <1>1, <1>2
      <3>2. /\ r \in Seq(Registers)
            /\ Len(r) = IF n + 1 <= Len(uvcache) THEN Len(uvcache) - (n + 1) + 1 ELSE 0
            /\ \A i \in 1 .. Len(uvcache) - (n + 1) + 1 : r[i] = uvcache[(n + 1) + i - 1]
        BY <1>1, <1>2, <3>1, SubSeqProperties
      <3> HIDE DEF r
      <3> QED
        BY <1>1, <1>2, <3>2
    <2>4. <<idx>> \in Seq(Registers) /\ Len(<<idx>>) = 1 /\ <<idx>>[1] = idx
      OBVIOUS
    <2> HIDE DEF l, r
    <2>5. /\ m \in Seq(Registers) /\ Len(m) = n + 1
          /\ \A i \in 1 .. n + 1 : m[i] = IF i <= n THEN uvcache[i] ELSE idx
      <3>1. /\ m \in Seq(Registers) /\ Len(m) = Len(l) + 1
            /\ \A i \in 1 .. Len(l) + 1 : m[i] = IF i <= Len(l) THEN l[i] ELSE <<idx>>[i - Len(l)]
        BY <2>2, <2>4, ConcatProperties
      <3> HIDE DEF m
      <3> QED
        BY <1>1, <1>2, <2>2, <2>4, <3>1
    <2> HIDE DEF m
    <2>6. /\ t \in Seq(Registers) /\ Len(t) = Len(m) + Len(r)
          /\ \A i \in 1 .. Len(m) + Len(r) : t[i] = IF i <= Len(m) THEN m[i] ELSE r[i - Len(m)]
      <3>1. m \in Seq(Registers) /\ r \in Seq(Registers)
        BY <2>3, <2>5
      <3> QED
        BY <3>1, ConcatProperties
    <2> HIDE DEF t
    <2>7. /\ Len(t) = Len(uvcache) + 1 /\ t[n + 1] = idx
          /\ \A i \in 1 .. n : t[i] = uvcache[i]
          /\ \A i \in n + 2 .. Len(uvcache) + 1 : t[i] = uvcache[i - 1]
      <3>1. Len(t) = Len(uvcache) + 1
        BY <1>1, <1>2, <2>3, <2>5, <2>6
      <3>2. \A i \in 1 .. n + 1 : t[i] = m[i]
        <4>1. \A i \in 1 .. n + 1 : i \in 1 .. Len(m) + Len(r) /\ i <= Len(m)
          BY <1>1, <1>2, <2>3, <2>5
        <4> QED
          BY <2>6, <4>1
      <3>3. t[n + 1] = idx /\ \A i \in 1 .. n : t[i] = uvcache[i]
        BY <1>1, <1>2, <2>5, <3>2
      <3>4. ASSUME NEW i \in n + 2 .. Len(uvcache) + 1 PROVE t[i] = uvcache[i - 1]
        <4>1. i - (n + 1) \in 1 .. Len(uvcache) - n /\ n + (i - (n + 1)) = i - 1
          BY <1>1, <1>2
        <4>2. i \in 1 .. Len(m) + Len(r) /\ ~(i <= Len(m)) /\ i - Len(m) = i - (n + 1)
          BY <1>1, <1>2, <2>3, <2>5
        <4>3. t[i] = r[i - (n + 1)]
          BY <2>6, <4>2
        <4> QED
          BY <2>3, <4>1, <4>3
      <3> QED
        BY <3>1, <3>3, <3>4
    <2>8. \A i \in n + 1 .. Len(uvcache) : uvcache[i] > idx
      <3> SUFFICES ASSUME NEW i \in n + 1 .. Len(uvcache) PROVE uvcache[i] > idx
        OBVIOUS
      <3>1. n < Len(uvcache) /\ n + 1 \in 1 .. Len(uvcache) /\ i \in 1 .. Len(uvcache) /\ n + 1 <= i
        BY <1>1, <1>2
      <3>2. uvcache[n + 1] > idx
        BY <1>1, <1>2, <1>7, <3>1
      <3>3. i = n + 1 \/ uvcache[n + 1] < uvcache[i]
        BY <1>5, <3>1
      <3> QED
        BY <1>1, <3>1, <3>2, <3>3
    <2>9. ASSUME NEW i \in 1 .. Len(t), NEW j \in 1 .. Len(t), i < j PROVE t[i] < t[j]
      <3>1. CASE j <= n
        <4>1. i \in 1 .. n /\ j \in 1 .. n /\ i \in 1 .. Len(uvcache) /\ j \in 1 .. Len(uvcache)
          BY <1>1, <1>2, <2>7, <2>9, <3>1
        <4> QED
          BY <1>5, <2>7, <2>9, <4>1
      <3>2. CASE j = n + 1
        <4>1. i \in 1 .. n
          BY <1>1, <1>2, <2>7, <2>9, <3>2
        <4> QED
          BY <1>2, <2>7, <3>2, <4>1
      <3>3. CASE j > n + 1
        <4>1. j \in n + 2 .. Len(uvcache) + 1 /\ j - 1 \in n + 1 .. Len(uvcache) /\ j - 1 \in 1 .. Len(uvcache)
          BY <1>1, <1>2, <2>7, <3>3
        <4>2. t[j] = uvcache[j - 1] /\ uvcache[j - 1] > idx
          BY <2>7, <2>8, <4>1
        <4>3. CASE i <= n
          <5>1. i \in 1 .. n /\ i \in 1 .. Len(uvcache)
            BY <1>1, <1>2, <2>7, <4>3
          <5>2. t[i] = uvcache[i] /\ uvcache[i] < idx
            BY <1>2, <2>7, <5>1
          <5> QED
            BY <1>1, <4>1, <4>2, <5>1, <5>2
        <4>4. CASE i = n + 1
          BY <2>7, <4>2, <4>4
        <4>5. CASE i > n + 1
          <5>1. i \in n + 2 .. Len(uvcache) + 1 /\ i - 1 \in 1 .. Len(uvcache) /\ i - 1 < j - 1
            BY <1>1, <1>2, <2>7, <2>9, <4>5
          <5>2. t[i] = uvcache[i - 1] /\ uvcache[i - 1] < uvcache[j - 1]
            BY <1>5, <2>7, <4>1, <5>1
          <5> QED
            BY <4>2, <5>2
        <4>6. n \in Int
          BY <1>2
        <4> QED
          BY <4>3, <4>4, <4>5, <4>6
      <3>4. n \in Int
        BY <1>2
      <3> QED
        BY <3>1, <3>2, <3>3, <3>4
    <2>10. opened' = {t[i] : i \in 1 .. Len(t)}
      <3>1. ASSUME NEW x \in opened' PROVE x \in {t[i] : i \in 1 .. Len(t)}
        <4>1. CASE x = idx
          BY <1>1, <1>2, <2>7, <4>1
        <4>2. CASE x # idx
          <5>1. PICK i \in 1 .. Len(uvcache) : x = uvcache[i]
            BY <1>3, <1>4, <4>2
          <5>2. CASE i <= n
            BY <1>1, <1>2, <2>7, <5>1, <5>2
          <5>3. CASE i > n
            <6>1. i + 1 \in n + 2 .. Len(uvcache) + 1 /\ i + 1 \in 1 .. Len(t) /\ (i + 1) - 1 = i
              BY <1>1, <1>2, <2>7, <5>3
            <6>2. t[i + 1] = uvcache[i]
              BY <2>7, <6>1
            <6> QED
              BY <5>1, <6>1, <6>2
          <5> QED
            BY <1>2, <5>2, <5>3
        <4> QED
          BY <4>1, <4>2
      <3>2. ASSUME NEW i \in 1 .. Len(t) PROVE t[i] \in opened'
        <4>1. CASE i \in 1 .. n
          BY <1>1, <1>2, <1>3, <1>4, <2>7, <4>1
        <4>2. CASE i = n + 1
          BY <1>3, <2>7, <4>2
        <4>3. CASE i \in n + 2 .. Len(uvcache) + 1
          <5>1. i - 1 \in 1 .. Len(uvcache)
            BY <1>1, <1>2, <4>3
          <5> QED
            BY <1>3, <1>4, <2>7, <4>3, <5>1
        <4> QED
          BY <1>1, <1>2, <2>7, <4>1, <4>2, <4>3
      <3> QED
        BY <3>1, <3>2
    <2>11. OpenListed'
      <3>1. \A i, j \in 1 .. Len(uvcache') : i < j => uvcache'[i] < uvcache'[j]
        BY <2>1, <2>9
      <3>2. opened' = {uvcache'[i] : i \in 1 .. Len(uvcache')}
        BY <2>1, <2>10
      <3> QED
        BY <3>1, <3>2 DEF OpenListed
    <2> QED
      BY <1>3, <2>1, <2>6, <2>11
  <1> QED
    BY <1>6, <1>7

-----------------------------------------------------------------------------
(* The kinds of steps, as far as the upvalues are concerned. *)

LEMMA VariablesGoFacts ==
  ASSUME UpvalueInv, NEW idx \in Nat, VariablesGo(idx), opened' \subseteq opened,
         raised \subseteq raised',
         "closing" \in raised' \/ \A i \in opened \ opened' : i >= idx
  PROVE  detached' \subseteq Registers /\ orphans' \subseteq opened' /\ SharedUntilError'
  <1>1. /\ detached' = {i \in detached \cup ((opened \ opened') \ orphans) : i < idx}
        /\ orphans' = (orphans \cup {i \in opened : i >= idx}) \cap opened'
    BY DEF VariablesGo
  <1>2. detached \subseteq Registers /\ opened \subseteq Registers /\ \A i \in Registers : i \in Nat
    BY SizesAssumption DEF UpvalueInv, UpvalueTypeOK, Registers
  <1>3. detached' \subseteq Registers /\ orphans' \subseteq opened'
    BY <1>1, <1>2
  <1>4. ASSUME "closing" \notin raised' PROVE detached' = {}
    <2>1. detached = {}
      BY <1>4 DEF UpvalueInv, SharedUntilError
    <2>2. \A i \in opened \ opened' : i \in Nat /\ i >= idx
      BY <1>2, <1>4
    <2> QED
      BY <1>1, <2>1, <2>2
  <1> QED
    BY <1>3, <1>4 DEF SharedUntilError

LEMMA CloseStep ==
  ASSUME UpvalueInv, NEW low \in Nat, NEW idx \in Nat, closeUpvalues(low), VariablesGo(idx),
         raised \subseteq raised', raised' \subseteq {"closing", "keeping"},
         "closing" \in raised' \/ idx <= low
  PROVE  UpvalueInv'
  <1>1. uvcache' \in Seq(Registers) /\ OpenListed' /\ opened' = OpenBelow(low)
    BY CloseFacts DEF UpvalueInv, UpvalueTypeOK
  <1>2. opened' \subseteq opened /\ \A i \in opened \ opened' : ~(i < low)
    BY <1>1 DEF OpenBelow
  <1>3. opened \subseteq Registers /\ \A i \in Registers : i \in Nat
    BY SizesAssumption DEF UpvalueInv, UpvalueTypeOK, Registers
  <1>4. "closing" \in raised' \/ \A i \in opened \ opened' : i >= idx
    BY <1>2, <1>3
  <1>5. detached' \subseteq Registers /\ orphans' \subseteq opened' /\ SharedUntilError'
    BY <1>2, <1>4, VariablesGoFacts
  <1>6. UpvalueTypeOK'
    BY <1>1, <1>2, <1>3, <1>5 DEF UpvalueTypeOK
  <1> QED
    BY <1>1, <1>5, <1>6 DEF UpvalueInv

LEMMA KeepStep ==
  ASSUME UpvalueInv, NEW idx \in Nat, UNCHANGED <<uvcache, opened, raised>>, VariablesGo(idx)
  PROVE  UpvalueInv'
  <1>1. OpenListed' /\ opened' \subseteq opened /\ \A i \in opened \ opened' : i >= idx
    BY DEF UpvalueInv, OpenListed
  <1>2. detached' \subseteq Registers /\ orphans' \subseteq opened' /\ SharedUntilError'
    BY <1>1, VariablesGoFacts
  <1>3. UpvalueTypeOK'
    BY <1>2 DEF UpvalueInv, UpvalueTypeOK
  <1> QED
    BY <1>1, <1>2, <1>3 DEF UpvalueInv

(* The lowest Lua frame, from whose registers on an error closes all. *)
LEMMA LowestFacts ==
  ASSUME StackInv
  PROVE  /\ LowestLocalBase \in Nat
         /\ \A n \in 1 .. Depth : frames[n] = "lua" => LowestLocalBase <= LocalBase(n)
  <1> DEFINE lua == {n \in 1 .. Depth : frames[n] = "lua"}
             low == CHOOSE n \in lua : \A m \in lua : n <= m
  <1>1. LowestLocalBase = IF lua = {} THEN CallStackSize * Locals ELSE LocalBase(low)
    BY DEF LowestLocalBase
  <1>2. Depth \in Nat /\ lua \in SUBSET Nat /\ \A n \in lua : n \in Nat \ {0}
    BY StackTypes
  <1>3. \A n \in 1 .. Depth : frames[n] = "lua" <=> n \in lua
    OBVIOUS
  <1>4. CASE lua = {}
    <2>1. CallStackSize * Locals \in Nat
      BY SizesAssumption, Multiples
    <2> HIDE DEF lua
    <2> QED
      BY <1>1, <1>3, <1>4, <2>1
  <1>5. CASE lua # {}
    <2> HIDE DEF lua
    <2>1. \E n \in lua : \A m \in lua : n <= m
      BY <1>2, <1>5, MinimumExists
    <2>2. low \in lua /\ \A m \in lua : low <= m
      BY <2>1
    <2> HIDE DEF low
    <2>3. \A m \in lua : LocalBase(low) \in Nat /\ LocalBase(low) <= LocalBase(m)
      BY <1>2, <2>2, BasesGrow
    <2> QED
      BY <1>1, <1>3, <1>5, <2>2, <2>3
  <1> QED
    BY <1>4, <1>5

LEMMA BaseAbove ==
  ASSUME NEW n \in Nat
  PROVE  LocalBase(n + 1) \in Nat
  BY BasesGrow

LEMMA RaiseUpvalues ==
  ASSUME StackInv, UpvalueInv, NEW flag, NEW panic, Raise(flag, panic)
  PROVE  UpvalueInv'
  <1>1. raised \subseteq {"closing", "keeping"}
    BY DEF UpvalueInv, UpvalueTypeOK
  <1>2. CASE flag
    <2>1. UNCHANGED upvalueVars /\ raised' = raised \cup {"keeping"}
      BY <1>2 DEF Raise
    <2> QED
      BY <1>1, <2>1 DEF upvalueVars, UpvalueInv, UpvalueTypeOK, OpenListed, SharedUntilError
  <1>3. CASE ~flag
    <2>1. closeUpvalues(LowestLocalBase) /\ VariablesGo(LocalBase(Depth + 1)) /\ raised' = raised \cup {"closing"}
      BY <1>3 DEF Raise, closeAllUpvalues
    <2>2. LowestLocalBase \in Nat /\ LocalBase(Depth + 1) \in Nat
      BY LowestFacts, BaseAbove, StackTypes
    <2> QED
      BY <1>1, <2>1, <2>2, CloseStep
  <1> QED
    BY <1>2, <1>3

LEMMA SameUpvalues ==
  ASSUME UpvalueInv, UNCHANGED upvalueVars, UNCHANGED raised
  PROVE  UpvalueInv'
  BY DEF upvalueVars, UpvalueInv, UpvalueTypeOK, OpenListed, SharedUntilError

LEMMA PushUpvalues ==
  ASSUME StackInv, UpvalueInv, NEW kind, NEW flag, PushCallFrame(kind, flag)
  PROVE  UpvalueInv'
  <1>1. CASE IsFull
    BY <1>1, RaiseUpvalues DEF PushCallFrame
  <1>2. CASE ~IsFull
    BY <1>2, SameUpvalues DEF PushCallFrame
  <1> QED
    BY <1>1, <1>2

LEMMA InitUpvalues == Init => UpvalueInv
  <1> SUFFICES ASSUME Init PROVE UpvalueInv
    OBVIOUS
  <1>1. /\ uvcache = << >> /\ Len(uvcache) = 0 /\ opened = {} /\ detached = {}
        /\ orphans = {} /\ raised = {}
    BY DEF Init
  <1>2. UpvalueTypeOK
    BY <1>1 DEF UpvalueTypeOK
  <1>3. OpenListed
    BY <1>1 DEF OpenListed
  <1> QED
    BY <1>1, <1>2, <1>3 DEF UpvalueInv, SharedUntilError

LEMMA TailCallGoUpvalues ==
  ASSUME StackInv, UpvalueInv, TailCallGo
  PROVE  UpvalueInv'
  <1>1. InCall /\ VariablesGo(LocalBase(Depth))
    BY DEF TailCallGo, InLua
  <1>2. LocalBase(Depth) \in Nat /\ LowestLocalBase \in Nat
    BY <1>1, CodeFacts, Windows, LowestFacts
  <1>3. raised \subseteq {"closing", "keeping"}
    BY DEF UpvalueInv, UpvalueTypeOK
  <1>4. CASE IsFull /\ hasErrorFunc
    <2>1. closeUpvalues(LocalBase(Depth)) /\ raised' = raised \cup {"keeping"}
      BY <1>4 DEF TailCallGo
    <2>2. LocalBase(Depth) <= LocalBase(Depth)
      BY <1>2
    <2> QED
      BY <1>1, <1>2, <1>3, <2>1, <2>2, CloseStep
  <1>5. CASE IsFull /\ ~hasErrorFunc
    <2>1. closeUpvalues(LowestLocalBase) /\ raised' = raised \cup {"closing"}
      BY <1>5 DEF TailCallGo
    <2> QED
      BY <1>1, <1>2, <1>3, <2>1, CloseStep
  <1>6. CASE ~IsFull
    <2>1. closeUpvalues(LocalBase(Depth)) /\ raised' = raised
      BY <1>6 DEF TailCallGo
    <2>2. LocalBase(Depth) <= LocalBase(Depth)
      BY <1>2
    <2> QED
      BY <1>1, <1>2, <1>3, <2>1, <2>2, CloseStep
  <1> QED
    BY <1>4, <1>5, <1>6

(* The registers that are given up by returning. *)
LEMMA ReturnRegisters ==
  ASSUME StackInv, Return
  PROVE  /\ InCall /\ Depth \in Nat \ {0} /\ LocalBase(Depth) \in Nat
         /\ \E n \in 0 .. Depth - 1 :
              /\ n = IF DepthAfterReturn = Current.base THEN Current.sp ELSE DepthAfterReturn
              /\ VariablesGo(LocalBase(n + 1))
              /\ LocalBase(n + 1) \in Nat /\ LocalBase(n + 1) <= LocalBase(Depth)
  <1>1. InCall
    BY DEF Return
  <1>2. Depth \in Nat \ {0} /\ LocalBase(Depth) \in Nat
    <2>1. Depth \in Nat \ {0}
      BY <1>1, CodeFacts, StackTypes
    <2> QED
      BY <2>1, Windows
  <1> DEFINE n == IF DepthAfterReturn = Current.base THEN Current.sp ELSE DepthAfterReturn
  <1>3. VariablesGo(LocalBase(n + 1))
    BY DEF Return
  <1>4. n \in 0 .. Depth - 1
    BY <1>1, CodeFacts, ReturnDepth, StackTypes
  <1> HIDE DEF n
  <1>5. LocalBase(n + 1) \in Nat /\ LocalBase(n + 1) <= LocalBase(Depth)
    <2>1. n + 1 \in Nat \ {0} /\ n + 1 <= Depth
      BY <1>2, <1>4
    <2> QED
      BY <1>2, <2>1, BasesGrow
  <1>6. /\ n \in 0 .. Depth - 1
        /\ n = IF DepthAfterReturn = Current.base THEN Current.sp ELSE DepthAfterReturn
        /\ VariablesGo(LocalBase(n + 1))
        /\ LocalBase(n + 1) \in Nat /\ LocalBase(n + 1) <= LocalBase(Depth)
    BY <1>3, <1>4, <1>5, Zenon DEF n
  <1> QED
    BY <1>1, <1>2, <1>6, Zenon

LEMMA ReturnUpvalues ==
  ASSUME StackInv, UpvalueInv, Return
  PROVE  UpvalueInv'
  <1>1. LocalBase(Depth) \in Nat /\ UNCHANGED raised /\ raised \subseteq {"closing", "keeping"}
    BY ReturnRegisters DEF Return, UpvalueInv, UpvalueTypeOK
  <1>2. PICK n \in 0 .. Depth - 1 :
          /\ VariablesGo(LocalBase(n + 1))
          /\ LocalBase(n + 1) \in Nat /\ LocalBase(n + 1) <= LocalBase(Depth)
    BY ReturnRegisters
  <1>3. CASE InLua
    BY <1>1, <1>2, <1>3, CloseStep DEF Return
  <1>4. CASE ~InLua
    BY <1>1, <1>2, <1>4, KeepStep DEF Return
  <1> QED
    BY <1>3, <1>4

LEMMA CaptureUpvalues ==
  ASSUME StackInv, UpvalueInv, Capture
  PROVE  UpvalueInv'
  <1>1. PICK idx \in Window(Depth) : findUpvalue(idx)
    BY DEF Capture
  <1>2. UNCHANGED <<detached, orphans, raised>>
    BY DEF Capture
  <1>3. Window(Depth) \subseteq Registers
    BY CodeFacts, WindowRegisters DEF Capture, InLua
  <1>4. uvcache' \in Seq(Registers) /\ OpenListed' /\ opened' = opened \cup {idx}
    BY <1>1, <1>3, FindFacts DEF UpvalueInv, UpvalueTypeOK
  <1>5. UpvalueTypeOK'
    BY <1>2, <1>3, <1>4 DEF UpvalueInv, UpvalueTypeOK
  <1>6. SharedUntilError'
    BY <1>2 DEF UpvalueInv, SharedUntilError
  <1> QED
    BY <1>4, <1>5, <1>6 DEF UpvalueInv

LEMMA RecoverUpvalues ==
  ASSUME StackInv, UpvalueInv, Recover
  PROVE  UpvalueInv'
  <1>1. Current.sp \in Nat /\ LowestLocalBase \in Nat
    BY StackTypes, LowestFacts DEF Recover
  <1>2. LocalBase(Current.sp + 1) \in Nat
    BY <1>1, BaseAbove
  <1>3. raised \subseteq {"closing", "keeping"}
    BY DEF UpvalueInv, UpvalueTypeOK
  <1>4. CASE Unwind
    BY <1>2, <1>4, KeepStep DEF Unwind
  <1>5. CASE RunHandler
    BY <1>5, SameUpvalues DEF RunHandler
  <1>6. CASE HandlerOverflow
    <2>1. closeUpvalues(LowestLocalBase) /\ VariablesGo(LocalBase(Current.sp + 1)) /\ raised' = raised \cup {"closing"}
      BY <1>6 DEF HandlerOverflow, closeAllUpvalues
    <2> QED
      BY <1>1, <1>2, <1>3, <2>1, CloseStep
  <1>7. CASE HandlerDoesNotFit
    BY <1>7, RaiseUpvalues DEF HandlerDoesNotFit
  <1> QED
    BY <1>4, <1>5, <1>6, <1>7 DEF Recover

LEMMA NextUpvalues == StackInv /\ UpvalueInv /\ [Next]_vars => UpvalueInv'
  <1> SUFFICES ASSUME StackInv, UpvalueInv, [Next]_vars
               PROVE  UpvalueInv'
    OBVIOUS
  <1>1. CASE RaiseError
    BY <1>1, RaiseUpvalues DEF RaiseError
  <1>2. CASE GoPanic
    BY <1>2 DEF GoPanic, upvalueVars, UpvalueInv, UpvalueTypeOK, OpenListed, SharedUntilError
  <1>3. CASE Call
    BY <1>3, PushUpvalues DEF Call
  <1>4. CASE ProtectedCall
    <2>1. PICK e, kind : PCall(e, kind)
      BY <1>4 DEF ProtectedCall
    <2>2. PICK flag : PushCallFrame(kind, flag)
      BY <2>1 DEF PCall
    <2> QED
      BY <2>2, PushUpvalues
  <1>5. CASE TailCall
    <2>1. /\ closeUpvalues(LocalBase(Depth)) /\ VariablesGo(LocalBase(Depth))
          /\ raised' = raised /\ LocalBase(Depth) \in Nat
      BY <1>5, CodeFacts, Windows DEF TailCall, InLua
    <2>2. raised \subseteq {"closing", "keeping"} /\ LocalBase(Depth) <= LocalBase(Depth)
      BY <2>1 DEF UpvalueInv, UpvalueTypeOK
    <2>3. raised \subseteq raised' /\ raised' \subseteq {"closing", "keeping"}
      BY <2>1, <2>2
    <2> QED
      BY <2>1, <2>2, <2>3, CloseStep, Zenon
  <1>6. CASE TailCallGo
    BY <1>6, TailCallGoUpvalues
  <1>7. CASE Return
    BY <1>7, ReturnUpvalues
  <1>8. CASE Capture
    BY <1>8, CaptureUpvalues
  <1>9. CASE EndBlock
    <2>1. PICK idx \in Window(Depth) : closeUpvalues(idx) /\ VariablesGo(idx)
      BY <1>9 DEF EndBlock
    <2>2. Depth \in Nat \ {0} /\ raised' = raised
      BY <1>9, CodeFacts, StackTypes DEF EndBlock, InLua
    <2>3. idx \in Nat /\ idx <= idx
      BY <2>2, Windows
    <2>4. raised \subseteq {"closing", "keeping"}
      BY DEF UpvalueInv, UpvalueTypeOK
    <2> QED
      BY <2>1, <2>2, <2>3, <2>4, CloseStep
  <1>10. CASE Recover
    BY <1>10, RecoverUpvalues
  <1>11. CASE UNCHANGED vars
    BY <1>11, SameUpvalues DEF vars, upvalueVars
  <1> QED
    BY <1>1, <1>2, <1>3, <1>4, <1>5, <1>6, <1>7, <1>8, <1>9, <1>10, <1>11 DEF Next

(* The invariant of findUpvalue, closeUpvalues and the ghosts, on top of that
   of the stack. *)
THEOREM UpvalueInvariant == Spec => [](StackInv /\ UpvalueInv)
  <1>1. StackInv /\ UpvalueInv /\ [Next]_vars => (StackInv /\ UpvalueInv)'
    BY NextStack, NextUpvalues
  <1> QED
    BY <1>1, InitStack, InitUpvalues, PTL DEF Spec

(* All variables have their types: depths stay on the stack, and upvalues
   refer to its registers. *)
THEOREM CallsTypeOK == Spec => []TypeOK
  <1>1. StackInv /\ UpvalueInv => TypeOK
    BY DEF StackInv, StackTypeOK, UpvalueInv, UpvalueTypeOK, TypeOK
  <1> QED
    BY <1>1, UpvalueInvariant, PTL

(* The list holds all open upvalues, once and in order. *)
THEOREM CallsOpenListed == Spec => []OpenListed
  <1>1. UpvalueInv => OpenListed
    BY DEF UpvalueInv
  <1> QED
    BY <1>1, UpvalueInvariant, PTL

(* Until an error closes upvalues, a variable that exists and the closures
   that captured it are one. *)
THEOREM CallsSharedUntilError == Spec => []SharedUntilError
  <1>1. UpvalueInv => SharedUntilError
    BY DEF UpvalueInv
  <1> QED
    BY <1>1, UpvalueInvariant, PTL
-----------------------------------------------------------------------------
(* No open upvalue refers to a register of another frame unless an error has
   kept it open: up to then every open upvalue has an owner, and an error
   closes them all. *)

(* Register r is a local of a Lua frame among the first k that has not given
   up its variables by tail-calling a Go function. *)
Owned(fr, k, r) ==
  \E n \in 1 .. k :
    /\ fr[n] = "lua" /\ r \in Window(n)
    /\ n < k => fr[n + 1] # "gotail"

(* While an error function runs, the open upvalues are of its own frames and
   those above: the frames that failed have lost theirs. *)
HandlersAbove(pc, regs) ==
  \A i \in 1 .. Len(pc) :
    pc[i].stage = "handler" => \A r \in regs : r >= LocalBase(pc[i].base + 1)

CleanInv ==
  /\ orphans = {}
  /\ \A r \in opened : Owned(frames, Len(frames), r)
  /\ raising # "none" => opened = {}
  /\ HandlersAbove(pcalls, opened)

OwnedInv == "keeping" \notin raised => CleanInv

-----------------------------------------------------------------------------
LEMMA RegistersAreNumbers == Registers \subseteq Nat
  BY SizesAssumption DEF Registers

LEMMA NothingOpen ==
  ASSUME UpvalueInv', opened' = {}
  PROVE  CleanInv'
  <1>1. orphans' = {}
    BY DEF UpvalueInv, UpvalueTypeOK
  <1> QED
    BY <1>1 DEF CleanInv, HandlersAbove

LEMMA NoOrphans ==
  ASSUME orphans = {}, NEW idx \in Nat, VariablesGo(idx), opened' \subseteq Nat,
         \A r \in opened' : r < idx
  PROVE  orphans' = {}
  <1>1. \A r \in opened' : ~(r >= idx)
    OBVIOUS
  <1> QED
    BY <1>1 DEF VariablesGo

(* An owner on another part of the stack. *)
LEMMA OwnedPushed ==
  ASSUME NEW fr \in Seq(Kinds), NEW kind \in Kinds, NEW r, Owned(fr, Len(fr), r),
         kind = "gotail" => r < LocalBase(Len(fr))
  PROVE  Owned(Append(fr, kind), Len(Append(fr, kind)), r)
  <1> DEFINE t == Append(fr, kind)
  <1>1. Len(fr) \in Nat /\ Len(t) = Len(fr) + 1 /\ t[Len(fr) + 1] = kind
    BY Pushed
  <1>2. \A i \in 1 .. Len(fr) : t[i] = fr[i]
    BY Pushed
  <1> HIDE DEF t
  <1>3. PICK n \in 1 .. Len(fr) :
          fr[n] = "lua" /\ r \in Window(n) /\ (n < Len(fr) => fr[n + 1] # "gotail")
    BY DEF Owned
  <1>4. n < Len(t) => t[n + 1] # "gotail"
    <2>1. CASE n < Len(fr)
      <3>1. n + 1 \in 1 .. Len(fr)
        BY <1>1, <2>1
      <3> QED
        BY <1>2, <1>3, <2>1, <3>1
    <2>2. CASE n = Len(fr)
      <3>1. n \in Nat \ {0}
        BY <1>1
      <3>2. r \in Nat /\ LocalBase(n) \in Nat /\ LocalBase(n) <= r
        BY <1>3, <3>1, Windows
      <3>3. kind # "gotail"
        BY <2>2, <3>2
      <3> QED
        BY <1>1, <2>2, <3>3
    <2> QED
      BY <1>1, <2>1, <2>2
  <1>5. n \in 1 .. Len(t) /\ t[n] = "lua"
    BY <1>1, <1>2, <1>3
  <1>6. Owned(t, Len(t), r)
    BY <1>3, <1>4, <1>5 DEF Owned
  <1> QED
    BY <1>6 DEF t

LEMMA OwnedCut ==
  ASSUME NEW fr \in Seq(Kinds), NEW k \in 0 .. Len(fr), NEW r, Owned(fr, k, r)
  PROVE  Owned(SubSeq(fr, 1, k), Len(SubSeq(fr, 1, k)), r)
  <1> DEFINE t == SubSeq(fr, 1, k)
  <1>1. Len(t) = k /\ \A i \in 1 .. k : t[i] = fr[i]
    BY Cut
  <1> HIDE DEF t
  <1>2. PICK n \in 1 .. k : fr[n] = "lua" /\ r \in Window(n) /\ (n < k => fr[n + 1] # "gotail")
    BY DEF Owned
  <1>3. n < k => n + 1 \in 1 .. k
    OBVIOUS
  <1>4. t[n] = "lua" /\ (n < k => t[n + 1] # "gotail")
    BY <1>1, <1>2, <1>3
  <1>5. Owned(t, Len(t), r)
    BY <1>1, <1>2, <1>4 DEF Owned
  <1> QED
    BY <1>5 DEF t

(* An owned register lies below what is above its owner's part. *)
LEMMA OwnedBelow ==
  ASSUME NEW fr, NEW k \in Nat, NEW r, Owned(fr, k, r)
  PROVE  r \in Nat /\ LocalBase(k + 1) \in Nat /\ r < LocalBase(k + 1)
  <1>1. PICK n \in 1 .. k : r \in Window(n)
    BY DEF Owned
  <1>2. n \in Nat \ {0} /\ k + 1 \in Nat \ {0} /\ n + 1 \in Nat \ {0} /\ n + 1 <= k + 1
    OBVIOUS
  <1>3. r \in Nat /\ r < LocalBase(n + 1)
    BY <1>1, <1>2, Windows
  <1>4. /\ LocalBase(n + 1) \in Nat /\ LocalBase(k + 1) \in Nat
        /\ LocalBase(n + 1) <= LocalBase(k + 1)
    BY <1>2, BasesGrow
  <1> QED
    BY <1>3, <1>4

-----------------------------------------------------------------------------
(* The kinds of steps. *)

LEMMA AboveLowest ==
  ASSUME StackInv, CleanInv, NEW r \in opened
  PROVE  ~(r < LowestLocalBase)
  <1>1. Owned(frames, Len(frames), r)
    BY DEF CleanInv
  <1>2. PICK n \in 1 .. Len(frames) : frames[n] = "lua" /\ r \in Window(n)
    BY <1>1 DEF Owned
  <1>3. n \in Nat \ {0} /\ n \in 1 .. Depth
    BY StackTypes
  <1>4. r \in Nat /\ LocalBase(n) \in Nat /\ LocalBase(n) <= r
    BY <1>2, <1>3, Windows
  <1>5. LowestLocalBase \in Nat /\ LowestLocalBase <= LocalBase(n)
    BY <1>2, <1>3, LowestFacts
  <1> QED
    BY <1>4, <1>5

LEMMA RaiseClean ==
  ASSUME StackInv, UpvalueInv', CleanInv, NEW flag, NEW panic, Raise(flag, panic),
         "keeping" \notin raised'
  PROVE  CleanInv'
  <1>1. ~flag /\ closeUpvalues(LowestLocalBase)
    BY DEF Raise, closeAllUpvalues
  <1>2. \A r \in opened : ~(r < LowestLocalBase)
    BY AboveLowest
  <1>3. opened' = {}
    BY <1>1, <1>2 DEF closeUpvalues, OpenBelow
  <1> QED
    BY <1>3, NothingOpen

LEMMA PushClean ==
  ASSUME StackInv, CleanInv, NEW kind \in {"lua", "go"}, frames' = Append(frames, kind),
         UNCHANGED <<raising, opened, orphans>>, HandlersAbove(pcalls', opened)
  PROVE  CleanInv'
  <1>1. frames \in Seq(Kinds) /\ kind \in Kinds /\ kind # "gotail"
    BY StackTypes DEF Kinds
  <1>2. ASSUME NEW r \in opened PROVE Owned(frames', Len(frames'), r)
    <2>1. Owned(frames, Len(frames), r)
      BY DEF CleanInv
    <2>2. Owned(Append(frames, kind), Len(Append(frames, kind)), r)
      BY <1>1, <2>1, OwnedPushed
    <2> QED
      BY <2>2
  <1>3. \A r \in opened' : Owned(frames', Len(frames'), r)
    BY <1>2
  <1>4. orphans' = {} /\ (raising' # "none" => opened' = {}) /\ HandlersAbove(pcalls', opened')
    BY DEF CleanInv
  <1> QED
    BY <1>3, <1>4 DEF CleanInv

(* Upvalues are closed and the frames remain. *)
LEMMA CloseClean ==
  ASSUME UpvalueInv, CleanInv, NEW idx \in Nat, closeUpvalues(idx), VariablesGo(idx),
         UNCHANGED <<frames, pcalls, raising>>
  PROVE  CleanInv'
  <1>1. opened' \subseteq opened /\ \A r \in opened' : r < idx
    BY DEF closeUpvalues, OpenBelow
  <1>2. opened \subseteq Nat
    BY RegistersAreNumbers DEF UpvalueInv, UpvalueTypeOK
  <1>3. orphans' = {}
    <2>1. opened' \subseteq Nat /\ orphans = {}
      BY <1>1, <1>2 DEF CleanInv
    <2> QED
      BY <1>1, <2>1, NoOrphans
  <1>4. \A r \in opened' : Owned(frames', Len(frames'), r)
    BY <1>1 DEF CleanInv
  <1>5. (raising' # "none" => opened' = {}) /\ HandlersAbove(pcalls', opened')
    BY <1>1 DEF CleanInv, HandlersAbove
  <1> QED
    BY <1>3, <1>4, <1>5 DEF CleanInv

LEMMA SameClean ==
  ASSUME CleanInv, UNCHANGED <<frames, pcalls, raising, opened, orphans>>
  PROVE  CleanInv'
  BY DEF CleanInv

LEMMA CallClean ==
  ASSUME StackInv, UpvalueInv', CleanInv, Call, "keeping" \notin raised'
  PROVE  CleanInv'
  <1>1. PICK kind \in {"lua", "go"} : PushCallFrame(kind, hasErrorFunc)
    BY DEF Call
  <1>2. CASE IsFull
    BY <1>1, <1>2, RaiseClean DEF PushCallFrame
  <1>3. CASE ~IsFull
    <2>1. frames' = Append(frames, kind) /\ UNCHANGED <<raising, opened, orphans>> /\ pcalls' = pcalls
      BY <1>1, <1>3 DEF PushCallFrame, upvalueVars, Call
    <2>2. HandlersAbove(pcalls', opened)
      BY <2>1 DEF CleanInv
    <2> QED
      BY <2>1, <2>2, PushClean
  <1> QED
    BY <1>2, <1>3

LEMMA PCallClean ==
  ASSUME StackInv, UpvalueInv', CleanInv, ProtectedCall, "keeping" \notin raised'
  PROVE  CleanInv'
  <1>1. PICK e \in BOOLEAN, kind \in {"lua", "go"} : PCall(e, kind)
    BY DEF ProtectedCall
  <1>2. PICK flag : PushCallFrame(kind, flag)
    BY <1>1 DEF PCall
  <1> DEFINE p == [sp |-> Depth, base |-> Depth, errfunc |-> e, stage |-> "body", oldpanic |-> Panic]
  <1>3. pcalls' = Append(pcalls, p) /\ p.stage = "body"
    BY <1>1 DEF PCall
  <1>4. p \in PCallRecord
    <2>1. Depth \in Depths /\ Panic \in PanicFunctions
      BY DEF StackInv, StackTypeOK, Depth
    <2> QED
      BY <2>1 DEF PCallRecord
  <1> HIDE DEF p
  <1>5. CASE IsFull
    BY <1>2, <1>5, RaiseClean DEF PushCallFrame
  <1>6. CASE ~IsFull
    <2>1. frames' = Append(frames, kind) /\ UNCHANGED <<raising, opened, orphans>>
      BY <1>2, <1>6 DEF PushCallFrame, upvalueVars
    <2>2. HandlersAbove(pcalls', opened)
      <3>1. /\ Len(pcalls') = Len(pcalls) + 1 /\ pcalls'[Len(pcalls) + 1] = p
            /\ \A i \in 1 .. Len(pcalls) : pcalls'[i] = pcalls[i]
        BY <1>3, <1>4, StackTypes, Pushed
      <3>2. Len(pcalls) \in Nat
        BY StackTypes
      <3>3. ASSUME NEW i \in 1 .. Len(pcalls'), pcalls'[i].stage = "handler"
            PROVE  \A r \in opened : r >= LocalBase(pcalls'[i].base + 1)
        <4>1. i # Len(pcalls) + 1
          BY <1>3, <3>1, <3>3
        <4>2. i \in 1 .. Len(pcalls)
          BY <3>1, <3>2, <4>1
        <4>3. pcalls'[i] = pcalls[i]
          BY <3>1, <4>2
        <4> QED
          BY <3>3, <4>2, <4>3 DEF CleanInv, HandlersAbove
      <3> QED
        BY <3>3 DEF HandlersAbove
    <2> QED
      BY <2>1, <2>2, PushClean
  <1> QED
    BY <1>5, <1>6

LEMMA TailCallGoClean ==
  ASSUME StackInv, UpvalueInv, UpvalueInv', CleanInv, TailCallGo, "keeping" \notin raised'
  PROVE  CleanInv'
  <1>1. InCall /\ VariablesGo(LocalBase(Depth)) /\ pcalls' = pcalls
    BY DEF TailCallGo, InLua
  <1>2. Depth \in Nat \ {0}
    BY <1>1, CodeFacts, StackTypes
  <1>3. LocalBase(Depth) \in Nat
    BY <1>2, Windows
  <1>4. CASE IsFull
    <2>1. ~hasErrorFunc /\ closeUpvalues(LowestLocalBase)
      BY <1>4 DEF TailCallGo
    <2>2. ASSUME NEW r \in opened PROVE ~(r < LowestLocalBase)
      BY <2>2, AboveLowest
    <2>3. opened' = {}
      BY <2>1, <2>2 DEF closeUpvalues, OpenBelow
    <2> QED
      BY <2>3, NothingOpen
  <1>5. CASE ~IsFull
    <2>1. /\ closeUpvalues(LocalBase(Depth)) /\ frames' = Append(frames, "gotail")
          /\ UNCHANGED raising
      BY <1>5 DEF TailCallGo
    <2>2. opened' \subseteq opened /\ \A r \in opened' : r < LocalBase(Depth)
      BY <2>1 DEF closeUpvalues, OpenBelow
    <2>3. orphans' = {}
      <3>1. opened' \subseteq Nat /\ orphans = {}
        BY <2>2, RegistersAreNumbers DEF UpvalueInv, UpvalueTypeOK, CleanInv
      <3> QED
        BY <1>1, <1>3, <2>2, <3>1, NoOrphans
    <2>4. ASSUME NEW r \in opened' PROVE Owned(frames', Len(frames'), r)
      <3>1. Owned(frames, Len(frames), r) /\ r < LocalBase(Len(frames))
        BY <2>2, StackTypes DEF CleanInv
      <3>2. "gotail" \in Kinds /\ frames \in Seq(Kinds)
        BY StackTypes DEF Kinds
      <3>3. Owned(Append(frames, "gotail"), Len(Append(frames, "gotail")), r)
        BY <3>1, <3>2, OwnedPushed
      <3> QED
        BY <2>1, <3>3
    <2>5. (raising' # "none" => opened' = {}) /\ HandlersAbove(pcalls', opened')
      BY <1>1, <2>1, <2>2 DEF CleanInv, HandlersAbove
    <2> QED
      BY <2>3, <2>4, <2>5 DEF CleanInv
  <1> QED
    BY <1>4, <1>5

LEMMA CaptureClean ==
  ASSUME StackInv, UpvalueInv, CleanInv, Capture
  PROVE  CleanInv'
  <1>1. PICK idx \in Window(Depth) : findUpvalue(idx)
    BY DEF Capture
  <1>2. InCall /\ frames[Depth] = "lua"
    BY DEF Capture, InLua
  <1>3. /\ frames' = frames /\ pcalls' = pcalls /\ raising' = raising /\ orphans' = orphans
        /\ opened' = opened \cup {idx}
    BY <1>1 DEF Capture, stackVars, findUpvalue
  <1>4. Depth \in Nat \ {0} /\ Depth = Len(frames) /\ raising = "none"
    BY <1>2, CodeFacts, StackTypes
  <1>5. idx \in Nat /\ LocalBase(Depth) \in Nat /\ LocalBase(Depth) <= idx
    BY <1>4, Windows
  <1>6. Owned(frames, Len(frames), idx)
    BY <1>2, <1>4 DEF Owned
  <1>7. \A r \in opened' : Owned(frames', Len(frames'), r)
    BY <1>3, <1>6 DEF CleanInv
  <1>8. HandlersAbove(pcalls', opened')
    <2>1. SUFFICES ASSUME NEW i \in 1 .. Len(pcalls), pcalls[i].stage = "handler"
                   PROVE  idx >= LocalBase(pcalls[i].base + 1)
      BY <1>3 DEF CleanInv, HandlersAbove
    <2>2. pcalls[i].base \in Nat /\ pcalls[i].base < Depth
      BY <1>2, CodeFacts, StackTypes, Records
    <2>3. pcalls[i].base + 1 \in Nat \ {0} /\ pcalls[i].base + 1 <= Depth
      BY <1>4, <2>2
    <2>4. /\ LocalBase(pcalls[i].base + 1) \in Nat
          /\ LocalBase(pcalls[i].base + 1) <= LocalBase(Depth)
      BY <1>4, <2>3, BasesGrow
    <2> QED
      BY <1>5, <2>4
  <1> QED
    BY <1>3, <1>4, <1>7, <1>8 DEF CleanInv

(* What remains open after a return belongs to the frames that remain. *)
LEMMA ReturnOwned ==
  ASSUME StackInv, CleanInv, Return, NEW r \in opened'
  PROVE  Owned(frames, DepthAfterReturn, r)
  <1>1. InCall /\ Depth \in Nat \ {0} /\ Depth = Len(frames) /\ LocalBase(Depth) \in Nat
    BY ReturnRegisters, StackTypes
  <1>2. r \in opened /\ (frames[Depth] = "lua" => r < LocalBase(Depth))
    <2>1. CASE InLua
      BY <2>1 DEF Return, closeUpvalues, OpenBelow
    <2>2. CASE ~InLua
      BY <1>1, <2>2 DEF Return, InLua
    <2> QED
      BY <2>1, <2>2
  <1>3. Owned(frames, Len(frames), r)
    BY <1>2 DEF CleanInv
  <1>4. PICK n \in 1 .. Len(frames) :
          frames[n] = "lua" /\ r \in Window(n) /\ (n < Len(frames) => frames[n + 1] # "gotail")
    BY <1>3 DEF Owned
  <1>5. n # Depth
    <2> SUFFICES ASSUME n = Depth PROVE FALSE
      OBVIOUS
    <2>1. r \in Nat /\ LocalBase(Depth) <= r
      BY <1>1, <1>4, Windows
    <2> QED
      BY <1>1, <1>2, <1>4, <2>1
  <1>6. n < Depth /\ frames[n + 1] # "gotail"
    BY <1>1, <1>4, <1>5
  <1>7. CASE frames[Depth] # "gotail"
    <2>1. DepthAfterReturn = Depth - 1 /\ n \in 1 .. DepthAfterReturn
      BY <1>1, <1>6, <1>7 DEF DepthAfterReturn
    <2> QED
      BY <1>4, <1>6, <2>1 DEF Owned
  <1>8. CASE frames[Depth] = "gotail"
    <2>1. n + 1 # Depth
      BY <1>6, <1>8
    <2>2. DepthAfterReturn = Depth - 2 /\ n \in 1 .. DepthAfterReturn
      BY <1>1, <1>6, <1>8, <2>1 DEF DepthAfterReturn
    <2> QED
      BY <1>4, <1>6, <2>2 DEF Owned
  <1> QED
    BY <1>7, <1>8

LEMMA ReturnClean ==
  ASSUME StackInv, UpvalueInv, UpvalueInv', CleanInv, Return
  PROVE  CleanInv'
  <1> DEFINE n == DepthAfterReturn
  <1>1. InCall /\ n \in Current.base .. Depth - 1 /\ pcalls # << >>
    BY ReturnDepth, CodeFacts DEF Return
  <1>2. /\ Depth = Len(frames) /\ Current.base \in 0 .. Depth /\ frames \in Seq(Kinds)
        /\ Len(pcalls) \in 1 .. Len(pcalls) /\ Current = pcalls[Len(pcalls)]
    BY <1>1, StackTypes
  <1>3. n \in 0 .. Len(frames) /\ n \in Nat
    BY <1>1, <1>2
  <1>4. \A r \in opened' : Owned(frames, n, r)
    BY ReturnOwned
  <1>5. opened' \subseteq opened /\ raising = "none" /\ raising' = raising /\ orphans = {}
    BY <1>1, CodeFacts DEF Return, closeUpvalues, OpenBelow, CleanInv
  <1> HIDE DEF n
  <1>6. LocalBase(n + 1) \in Nat
    BY <1>3, BaseAbove
  <1>7. \A r \in opened' : r \in Nat /\ r < LocalBase(n + 1)
    BY <1>3, <1>4, OwnedBelow
  <1>8. ASSUME frames' = SubSeq(frames, 1, n), VariablesGo(LocalBase(n + 1)),
               HandlersAbove(pcalls', opened)
        PROVE  CleanInv'
    <2>1. orphans' = {}
      <3>1. opened' \subseteq Nat /\ \A r \in opened' : r < LocalBase(n + 1)
        BY <1>7
      <3> QED
        BY <1>5, <1>6, <1>8, <3>1, NoOrphans
    <2>2. ASSUME NEW r \in opened' PROVE Owned(frames', Len(frames'), r)
      <3>1. Owned(SubSeq(frames, 1, n), Len(SubSeq(frames, 1, n)), r)
        BY <1>2, <1>3, <1>4, OwnedCut
      <3> QED
        BY <1>8, <3>1
    <2>3. HandlersAbove(pcalls', opened')
      BY <1>5, <1>8 DEF HandlersAbove
    <2> QED
      BY <1>5, <2>1, <2>2, <2>3 DEF CleanInv
  <1>9. CASE n # Current.base
    <2>1. frames' = SubSeq(frames, 1, n) /\ VariablesGo(LocalBase(n + 1)) /\ pcalls' = pcalls
      BY <1>9 DEF Return, n
    <2> QED
      BY <1>8, <2>1 DEF CleanInv
  <1>10. CASE n = Current.base /\ Current.stage = "handler"
    <2>1. \A r \in opened : r >= LocalBase(n + 1)
      BY <1>2, <1>10 DEF CleanInv, HandlersAbove
    <2>2. ASSUME NEW r \in opened' PROVE FALSE
      <3>1. r \in Nat /\ r < LocalBase(n + 1) /\ r >= LocalBase(n + 1)
        BY <1>5, <1>7, <2>1
      <3> QED
        BY <1>6, <3>1
    <2>3. opened' = {}
      BY <2>2
    <2> QED
      BY <2>3, NothingOpen
  <1>11. CASE n = Current.base /\ Current.stage # "handler"
    <2>1. Current.sp = n
      <3>1. Current \in PCallRecord /\ PCallPlaced(frames, Current, Len(pcalls))
        BY <1>1, <1>2, StackTypes DEF Placed
      <3>2. Current.stage = "body"
        BY <1>11, <3>1 DEF PCallRecord
      <3> QED
        BY <1>11, <3>1, <3>2 DEF PCallPlaced
    <2>2. frames' = SubSeq(frames, 1, n) /\ VariablesGo(LocalBase(n + 1)) /\ pcalls' = OtherPCalls
      BY <1>11, <2>1 DEF Return, EndPCall, n
    <2>3. HandlersAbove(pcalls', opened)
      <3>1. /\ Len(OtherPCalls) = Len(pcalls) - 1
            /\ \A i \in 1 .. Len(OtherPCalls) : OtherPCalls[i] = pcalls[i]
        BY <1>1, OthersFacts
      <3>2. \A i \in 1 .. Len(OtherPCalls) : i \in 1 .. Len(pcalls)
        BY <1>2, <3>1
      <3> QED
        BY <2>2, <3>1, <3>2 DEF CleanInv, HandlersAbove
    <2> QED
      BY <1>8, <2>2, <2>3
  <1> QED
    BY <1>9, <1>10, <1>11

(* Whatever becomes of an error, it left nothing open. *)
LEMMA RecoverClean ==
  ASSUME UpvalueInv', CleanInv, Recover
  PROVE  CleanInv'
  <1>1. opened = {}
    BY DEF Recover, CleanInv
  <1>2. opened' = {}
    <2>1. CASE Unwind
      BY <1>1, <2>1 DEF Unwind
    <2>2. CASE RunHandler
      BY <1>1, <2>2 DEF RunHandler, upvalueVars
    <2>3. CASE HandlerOverflow
      BY <1>1, <2>3 DEF HandlerOverflow, closeAllUpvalues, closeUpvalues, OpenBelow
    <2>4. CASE HandlerDoesNotFit
      BY <1>1, <2>4 DEF HandlerDoesNotFit, Raise, closeAllUpvalues, closeUpvalues, OpenBelow
    <2> QED
      BY <2>1, <2>2, <2>3, <2>4 DEF Recover
  <1> QED
    BY <1>2, NothingOpen

-----------------------------------------------------------------------------
(* That errors kept upvalues open is never forgotten. *)
LEMMA RaisedGrows ==
  ASSUME [Next]_vars
  PROVE  raised \subseteq raised'
  <1>1. ASSUME NEW flag, NEW panic, Raise(flag, panic) PROVE raised \subseteq raised'
    BY <1>1 DEF Raise
  <1>2. ASSUME NEW kind, NEW flag, PushCallFrame(kind, flag) PROVE raised \subseteq raised'
    BY <1>1, <1>2 DEF PushCallFrame
  <1>3. CASE RaiseError \/ Call
    BY <1>1, <1>2, <1>3 DEF RaiseError, Call
  <1>4. CASE ProtectedCall
    <2>1. PICK e, kind : PCall(e, kind)
      BY <1>4 DEF ProtectedCall
    <2> QED
      BY <1>2, <2>1 DEF PCall
  <1>5. CASE Recover
    BY <1>1, <1>5 DEF Recover, Unwind, RunHandler, HandlerOverflow, HandlerDoesNotFit
  <1>6. CASE GoPanic \/ TailCall \/ TailCallGo \/ Return \/ Capture \/ EndBlock \/ UNCHANGED vars
    BY <1>6 DEF GoPanic, TailCall, TailCallGo, Return, Capture, EndBlock, vars
  <1> QED
    BY <1>3, <1>4, <1>5, <1>6 DEF Next

LEMMA InitOwned == Init => OwnedInv
  <1> SUFFICES ASSUME Init PROVE OwnedInv
    OBVIOUS
  <1>1. orphans = {} /\ opened = {}
    BY DEF Init
  <1> QED
    BY <1>1 DEF OwnedInv, CleanInv, HandlersAbove

LEMMA NextOwned == StackInv /\ UpvalueInv /\ UpvalueInv' /\ OwnedInv /\ [Next]_vars => OwnedInv'
  <1> SUFFICES ASSUME StackInv, UpvalueInv, UpvalueInv', OwnedInv, [Next]_vars,
                      "keeping" \notin raised'
               PROVE  CleanInv'
    BY DEF OwnedInv
  <1>1. CleanInv
    BY RaisedGrows DEF OwnedInv
  <1>2. CASE RaiseError
    <2>1. PICK panic : Raise(hasErrorFunc, panic)
      BY <1>2 DEF RaiseError
    <2> QED
      BY <1>1, <2>1, RaiseClean
  <1>3. CASE GoPanic
    BY <1>3 DEF GoPanic
  <1>4. CASE Call
    BY <1>1, <1>4, CallClean
  <1>5. CASE ProtectedCall
    BY <1>1, <1>5, PCallClean
  <1>6. CASE TailCall
    <2>1. InCall /\ closeUpvalues(LocalBase(Depth)) /\ VariablesGo(LocalBase(Depth))
      BY <1>6 DEF TailCall, InLua
    <2>2. Depth \in Nat \ {0}
      BY <2>1, CodeFacts, StackTypes
    <2>3. LocalBase(Depth) \in Nat
      BY <2>2, Windows
    <2>4. UNCHANGED <<frames, pcalls, raising>>
      BY <1>6 DEF TailCall, stackVars
    <2> QED
      BY <1>1, <2>1, <2>3, <2>4, CloseClean
  <1>7. CASE TailCallGo
    BY <1>1, <1>7, TailCallGoClean
  <1>8. CASE Return
    BY <1>1, <1>8, ReturnClean
  <1>9. CASE Capture
    BY <1>1, <1>9, CaptureClean
  <1>10. CASE EndBlock
    <2>1. PICK idx \in Window(Depth) : closeUpvalues(idx) /\ VariablesGo(idx)
      BY <1>10 DEF EndBlock
    <2>2. Depth \in Nat \ {0}
      BY <1>10, CodeFacts, StackTypes DEF EndBlock, InLua
    <2>3. idx \in Nat
      BY <2>2, Windows
    <2>4. UNCHANGED <<frames, pcalls, raising>>
      BY <1>10 DEF EndBlock, stackVars
    <2> QED
      BY <1>1, <2>1, <2>3, <2>4, CloseClean
  <1>11. CASE Recover
    BY <1>1, <1>11, RecoverClean
  <1>12. CASE UNCHANGED vars
    BY <1>1, <1>12, SameClean DEF vars
  <1> QED
    BY <1>2, <1>3, <1>4, <1>5, <1>6, <1>7, <1>8, <1>9, <1>10, <1>11, <1>12 DEF Next

(* As long as no error has kept upvalues open, every open upvalue belongs to
   a local variable of a frame that is on the stack and still owns it. *)
THEOREM CallsNoDangling == Spec => []NoDangling
  <1>1. StackInv /\ UpvalueInv /\ (StackInv /\ UpvalueInv)' /\ OwnedInv /\ [Next]_vars => OwnedInv'
    BY NextOwned
  <1>2. OwnedInv => NoDangling
    BY DEF OwnedInv, CleanInv, NoDangling
  <1> QED
    BY <1>1, <1>2, InitOwned, UpvalueInvariant, PTL DEF Spec

-----------------------------------------------------------------------------
(* An error leaves upvalues of existing variables open only for an error
   function that waits: every such variable belongs to a Lua frame, so that an
   error which closes the upvalues closes all of these. *)

Live(fr, r) == \E n \in 1 .. Len(fr) : fr[n] = "lua" /\ r \in Window(n)

LiveInv == \A r \in opened \ orphans : Live(frames, r)

LEMMA LivePushed ==
  ASSUME NEW fr \in Seq(Kinds), NEW kind \in Kinds, NEW r, Live(fr, r)
  PROVE  Live(Append(fr, kind), r)
  <1> DEFINE t == Append(fr, kind)
  <1>1. Len(fr) \in Nat /\ Len(t) = Len(fr) + 1 /\ \A i \in 1 .. Len(fr) : t[i] = fr[i]
    BY Pushed
  <1> HIDE DEF t
  <1>2. PICK n \in 1 .. Len(fr) : fr[n] = "lua" /\ r \in Window(n)
    BY DEF Live
  <1>3. n \in 1 .. Len(t) /\ t[n] = "lua"
    BY <1>1, <1>2
  <1>4. Live(t, r)
    BY <1>2, <1>3 DEF Live
  <1> QED
    BY <1>4 DEF t

LEMMA LiveCut ==
  ASSUME NEW fr \in Seq(Kinds), NEW k \in 0 .. Len(fr), NEW r, Live(fr, r),
         r < LocalBase(k + 1)
  PROVE  Live(SubSeq(fr, 1, k), r)
  <1> DEFINE t == SubSeq(fr, 1, k)
  <1>1. Len(t) = k /\ \A i \in 1 .. k : t[i] = fr[i]
    BY Cut
  <1> HIDE DEF t
  <1>2. PICK n \in 1 .. Len(fr) : fr[n] = "lua" /\ r \in Window(n)
    BY DEF Live
  <1>3. n \in Nat \ {0} /\ k + 1 \in Nat \ {0}
    OBVIOUS
  <1>4. r \in Nat /\ LocalBase(n) \in Nat /\ LocalBase(n) <= r
    BY <1>2, <1>3, Windows
  <1>5. n <= k
    <2> SUFFICES ASSUME k + 1 <= n PROVE FALSE
      BY <1>3
    <2>1. LocalBase(k + 1) \in Nat /\ LocalBase(k + 1) <= LocalBase(n)
      BY <1>3, BasesGrow
    <2> QED
      BY <1>4, <2>1
  <1>6. n \in 1 .. Len(t) /\ t[n] = "lua"
    BY <1>1, <1>2, <1>5
  <1>7. Live(t, r)
    BY <1>2, <1>6 DEF Live
  <1> QED
    BY <1>7 DEF t

(* What is open and its variable there after variables have gone was so
   before, and below them. *)
LEMMA StillLive ==
  ASSUME UpvalueInv, LiveInv, NEW idx \in Nat, VariablesGo(idx), opened' \subseteq opened,
         NEW r \in opened' \ orphans'
  PROVE  r \in opened \ orphans /\ Live(frames, r) /\ r \in Nat /\ r < idx
  <1>1. r \in opened /\ r \in Nat
    BY RegistersAreNumbers DEF UpvalueInv, UpvalueTypeOK
  <1>2. r \notin orphans /\ ~(r >= idx)
    BY <1>1 DEF VariablesGo
  <1> QED
    BY <1>1, <1>2 DEF LiveInv

LEMMA SameLive ==
  ASSUME UpvalueInv, LiveInv, NEW idx \in Nat, VariablesGo(idx), opened' \subseteq opened,
         frames' = frames
  PROVE  LiveInv'
  BY StillLive DEF LiveInv

LEMMA PushLive ==
  ASSUME StackInv, LiveInv, NEW kind \in Kinds, frames' = Append(frames, kind),
         UNCHANGED <<opened, orphans>>
  PROVE  LiveInv'
  BY LivePushed, StackTypes DEF LiveInv

LEMMA CutLive ==
  ASSUME StackInv, UpvalueInv, LiveInv, NEW n \in 0 .. Depth,
         frames' = SubSeq(frames, 1, n), VariablesGo(LocalBase(n + 1)),
         opened' \subseteq opened
  PROVE  LiveInv'
  <1>1. frames \in Seq(Kinds) /\ n \in 0 .. Len(frames) /\ n \in Nat
    BY StackTypes
  <1>2. LocalBase(n + 1) \in Nat
    BY <1>1, BaseAbove
  <1>3. ASSUME NEW r \in opened' \ orphans' PROVE Live(frames', r)
    <2>1. Live(frames, r) /\ r < LocalBase(n + 1)
      BY <1>2, <1>3, StillLive
    <2> QED
      BY <1>1, <2>1, LiveCut
  <1> QED
    BY <1>3 DEF LiveInv

(* An error that closes the upvalues leaves none of an existing variable. *)
LEMMA NoneLive ==
  ASSUME StackInv, UpvalueInv, UpvalueInv', LiveInv,
         NEW idx \in Nat, VariablesGo(idx), closeAllUpvalues
  PROVE  opened' = orphans'
  <1>1. opened' \subseteq opened /\ \A r \in opened' : r < LowestLocalBase
    BY DEF closeAllUpvalues, closeUpvalues, OpenBelow
  <1>2. ASSUME NEW r \in opened' \ orphans' PROVE FALSE
    <2>1. Live(frames, r)
      BY <1>1, <1>2, StillLive
    <2>2. PICK n \in 1 .. Len(frames) : frames[n] = "lua" /\ r \in Window(n)
      BY <2>1 DEF Live
    <2>3. n \in Nat \ {0} /\ n \in 1 .. Depth
      BY StackTypes
    <2>4. r \in Nat /\ LocalBase(n) \in Nat /\ LocalBase(n) <= r
      BY <2>2, <2>3, Windows
    <2>5. LowestLocalBase \in Nat /\ LowestLocalBase <= LocalBase(n)
      BY <2>2, <2>3, LowestFacts
    <2> QED
      BY <1>1, <2>4, <2>5
  <1>3. orphans' \subseteq opened'
    BY DEF UpvalueInv, UpvalueTypeOK
  <1> QED
    BY <1>2, <1>3

KeptInv == LiveInv /\ KeptForErrorFunc

LEMMA RaiseKept ==
  ASSUME StackInv, UpvalueInv, UpvalueInv', KeptInv, NEW flag, NEW panic, Raise(flag, panic),
         frames' = frames, flag => ErrorFuncWaits'
  PROVE  KeptInv'
  <1>1. CASE flag
    <2>1. UNCHANGED <<opened, orphans, frames>>
      BY <1>1 DEF Raise, upvalueVars
    <2> QED
      BY <1>1, <2>1 DEF KeptInv, LiveInv, KeptForErrorFunc
  <1>2. CASE ~flag
    <2>1. closeAllUpvalues /\ VariablesGo(LocalBase(Depth + 1))
      BY <1>2 DEF Raise
    <2>2. LocalBase(Depth + 1) \in Nat /\ opened' \subseteq opened
      BY <2>1, BaseAbove, StackTypes DEF closeAllUpvalues, closeUpvalues, OpenBelow
    <2>3. opened' = orphans'
      BY <2>1, <2>2, NoneLive DEF KeptInv
    <2>4. LiveInv'
      BY <2>3 DEF LiveInv
    <2> QED
      BY <2>3, <2>4 DEF KeptInv, KeptForErrorFunc
  <1> QED
    BY <1>1, <1>2

(* No error travels after the step. *)
LEMMA QuietKept ==
  ASSUME LiveInv', raising' \notin {"error", "overflow"}
  PROVE  KeptInv'
  BY DEF KeptInv, KeptForErrorFunc

LEMMA PushKept ==
  ASSUME StackInv, UpvalueInv, UpvalueInv', KeptInv, raising = "none",
         NEW kind \in {"lua", "go"}, NEW flag, PushCallFrame(kind, flag),
         flag => ErrorFuncWaits'
  PROVE  KeptInv'
  <1>1. CASE IsFull
    BY <1>1, RaiseKept DEF PushCallFrame
  <1>2. CASE ~IsFull
    <2>1. /\ frames' = Append(frames, kind) /\ UNCHANGED <<opened, orphans>>
          /\ raising' = "none" /\ kind \in Kinds
      BY <1>2 DEF PushCallFrame, upvalueVars, Kinds
    <2>2. LiveInv'
      BY <2>1, PushLive DEF KeptInv
    <2> QED
      BY <2>1, <2>2, QuietKept
  <1> QED
    BY <1>1, <1>2

LEMMA TailCallGoKept ==
  ASSUME StackInv, UpvalueInv, UpvalueInv', KeptInv, TailCallGo
  PROVE  KeptInv'
  <1>1. InCall /\ VariablesGo(LocalBase(Depth)) /\ UNCHANGED <<pcalls, hasErrorFunc>>
    BY DEF TailCallGo, InLua
  <1>2. Depth \in Nat \ {0} /\ raising = "none"
    BY <1>1, CodeFacts, StackTypes
  <1>3. LocalBase(Depth) \in Nat
    BY <1>2, Windows
  <1>4. CASE IsFull /\ hasErrorFunc
    <2>1. frames' = frames /\ closeUpvalues(LocalBase(Depth))
      BY <1>4 DEF TailCallGo
    <2>2. opened' \subseteq opened
      BY <2>1 DEF closeUpvalues, OpenBelow
    <2>3. LiveInv'
      BY <1>1, <1>3, <2>1, <2>2, SameLive DEF KeptInv
    <2>4. ErrorFuncWaits'
      BY <1>1, <1>4 DEF StackInv, ErrorFuncExpected, ErrorFuncWaits
    <2> QED
      BY <2>3, <2>4 DEF KeptInv, KeptForErrorFunc
  <1>5. CASE IsFull /\ ~hasErrorFunc
    <2>1. closeAllUpvalues
      BY <1>5 DEF TailCallGo, closeAllUpvalues
    <2>2. opened' = orphans'
      BY <1>1, <1>3, <2>1, NoneLive DEF KeptInv
    <2>3. LiveInv'
      BY <2>2 DEF LiveInv
    <2> QED
      BY <2>2, <2>3 DEF KeptInv, KeptForErrorFunc
  <1>6. CASE ~IsFull
    <2>1. /\ closeUpvalues(LocalBase(Depth)) /\ frames' = Append(frames, "gotail")
          /\ raising' = "none"
      BY <1>2, <1>6 DEF TailCallGo
    <2>2. opened' \subseteq opened /\ frames \in Seq(Kinds) /\ "gotail" \in Kinds
      BY <2>1, StackTypes DEF closeUpvalues, OpenBelow, Kinds
    <2>3. ASSUME NEW r \in opened' \ orphans' PROVE Live(frames', r)
      <3>1. Live(frames, r)
        BY <1>1, <1>3, <2>2, <2>3, StillLive DEF KeptInv
      <3>2. Live(Append(frames, "gotail"), r)
        BY <2>2, <3>1, LivePushed
      <3> QED
        BY <2>1, <3>2
    <2>4. LiveInv'
      BY <2>3 DEF LiveInv
    <2> QED
      BY <2>1, <2>4, QuietKept
  <1> QED
    BY <1>4, <1>5, <1>6

LEMMA ReturnKept ==
  ASSUME StackInv, UpvalueInv, KeptInv, Return
  PROVE  KeptInv'
  <1>1. InCall /\ raising' = "none" /\ opened' \subseteq opened
    BY CodeFacts DEF Return, closeUpvalues, OpenBelow
  <1>2. PICK n \in 0 .. Depth - 1 :
          /\ n = IF DepthAfterReturn = Current.base THEN Current.sp ELSE DepthAfterReturn
          /\ VariablesGo(LocalBase(n + 1))
    BY ReturnRegisters
  <1>3. n \in 0 .. Depth
    BY <1>1, <1>2, CodeFacts
  <1>4. frames' = SubSeq(frames, 1, n)
    BY <1>2 DEF Return, EndPCall
  <1>5. LiveInv'
    BY <1>1, <1>2, <1>3, <1>4, CutLive DEF KeptInv
  <1> QED
    BY <1>1, <1>5, QuietKept

LEMMA CaptureKept ==
  ASSUME StackInv, KeptInv, Capture
  PROVE  KeptInv'
  <1>1. PICK idx \in Window(Depth) : findUpvalue(idx)
    BY DEF Capture
  <1>2. InCall /\ frames[Depth] = "lua"
    BY DEF Capture, InLua
  <1>3. frames' = frames /\ raising' = raising /\ orphans' = orphans /\ opened' = opened \cup {idx}
    BY <1>1 DEF Capture, stackVars, findUpvalue
  <1>4. Depth \in 1 .. Len(frames) /\ raising = "none"
    BY <1>2, CodeFacts, StackTypes
  <1>5. Live(frames, idx)
    BY <1>2, <1>4 DEF Live
  <1>6. LiveInv'
    BY <1>3, <1>5 DEF KeptInv, LiveInv
  <1> QED
    BY <1>3, <1>4, <1>6, QuietKept

LEMMA RecoverKept ==
  ASSUME StackInv, UpvalueInv, UpvalueInv', KeptInv, Recover
  PROVE  KeptInv'
  <1>1. /\ pcalls # << >> /\ Current.sp \in 0 .. Depth
    BY StackTypes DEF Recover
  <1>2. CASE Unwind \/ HandlerOverflow
    <2>1. /\ frames' = SubSeq(frames, 1, Current.sp) /\ VariablesGo(LocalBase(Current.sp + 1))
          /\ raising' = "none" /\ opened' \subseteq opened
      BY <1>2 DEF Unwind, HandlerOverflow, EndPCall, closeAllUpvalues, closeUpvalues, OpenBelow
    <2>2. LiveInv'
      BY <1>1, <2>1, CutLive DEF KeptInv
    <2> QED
      BY <2>1, <2>2, QuietKept
  <1>3. CASE RunHandler
    <2>1. PICK kind \in {"lua", "go"} : frames' = Append(frames, kind)
      BY <1>3 DEF RunHandler
    <2>2. kind \in Kinds /\ UNCHANGED <<opened, orphans>> /\ raising' = "none"
      BY <1>3 DEF RunHandler, upvalueVars, Kinds
    <2>3. LiveInv'
      BY <2>1, <2>2, PushLive DEF KeptInv
    <2> QED
      BY <2>2, <2>3, QuietKept
  <1>4. CASE HandlerDoesNotFit
    <2>1. Raise(FALSE, "overflow") /\ frames' = frames
      BY <1>4 DEF HandlerDoesNotFit
    <2> QED
      BY <2>1, RaiseKept
  <1> QED
    BY <1>2, <1>3, <1>4 DEF Recover

LEMMA InitKept == Init => KeptInv
  <1> SUFFICES ASSUME Init PROVE KeptInv
    OBVIOUS
  <1>1. opened = {} /\ raising = "none"
    BY DEF Init
  <1> QED
    BY <1>1 DEF KeptInv, LiveInv, KeptForErrorFunc

LEMMA NextKept ==
  StackInv /\ StackInv' /\ UpvalueInv /\ UpvalueInv' /\ KeptInv /\ [Next]_vars => KeptInv'
  <1> SUFFICES ASSUME StackInv, StackInv', UpvalueInv, UpvalueInv', KeptInv, [Next]_vars
               PROVE  KeptInv'
    OBVIOUS
  <1>1. hasErrorFunc' => ErrorFuncWaits'
    BY DEF StackInv, ErrorFuncExpected
  <1>2. CASE RaiseError
    <2>1. PICK panic : Raise(hasErrorFunc, panic)
      BY <1>2 DEF RaiseError
    <2>2. frames' = frames /\ hasErrorFunc' = hasErrorFunc
      BY <1>2 DEF RaiseError
    <2> QED
      BY <1>1, <2>1, <2>2, RaiseKept
  <1>3. CASE GoPanic
    <2>1. raising' = "gopanic" /\ UNCHANGED <<frames, opened, orphans>>
      BY <1>3 DEF GoPanic, upvalueVars
    <2>2. LiveInv'
      BY <2>1 DEF KeptInv, LiveInv
    <2> QED
      BY <2>1, <2>2, QuietKept
  <1>4. CASE Call
    <2>1. PICK kind \in {"lua", "go"} : PushCallFrame(kind, hasErrorFunc)
      BY <1>4 DEF Call
    <2>2. raising = "none" /\ hasErrorFunc' = hasErrorFunc
      BY <1>4, CodeFacts DEF Call
    <2> QED
      BY <1>1, <2>1, <2>2, PushKept
  <1>5. CASE ProtectedCall
    <2>1. PICK e \in BOOLEAN, kind \in {"lua", "go"} : PCall(e, kind)
      BY <1>5 DEF ProtectedCall
    <2>2. PushCallFrame(kind, hasErrorFunc') /\ raising = "none"
      BY <1>5, <2>1 DEF PCall, ProtectedCall, InGo, InCall
    <2>3. PICK flag : flag = hasErrorFunc' /\ PushCallFrame(kind, flag)
      BY <2>2
    <2> QED
      BY <1>1, <2>2, <2>3, PushKept
  <1>6. CASE TailCall \/ EndBlock
    <2>1. PICK idx \in Nat : closeUpvalues(idx) /\ VariablesGo(idx)
      <3>1. InCall
        BY <1>6 DEF TailCall, EndBlock, InLua
      <3>2. Depth \in Nat \ {0}
        BY <3>1, CodeFacts, StackTypes
      <3> QED
        BY <1>6, <3>2, Windows DEF TailCall, EndBlock
    <2>2. frames' = frames /\ raising' = "none"
      BY <1>6, CodeFacts DEF TailCall, EndBlock, InLua, stackVars
    <2>3. opened' \subseteq opened
      BY <2>1 DEF closeUpvalues, OpenBelow
    <2>4. LiveInv'
      BY <2>1, <2>2, <2>3, SameLive DEF KeptInv
    <2> QED
      BY <2>2, <2>4, QuietKept
  <1>7. CASE TailCallGo
    BY <1>7, TailCallGoKept
  <1>8. CASE Return
    BY <1>8, ReturnKept
  <1>9. CASE Capture
    BY <1>9, CaptureKept
  <1>10. CASE Recover
    BY <1>10, RecoverKept
  <1>11. CASE UNCHANGED vars
    BY <1>11 DEF vars, KeptInv, LiveInv, KeptForErrorFunc, ErrorFuncWaits
  <1> QED
    BY <1>2, <1>3, <1>4, <1>5, <1>6, <1>7, <1>8, <1>9, <1>10, <1>11 DEF Next

(* An error that is thrown leaves upvalues of existing variables open only if
   a PCall with an error function is running its body, and no error function
   runs above that. *)
THEOREM CallsKeptForErrorFunc == Spec => []KeptForErrorFunc
  <1>1. /\ StackInv /\ UpvalueInv /\ (StackInv /\ UpvalueInv)' /\ KeptInv /\ [Next]_vars
        => KeptInv'
    BY NextKept
  <1>2. KeptInv => KeptForErrorFunc
    BY DEF KeptInv
  <1> QED
    BY <1>1, <1>2, InitKept, UpvalueInvariant, PTL DEF Spec
=============================================================================
