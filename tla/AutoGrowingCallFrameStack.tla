---------------------- MODULE AutoGrowingCallFrameStack ----------------------
(***************************************************************************)
(* autoGrowingCallFrameStack (state.go), the stack of a state created with *)
(* MinimizeStackMemory: segments of FramesPerSegment frames, taken from a  *)
(* pool when they are needed and given back when the stack shrinks.        *)
(* A depth that is a multiple of FramesPerSegment has two representations: *)
(* the last segment exactly full, after a push, or the next segment        *)
(* allocated and empty, after a pop.                                       *)
(***************************************************************************)
EXTENDS Integers, Sequences

CONSTANTS
  Fn,                \* the functions a frame may run
  CallStackSize,     \* Options.CallStackSize, the maxSize of the constructor
  FramesPerSegment,  \* frames in a segment (8 in the code)
  Stale,             \* what a slot of a pooled segment holds before it is written
  Nil                \* an entry of segments that points to no segment

(* segSp is a uint8 and counts up to FramesPerSegment; segIdx is a uint16. *)
ASSUME SizeAssumption ==
  /\ CallStackSize \in Nat \ {0}
  /\ FramesPerSegment \in 1 .. 255
  /\ CallStackSize <= FramesPerSegment * 65536

Frame == [fn : Fn, idx : Nat, parent : Int]
SegmentSlots == 0 .. FramesPerSegment - 1
Segment == [SegmentSlots -> Frame \cup {Stale}]

ASSUME NilAssumption == Nil \notin Segment

VARIABLES
  segments, \* the segments, Nil where none is allocated
  segIdx,   \* the current segment
  segSp,    \* frames used in the current segment
  outcome   \* how the last operation ended: "ok", "overflow" (the Lua error
            \* "stack overflow"), "panic" (a Go panic) or "freed" (FreeAll)

vars == <<segments, segIdx, segSp, outcome>>

NumSegments == (CallStackSize + FramesPerSegment - 1) \div FramesPerSegment
LastSegment == NumSegments - 1

TypeOK ==
  /\ segments \in [0 .. LastSegment -> Segment \cup {Nil}]
  /\ segIdx \in 0 .. LastSegment
  /\ segSp \in 0 .. FramesPerSegment
  /\ outcome \in {"ok", "overflow", "panic", "freed"}

(* A segment taken from the pool keeps the frames of its previous user. *)
NewSegment == [s \in SegmentSlots |-> Stale]

Sp == segSp + segIdx * FramesPerSegment
At(n) == segments[n \div FramesPerSegment][n % FramesPerSegment]

IsEmpty == segIdx = 0 /\ segSp = 0
IsFull == segIdx = NumSegments /\ segSp >= FramesPerSegment

(* The definitions whose names begin with "Mutant" are each a later one with
   a plausible bug; they show that the properties notice. *)

(* The frame Last returns, when the stack is not empty. *)
Last ==
  IF segSp = 0
  THEN segments[segIdx - 1][FramesPerSegment - 1]
  ELSE segments[segIdx][segSp - 1]

InUse == outcome # "freed"

Init ==
  /\ segments = [i \in 0 .. LastSegment |-> IF i = 0 THEN NewSegment ELSE Nil]
  /\ segIdx = 0
  /\ segSp = 0
  /\ outcome = "ok"

(* segments with v stored in slot s of segment i, which is seg beforehand. *)
Store(i, seg, s, v) == [segments EXCEPT ![i] = [seg EXCEPT ![s] = v]]

MutantNewFrame(f) == [fn |-> f, idx |-> segSp, parent |-> Sp - 1]
NewFrame(f) == [fn |-> f, idx |-> Sp, parent |-> Sp - 1]

(* Push: into the current segment, into a new one when that is full, or a
   panic when there is none left. *)
PushInSegment(f) ==
  /\ segSp < FramesPerSegment
  /\ segments' = Store(segIdx, segments[segIdx], segSp, NewFrame(f))
  /\ segSp' = segSp + 1
  /\ outcome' = "ok"
  /\ UNCHANGED segIdx

PushNewSegment(f) ==
  /\ segSp >= FramesPerSegment
  /\ segIdx < LastSegment
  /\ segments' = Store(segIdx + 1, NewSegment, 0, NewFrame(f))
  /\ segIdx' = segIdx + 1
  /\ segSp' = 1
  /\ outcome' = "ok"

PushPanic ==
  /\ segSp >= FramesPerSegment
  /\ segIdx >= LastSegment
  /\ outcome' = "panic"
  /\ UNCHANGED <<segments, segIdx, segSp>>

Push(f) == PushInSegment(f) \/ PushNewSegment(f) \/ PushPanic

(* pushCallFrame asks IsFull first and raises "stack overflow". *)
PushCallFrame(f) ==
  /\ InUse
  /\ IF IsFull
     THEN outcome' = "overflow" /\ UNCHANGED <<segments, segIdx, segSp>>
     ELSE Push(f)

MutantPopLeaks ==
  IF segSp = 0
  THEN segIdx' = segIdx - 1 /\ segSp' = FramesPerSegment - 1 /\ UNCHANGED segments
  ELSE segSp' = segSp - 1 /\ UNCHANGED <<segments, segIdx>>

MutantPopBoundary ==
  IF segSp = 0
  THEN /\ segments' = [segments EXCEPT ![segIdx] = Nil]
       /\ segIdx' = segIdx - 1
       /\ UNCHANGED segSp
  ELSE segSp' = segSp - 1 /\ UNCHANGED <<segments, segIdx>>

(* Popping the first frame of a segment leaves the segment allocated; the
   pop after that frees it. *)
PopFrame ==
  IF segSp = 0
  THEN /\ segments' = [segments EXCEPT ![segIdx] = Nil]
       /\ segIdx' = segIdx - 1
       /\ segSp' = FramesPerSegment - 1
  ELSE segSp' = segSp - 1 /\ UNCHANGED <<segments, segIdx>>

Pop ==
  /\ InUse
  /\ ~IsEmpty
  /\ PopFrame
  /\ outcome' = "ok"

(* The segments above the one that depth n falls in are freed. *)
SetSp(n) ==
  LET desired == n \div FramesPerSegment
  IN  /\ InUse
      /\ n <= Sp
      /\ segments' = [i \in 0 .. LastSegment |->
                        IF desired < i /\ i <= segIdx THEN Nil ELSE segments[i]]
      /\ segIdx' = IF segIdx <= desired THEN segIdx ELSE desired
      /\ segSp' = n % FramesPerSegment
      /\ outcome' = "ok"

(* RemoveCallerFrame copies the current frame over its caller's, which keeps
   its own parent and index, and pops. *)
CopyOverCaller ==
  LET n == Sp - 2
  IN  Store(n \div FramesPerSegment, segments[n \div FramesPerSegment],
            n % FramesPerSegment,
            [fn |-> At(Sp - 1).fn, idx |-> n, parent |-> At(n).parent])

MutantRemoveKeepsTop ==
  /\ InUse
  /\ Sp >= 2
  /\ segments' = CopyOverCaller
  /\ outcome' = "ok"
  /\ UNCHANGED <<segIdx, segSp>>

RemoveCallerFrame ==
  /\ InUse
  /\ Sp >= 2
  /\ IF segSp = 0
     THEN /\ segments' = [CopyOverCaller EXCEPT ![segIdx] = Nil]
          /\ segIdx' = segIdx - 1
          /\ segSp' = FramesPerSegment - 1
     ELSE segments' = CopyOverCaller /\ segSp' = segSp - 1 /\ UNCHANGED segIdx
  /\ outcome' = "ok"

(* LState.Close: the stack is not used again. *)
FreeAll ==
  /\ InUse
  /\ segments' = [i \in 0 .. LastSegment |-> IF i <= segIdx THEN Nil ELSE segments[i]]
  /\ outcome' = "freed"
  /\ UNCHANGED <<segIdx, segSp>>

Unwind == \E n \in 0 .. NumSegments * FramesPerSegment : SetSp(n)

Next ==
  \/ \E f \in Fn : PushCallFrame(f)
  \/ Pop
  \/ Unwind
  \/ RemoveCallerFrame
  \/ FreeAll

Spec == Init /\ [][Next]_vars

-----------------------------------------------------------------------------
(* The segments in use are exactly those up to the current one, and none
   after FreeAll: no frame is read through a nil segment and no segment
   leaks from the pool, whatever representation a boundary depth has. *)
SegmentsAllocated ==
  \A i \in 0 .. LastSegment : segments[i] # Nil <=> (i <= segIdx /\ InUse)

(* Idx and Parent of every live frame agree with its depth, and no live slot
   is one that a pooled segment brought along. *)
FramesLinked ==
  InUse => \A n \in 0 .. Sp - 1 : At(n) \in [fn : Fn, idx : {n}, parent : {n - 1}]

(* Last, which reads the representation, and At, which reads the depth, name
   the same frame: PCall sets currentFrame from one and tail calls use the
   other. *)
LastIsTopFrame == InUse /\ ~IsEmpty => Last = At(Sp - 1)

(* state.go's "it panics if the stack is full, caller should call IsFull()
   before invoking this to avoid this", and pushCallFrame does call it. *)
OverflowIsLuaError == outcome # "panic"

-----------------------------------------------------------------------------
(* The stack the interpreter sees. *)
frames == IF InUse THEN [n \in 1 .. Sp |-> At(n - 1).fn] ELSE << >>

Abstract == INSTANCE CallFrameStack
              WITH Capacity <- NumSegments * FramesPerSegment

(* SetSp to the present depth while the last segment is exactly full: what a
   recovered PCall does when the call failed before its frame was pushed. *)
DropsSegment(n) == n = Sp /\ segSp = FramesPerSegment

(* An unwinding keeps every frame below the depth it unwinds to. *)
UnwindKeepsFrames ==
  [][\A n \in 0 .. NumSegments * FramesPerSegment :
       SetSp(n) => frames' = SubSeq(frames, 1, n)]_vars

(* The specification without the unwindings of DropsSegment. *)
NextPopped ==
  \/ \E f \in Fn : PushCallFrame(f)
  \/ Pop
  \/ \E n \in 0 .. NumSegments * FramesPerSegment : ~DropsSegment(n) /\ SetSp(n)
  \/ RemoveCallerFrame
  \/ FreeAll

SpecPopped == Init /\ [][NextPopped]_vars

(* But for those unwindings the segmented stack is a bounded stack of
   frames, like the fixed one. *)
IsCallFrameStack == Abstract!Spec

(* Each operation but those unwindings does what the one of its name does to
   the stack, across segment boundaries as within a segment. *)
StepMatches ==
  /\ \A f \in Fn : PushCallFrame(f) =>
       Abstract!Push(f) \/ (outcome' \in {"overflow", "panic"} /\ UNCHANGED frames)
  /\ Pop => Abstract!Pop
  /\ \A n \in 0 .. NumSegments * FramesPerSegment :
       SetSp(n) => DropsSegment(n) \/ Abstract!SetSp(n)
  /\ RemoveCallerFrame => Abstract!RemoveCallerFrame
  /\ FreeAll => Abstract!SetSp(0)

OperationsMatch == [][StepMatches]_vars
=============================================================================
