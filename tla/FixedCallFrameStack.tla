------------------------- MODULE FixedCallFrameStack -------------------------
(***************************************************************************)
(* fixedCallFrameStack (state.go): one array of callFrames and the index   *)
(* of the next free slot.  The actions are the uses the interpreter makes  *)
(* of the stack: pushCallFrame, the Pop of a return, the SetSp of a        *)
(* recovered PCall, the RemoveCallerFrame of a tail call.                  *)
(***************************************************************************)
EXTENDS Integers, Sequences

CONSTANTS
  Fn,            \* the functions a frame may run
  CallStackSize, \* Options.CallStackSize
  Stale          \* what a slot no frame was ever pushed to holds

ASSUME SizeAssumption == CallStackSize \in Nat \ {0}

VARIABLES
  array,    \* the callFrames
  sp,       \* the next free slot, and so the depth
  outcome   \* how the last operation ended: "ok", "overflow" (the Lua error
            \* "stack overflow") or "panic" (a Go runtime panic)

vars == <<array, sp, outcome>>

Slots == 0 .. CallStackSize - 1

(* The fields of callFrame that the stack itself maintains or copies.
   Parent is a pointer to the slot of the calling frame. *)
Frame == [fn : Fn, idx : Nat, parent : Int]

TypeOK ==
  /\ array \in [Slots -> Frame \cup {Stale}]
  /\ sp \in 0 .. CallStackSize
  /\ outcome \in {"ok", "overflow", "panic"}

(* The definitions whose names begin with "Mutant" are each the one that
   follows them with a plausible bug; they show that the properties notice. *)
MutantIsFull == sp > CallStackSize

IsEmpty == sp = 0
IsFull == sp = CallStackSize
At(n) == array[n]

Init ==
  /\ array = [s \in Slots |-> Stale]
  /\ sp = 0
  /\ outcome = "ok"

(* The store of a frame at slot sp; beyond the array it is a Go panic. *)
PushSlot(f) ==
  IF sp \in Slots
  THEN /\ array' = [array EXCEPT ![sp] = [fn |-> f, idx |-> sp, parent |-> sp - 1]]
       /\ sp' = sp + 1
       /\ outcome' = "ok"
  ELSE outcome' = "panic" /\ UNCHANGED <<array, sp>>

(* pushCallFrame: the caller's frame is the last one of the stack, which is
   what ls.currentFrame points to. *)
PushCallFrame(f) ==
  IF IsFull
  THEN outcome' = "overflow" /\ UNCHANGED <<array, sp>>
  ELSE PushSlot(f)

Pop ==
  /\ ~IsEmpty
  /\ sp' = sp - 1
  /\ outcome' = "ok"
  /\ UNCHANGED array

SetSp(n) ==
  /\ n <= sp
  /\ sp' = n
  /\ outcome' = "ok"
  /\ UNCHANGED array

MutantRemoveKeepsIdx ==
  /\ sp >= 2
  /\ array' = [array EXCEPT ![sp - 2] =
                 [fn |-> At(sp - 1).fn, idx |-> sp - 1, parent |-> At(sp - 2).parent]]
  /\ sp' = sp - 1
  /\ outcome' = "ok"

MutantRemoveCallee ==
  /\ sp >= 2
  /\ sp' = sp - 1
  /\ outcome' = "ok"
  /\ UNCHANGED array

(* The current frame is copied over its caller's, which keeps its own parent
   and index, and the top slot is popped. *)
RemoveCallerFrame ==
  /\ sp >= 2
  /\ array' = [array EXCEPT ![sp - 2] =
                 [fn |-> At(sp - 1).fn, idx |-> sp - 2, parent |-> At(sp - 2).parent]]
  /\ sp' = sp - 1
  /\ outcome' = "ok"

Next ==
  \/ \E f \in Fn : PushCallFrame(f)
  \/ Pop
  \/ \E n \in 0 .. CallStackSize : SetSp(n)
  \/ RemoveCallerFrame

Spec == Init /\ [][Next]_vars

-----------------------------------------------------------------------------
(* A frame's Idx is its depth and its Parent is the frame below it: debug
   lookups (findLocal), upvalue closing and error unwinding walk the stack
   through them, so they must agree with the slots however calls, returns,
   unwindings and tail calls are interleaved. *)
FramesLinked ==
  \A n \in 0 .. sp - 1 : At(n) \in [fn : Fn, idx : {n}, parent : {n - 1}]

(* A call that finds no room for its frame ends in the Lua error
   "stack overflow" that pushCallFrame raises, never in a Go panic. *)
OverflowIsLuaError == outcome # "panic"

(* The stack the interpreter sees. *)
frames == [n \in 1 .. sp |-> At(n - 1).fn]

Abstract == INSTANCE CallFrameStack WITH Capacity <- CallStackSize

(* The fixed stack is a bounded stack of frames: every operation, in every
   order, does to the live frames what CallFrameStack says. *)
IsCallFrameStack == Abstract!Spec

(* Each operation does what the one of its name does to the stack: a tail
   call in particular replaces its caller's frame and disturbs no other. *)
StepMatches ==
  /\ \A f \in Fn : PushCallFrame(f) =>
       Abstract!Push(f) \/ (outcome' = "overflow" /\ UNCHANGED frames)
  /\ Pop => Abstract!Pop
  /\ \A n \in 0 .. CallStackSize : SetSp(n) => Abstract!SetSp(n)
  /\ RemoveCallerFrame => Abstract!RemoveCallerFrame

OperationsMatch == [][StepMatches]_vars
=============================================================================
