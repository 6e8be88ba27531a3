--------------------------- MODULE CallFrameStack ---------------------------
(***************************************************************************)
(* What the rest of the interpreter relies on when it uses a               *)
(* callFrameStack (state.go): a bounded stack of call frames.  A frame is  *)
(* abstracted to the function it runs.  The two implementations,           *)
(* FixedCallFrameStack and AutoGrowingCallFrameStack, are compared with    *)
(* this module.                                                            *)
(***************************************************************************)
EXTENDS Naturals, Sequences

CONSTANTS
  Fn,        \* the functions a frame may run
  Capacity   \* how many frames the stack can hold

VARIABLE frames   \* the live frames, oldest first

Init == frames = << >>

(* A call, refused when the stack is full. *)
Push(f) ==
  /\ Len(frames) < Capacity
  /\ frames' = Append(frames, f)

(* A return. *)
Pop ==
  /\ frames # << >>
  /\ frames' = SubSeq(frames, 1, Len(frames) - 1)

(* Unwinding to a depth remembered earlier, or closing the stack (sp = 0). *)
SetSp(sp) ==
  /\ sp <= Len(frames)
  /\ frames' = SubSeq(frames, 1, sp)

(* A tail call: the callee's frame takes the place of its caller's. *)
RemoveCallerFrame ==
  /\ Len(frames) >= 2
  /\ frames' = Append(SubSeq(frames, 1, Len(frames) - 2), frames[Len(frames)])

Next ==
  \/ \E f \in Fn : Push(f)
  \/ Pop
  \/ \E sp \in 0 .. Capacity : SetSp(sp)
  \/ RemoveCallerFrame

Spec == Init /\ [][Next]_frames
=============================================================================
