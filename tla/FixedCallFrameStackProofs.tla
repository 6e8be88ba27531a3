---------------------- MODULE FixedCallFrameStackProofs ----------------------
(***************************************************************************)
(* For every CallStackSize: the fixed stack keeps its frames linked, turns *)
(* every overflow into the Lua error, and implements CallFrameStack.       *)
(***************************************************************************)
EXTENDS FixedCallFrameStack, SequenceTheorems, TLAPS

Inv == TypeOK /\ FramesLinked /\ OverflowIsLuaError

USE SizeAssumption

LEMMA InitInv == Init => Inv
  BY DEF Init, Inv, TypeOK, FramesLinked, OverflowIsLuaError, Slots

LEMMA NextInv == Inv /\ [Next]_vars => Inv'
  <1> SUFFICES ASSUME Inv, [Next]_vars PROVE Inv'
    OBVIOUS
  <1> USE DEF Inv, TypeOK, FramesLinked, OverflowIsLuaError, Slots, At, Frame
  <1>1. ASSUME NEW f \in Fn, PushCallFrame(f) PROVE Inv'
    <2>1. CASE IsFull
      BY <1>1, <2>1 DEF PushCallFrame
    <2>2. CASE ~IsFull
      <3>1. sp \in Slots
        BY <2>2 DEF IsFull
      <3>2. /\ array' = [array EXCEPT ![sp] = [fn |-> f, idx |-> sp, parent |-> sp - 1]]
            /\ sp' = sp + 1
            /\ outcome' = "ok"
        BY <1>1, <2>2, <3>1 DEF PushCallFrame, PushSlot
      <3>3. TypeOK' /\ OverflowIsLuaError'
        BY <3>1, <3>2
      <3>4. FramesLinked'
        BY <3>1, <3>2
      <3> QED
        BY <3>3, <3>4
    <2> QED
      BY <2>1, <2>2
  <1>2. CASE Pop
    BY <1>2 DEF Pop, IsEmpty
  <1>3. ASSUME NEW n \in 0 .. CallStackSize, SetSp(n) PROVE Inv'
    BY <1>3 DEF SetSp
  <1>4. CASE RemoveCallerFrame
    <2>1. /\ sp - 2 \in Slots /\ sp - 1 \in Slots
          /\ array[sp - 1] \in [fn : Fn, idx : {sp - 1}, parent : {sp - 2}]
          /\ array[sp - 2].parent = sp - 3
      BY <1>4 DEF RemoveCallerFrame
    <2>3. /\ array' = [array EXCEPT ![sp - 2] =
                         [fn |-> array[sp - 1].fn, idx |-> sp - 2, parent |-> sp - 3]]
          /\ sp' = sp - 1
          /\ outcome' = "ok"
      BY <1>4, <2>1 DEF RemoveCallerFrame
    <2>4. TypeOK' /\ OverflowIsLuaError'
      BY <2>1, <2>3
    <2>5. FramesLinked'
      BY <2>1, <2>3
    <2> QED
      BY <2>4, <2>5
  <1>5. CASE UNCHANGED vars
    BY <1>5 DEF vars
  <1> QED
    BY <1>1, <1>2, <1>3, <1>4, <1>5 DEF Next

(* Every reachable state of the fixed stack is well typed, its frames are
   linked by depth, and no operation ended in a Go panic. *)
THEOREM FixedInvariant == Spec => []Inv
  BY InitInv, NextInv, PTL DEF Spec

(* Idx and Parent of every live frame agree with its slot. *)
THEOREM FixedFramesLinked == Spec => []FramesLinked
  <1>1. Inv => FramesLinked
    BY DEF Inv
  <1> QED
    BY <1>1, FixedInvariant, PTL

(* The check in pushCallFrame keeps Push off the end of the array. *)
THEOREM FixedOverflowIsLuaError == Spec => []OverflowIsLuaError
  <1>1. Inv => OverflowIsLuaError
    BY DEF Inv
  <1> QED
    BY <1>1, FixedInvariant, PTL

-----------------------------------------------------------------------------
LEMMA FramesSeq ==
  ASSUME TypeOK, FramesLinked
  PROVE  frames \in Seq(Fn) /\ Len(frames) = sp
  <1>1. \A n \in 1 .. sp : array[n - 1].fn \in Fn
    BY DEF FramesLinked, At, TypeOK
  <1> QED
    BY <1>1 DEF frames, At, TypeOK

LEMMA OperationsRefine == Inv /\ Inv' => StepMatches
  <1> SUFFICES ASSUME Inv, Inv' PROVE StepMatches
    OBVIOUS
  <1>a. /\ frames \in Seq(Fn) /\ Len(frames) = sp
        /\ frames' \in Seq(Fn) /\ Len(frames') = sp'
    <2>1. TypeOK /\ FramesLinked /\ TypeOK' /\ FramesLinked'
      BY DEF Inv
    <2>2. frames \in Seq(Fn) /\ Len(frames) = sp
      BY <2>1, FramesSeq
    <2>3. \A n \in 1 .. sp' : array'[n - 1].fn \in Fn
      BY <2>1 DEF FramesLinked, At, TypeOK
    <2>4. frames' = [n \in 1 .. sp' |-> array'[n - 1].fn]
      BY DEF frames, At
    <2>5. sp' \in Nat
      BY <2>1 DEF TypeOK
    <2> QED
      BY <2>2, <2>3, <2>4, <2>5
  <1> USE DEF Inv, TypeOK, Slots
  <1>1. ASSUME NEW f \in Fn, PushCallFrame(f)
        PROVE  Abstract!Push(f) \/ (outcome' = "overflow" /\ UNCHANGED frames)
    <2>1. CASE IsFull
      BY <1>1, <2>1 DEF PushCallFrame, frames, At
    <2>2. CASE ~IsFull
      <3>1. sp \in Slots /\ Len(frames) < CallStackSize
        BY <1>a, <2>2 DEF IsFull
      <3>2. /\ array' = [array EXCEPT ![sp] = [fn |-> f, idx |-> sp, parent |-> sp - 1]]
            /\ sp' = sp + 1
        BY <1>1, <2>2, <3>1 DEF PushCallFrame, PushSlot
      <3>3. frames' = Append(frames, f)
        BY <1>a, <3>1, <3>2 DEF frames, At
      <3>4. Abstract!Push(f)
        BY <3>1, <3>3 DEF Abstract!Push
      <3> QED
        BY <3>4
    <2> QED
      BY <2>1, <2>2
  <1>2. ASSUME Pop PROVE Abstract!Pop
    <2>1. sp # 0 /\ sp' = sp - 1 /\ array' = array
      BY <1>2 DEF Pop, IsEmpty
    <2>2. frames' = SubSeq(frames, 1, Len(frames) - 1)
      BY <1>a, <2>1 DEF frames, At
    <2>3. frames # << >>
      BY <1>a, <2>1
    <2> QED
      BY <2>2, <2>3 DEF Abstract!Pop
  <1>3. ASSUME NEW n \in 0 .. CallStackSize, SetSp(n) PROVE Abstract!SetSp(n)
    <2>1. n <= sp /\ sp' = n /\ array' = array
      BY <1>3 DEF SetSp
    <2>2. frames' = SubSeq(frames, 1, n)
      BY <1>a, <2>1 DEF frames, At
    <2>3. Abstract!SetSp(n)
      BY <1>a, <2>1, <2>2 DEF Abstract!SetSp
    <2> QED
      BY <2>3
  <1>4. ASSUME RemoveCallerFrame PROVE Abstract!RemoveCallerFrame
    <2>1. /\ sp >= 2 /\ sp - 2 \in Slots /\ sp - 1 \in Slots /\ sp' = sp - 1
          /\ array[sp - 1] \in [fn : Fn, idx : {sp - 1}, parent : {sp - 2}]
      BY <1>4 DEF RemoveCallerFrame, FramesLinked, At
    <2>2. array'[sp - 2].fn = array[sp - 1].fn
      BY <1>4, <2>1 DEF RemoveCallerFrame, At
    <2>3. \A n \in Slots \ {sp - 2} : array'[n] = array[n]
      BY <1>4, <2>1 DEF RemoveCallerFrame
    <2>4. \A n \in 1 .. sp - 2 : frames'[n] = frames[n]
      BY <2>1, <2>3 DEF frames, At
    <2>5. frames'[sp - 1] = frames[sp]
      BY <2>1, <2>2 DEF frames, At
    <2>6. frames' = Append(SubSeq(frames, 1, sp - 2), frames[sp])
      BY <1>a, <2>1, <2>4, <2>5
    <2>7. Abstract!RemoveCallerFrame
      BY <1>a, <2>1, <2>6 DEF Abstract!RemoveCallerFrame
    <2> QED
      BY <2>7
  <1> QED
    BY <1>1, <1>2, <1>3, <1>4 DEF StepMatches

LEMMA StepRefines == Inv /\ Inv' /\ [Next]_vars => [Abstract!Next]_frames
  <1> SUFFICES ASSUME Inv, Inv', [Next]_vars PROVE [Abstract!Next]_frames
    OBVIOUS
  <1>1. CASE Next
    BY <1>1, OperationsRefine DEF Next, StepMatches, Abstract!Next
  <1>2. CASE UNCHANGED vars
    BY <1>2 DEF vars, frames, At
  <1> QED
    BY <1>1, <1>2

(* Every operation does to the frames what the bounded stack's does. *)
THEOREM FixedOperationsMatch == Spec => OperationsMatch
  <1>1. Spec => []Inv
    BY FixedInvariant
  <1> QED
    BY <1>1, OperationsRefine, PTL DEF OperationsMatch

(* The fixed stack implements CallFrameStack: every step does to the live
   frames what the abstract stack allows. *)
THEOREM FixedImplements == Spec => IsCallFrameStack
  <1>1. Init => Abstract!Init
    BY DEF Init, Abstract!Init, frames
  <1>2. Spec => []Inv
    BY FixedInvariant
  <1> QED
    BY <1>1, <1>2, StepRefines, PTL DEF Spec, IsCallFrameStack, Abstract!Spec
=============================================================================
