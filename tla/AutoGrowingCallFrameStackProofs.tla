-------------------- MODULE AutoGrowingCallFrameStackProofs --------------------
(***************************************************************************)
(* For every stack size and every segment size: the segmented stack        *)
(* allocates exactly the segments it uses and keeps its frames linked,     *)
(* under every unwinding; and it implements CallFrameStack when no         *)
(* unwinding is a DropsSegment one.                                        *)
(***************************************************************************)
EXTENDS AutoGrowingCallFrameStack, SequenceTheorems, TLAPS

(* Depth n is slot s of segment i. *)
Depth(i, s) == s + i * FramesPerSegment

(* Slot s of segment i holds a live frame. *)
Live(i, s) == i < segIdx \/ (i = segIdx /\ s < segSp)

(* FramesLinked by segment and slot instead of by depth: the form that a
   step preserves, because steps work on segments. *)
SlotsLinked ==
  \A i \in 0 .. LastSegment, s \in SegmentSlots :
    Live(i, s) => segments[i][s] \in
                    [fn : Fn, idx : {Depth(i, s)}, parent : {Depth(i, s) - 1}]

IInv ==
  /\ TypeOK
  /\ SegmentsAllocated
  /\ InUse => SlotsLinked

-----------------------------------------------------------------------------
(* Arithmetic of depths. *)

LEMMA Sizes ==
  /\ FramesPerSegment \in Nat \ {0}
  /\ NumSegments \in Nat \ {0}
  /\ LastSegment \in Nat
  <1>1. FramesPerSegment \in Nat \ {0} /\ CallStackSize \in Nat \ {0}
    BY SizeAssumption
  <1>2. ASSUME NEW a \in Nat, NEW b \in Nat \ {0}, a >= b
        PROVE  a \div b \in Nat \ {0}
    BY <1>2, SMTT(30)
  <1>3. NumSegments \in Nat \ {0}
    BY <1>1, <1>2 DEF NumSegments
  <1> QED
    BY <1>1, <1>3 DEF LastSegment

LEMMA DepthDivMod ==
  ASSUME NEW i \in Nat, NEW s \in SegmentSlots
  PROVE  /\ Depth(i, s) \in Nat
         /\ Depth(i, s) \div FramesPerSegment = i
         /\ Depth(i, s) % FramesPerSegment = s
  <1>1. ASSUME NEW F \in Nat \ {0}, NEW r \in 0 .. F - 1
        PROVE  r + i * F \in Nat /\ (r + i * F) \div F = i /\ (r + i * F) % F = r
    BY <1>1, SMTT(30)
  <1> QED
    BY <1>1, Sizes DEF Depth, SegmentSlots

LEMMA DepthOf ==
  ASSUME NEW n \in Nat
  PROVE  /\ n \div FramesPerSegment \in Nat
         /\ n % FramesPerSegment \in SegmentSlots
         /\ n = Depth(n \div FramesPerSegment, n % FramesPerSegment)
  <1>1. ASSUME NEW F \in Nat \ {0}
        PROVE  n \div F \in Nat /\ n % F \in 0 .. F - 1 /\ n = (n % F) + ((n \div F) * F)
    BY <1>1, SMTT(30)
  <1> QED
    BY <1>1, Sizes DEF Depth, SegmentSlots

LEMMA Segmentwise ==
  ASSUME NEW F \in Nat \ {0}, NEW i \in Nat, NEW j \in Nat, i < j
  PROVE  i * F + F <= j * F
  <1>1. j = i + 1 + (j - i - 1) /\ j - i - 1 \in Nat
    OBVIOUS
  <1>2. ASSUME NEW d \in Nat PROVE (i + 1 + d) * F = i * F + F + d * F /\ d * F \in Nat
    BY SMTT(30)
  <1>3. i * F \in Nat /\ j * F \in Nat
    OBVIOUS
  <1> QED
    BY <1>1, <1>2, <1>3

(* A slot is live exactly when its depth is below Sp. *)
LEMMA LiveBelowSp ==
  ASSUME TypeOK, NEW i \in Nat, NEW s \in SegmentSlots
  PROVE  /\ Sp \in Nat
         /\ Live(i, s) <=> Depth(i, s) < Sp
  <1>1. /\ segIdx \in Nat /\ segSp \in Nat /\ segSp <= FramesPerSegment
        /\ FramesPerSegment \in Nat \ {0} /\ s \in Nat /\ s < FramesPerSegment
    BY Sizes DEF TypeOK, SegmentSlots
  <1>2. /\ segIdx * FramesPerSegment \in Nat
        /\ i * FramesPerSegment \in Nat
    BY <1>1
  <1>3. CASE i < segIdx
    BY <1>1, <1>2, <1>3, Segmentwise DEF Live, Depth, Sp
  <1>4. CASE i = segIdx
    BY <1>1, <1>2, <1>4 DEF Live, Depth, Sp
  <1>5. CASE i > segIdx
    BY <1>1, <1>2, <1>5, Segmentwise DEF Live, Depth, Sp
  <1> QED
    BY <1>1, <1>3, <1>4, <1>5

LEMMA SpInRange ==
  ASSUME TypeOK
  PROVE  Sp \in 0 .. NumSegments * FramesPerSegment
  <1>1. /\ segIdx \in Nat /\ segSp \in Nat /\ segSp <= FramesPerSegment
        /\ FramesPerSegment \in Nat \ {0} /\ NumSegments \in Nat
        /\ segIdx < NumSegments
    BY Sizes DEF TypeOK, LastSegment
  <1>2. segIdx * FramesPerSegment + FramesPerSegment <= NumSegments * FramesPerSegment
    BY <1>1, Segmentwise
  <1>3. segIdx * FramesPerSegment \in Nat /\ NumSegments * FramesPerSegment \in Nat
    BY <1>1
  <1> QED
    BY <1>1, <1>2, <1>3 DEF Sp

(* What SetSp leaves: the segment index and the slots in use do not grow. *)
LEMMA UnwindBelow ==
  ASSUME TypeOK, NEW n \in Nat, n <= Sp, segIdx <= n \div FramesPerSegment
  PROVE  n % FramesPerSegment <= segSp
  <1> DEFINE F == FramesPerSegment
             q == n \div F
             r == n % F
  <1>1. q \in Nat /\ r \in 0 .. F - 1 /\ n = r + q * F /\ F \in Nat \ {0}
    BY DepthOf, Sizes DEF Depth, SegmentSlots
  <1>2. segIdx \in Nat /\ segSp \in 0 .. F
    BY Sizes DEF TypeOK
  <1>3. n <= segSp + segIdx * F /\ segIdx <= q
    BY DEF Sp
  <1> HIDE DEF F, q, r
  <1>4. segIdx * F \in Nat /\ q * F \in Nat
    BY <1>1, <1>2
  <1>5. CASE segIdx = q
    BY <1>1, <1>2, <1>3, <1>4, <1>5 DEF q, r, F
  <1>6. CASE segIdx < q
    <2>1. segIdx * F + F <= q * F
      BY <1>1, <1>2, <1>6, Segmentwise
    <2> QED
      BY <1>1, <1>2, <1>3, <1>4, <2>1 DEF q, r, F
  <1> QED
    BY <1>1, <1>2, <1>3, <1>5, <1>6

-----------------------------------------------------------------------------
LEMMA AtLive ==
  ASSUME TypeOK, NEW n \in 0 .. Sp - 1
  PROVE  /\ n \div FramesPerSegment \in 0 .. segIdx
         /\ n % FramesPerSegment \in SegmentSlots
         /\ Live(n \div FramesPerSegment, n % FramesPerSegment)
         /\ n = Depth(n \div FramesPerSegment, n % FramesPerSegment)
  <1>1. Sp \in Nat
    BY SpInRange, Sizes
  <1>2. n \in Nat /\ n < Sp
    BY <1>1
  <1>3. /\ n \div FramesPerSegment \in Nat
        /\ n % FramesPerSegment \in SegmentSlots
        /\ n = Depth(n \div FramesPerSegment, n % FramesPerSegment)
    BY <1>2, DepthOf
  <1>4. Live(n \div FramesPerSegment, n % FramesPerSegment)
    BY <1>2, <1>3, LiveBelowSp
  <1> QED
    BY <1>3, <1>4 DEF Live, TypeOK

(* The two forms of FramesLinked agree. *)
LEMMA LinkedByDepth ==
  ASSUME IInv
  PROVE  FramesLinked
  <1> SUFFICES ASSUME InUse, NEW n \in 0 .. Sp - 1
               PROVE  At(n) \in [fn : Fn, idx : {n}, parent : {n - 1}]
    BY DEF FramesLinked
  <1>1. TypeOK /\ SlotsLinked
    BY DEF IInv
  <1>2. /\ n \div FramesPerSegment \in 0 .. LastSegment
        /\ n % FramesPerSegment \in SegmentSlots
        /\ Live(n \div FramesPerSegment, n % FramesPerSegment)
        /\ n = Depth(n \div FramesPerSegment, n % FramesPerSegment)
    BY <1>1, AtLive, Sizes DEF TypeOK
  <1> QED
    BY <1>1, <1>2 DEF SlotsLinked, At

(* Both ways of finding the top frame give the same slot. *)
LEMMA LastAgrees ==
  ASSUME TypeOK
  PROVE  LastIsTopFrame
  <1> SUFFICES ASSUME ~IsEmpty PROVE Last = At(Sp - 1)
    BY DEF LastIsTopFrame
  <1>1. segIdx \in Nat /\ segSp \in 0 .. FramesPerSegment /\ FramesPerSegment \in Nat \ {0}
    BY Sizes DEF TypeOK
  <1>2. CASE segSp = 0
    <2>1. segIdx - 1 \in Nat /\ FramesPerSegment - 1 \in SegmentSlots
      BY <1>1, <1>2 DEF IsEmpty, SegmentSlots
    <2>2. Depth(segIdx - 1, FramesPerSegment - 1) = Sp - 1
      BY <1>1, <1>2, SMTT(30) DEF Depth, Sp
    <2> QED
      BY <1>2, <2>1, <2>2, DepthDivMod DEF Last, At
  <1>3. CASE segSp # 0
    <2>1. segSp - 1 \in SegmentSlots
      BY <1>1, <1>3 DEF SegmentSlots
    <2>2. Depth(segIdx, segSp - 1) = Sp - 1
      BY <1>1, <1>3, SMTT(30) DEF Depth, Sp
    <2> QED
      BY <1>1, <1>3, <2>1, <2>2, DepthDivMod DEF Last, At
  <1> QED
    BY <1>2, <1>3

-----------------------------------------------------------------------------
(* The steps.  Each is stated by the segment it touches. *)

LEMMA InitIInv == Init => IInv
  <1> SUFFICES ASSUME Init PROVE IInv
    OBVIOUS
  <1>1. 0 \in 0 .. LastSegment /\ LastSegment \in Nat /\ FramesPerSegment \in Nat
    BY Sizes
  <1>2. NewSegment \in Segment
    BY DEF NewSegment, Segment
  <1>3. TypeOK
    BY <1>1, <1>2 DEF Init, TypeOK
  <1>4. SegmentsAllocated
    <2>1. NewSegment # Nil
      BY <1>2, NilAssumption
    <2> QED
      BY <1>1, <2>1 DEF Init, SegmentsAllocated, InUse
  <1>5. SlotsLinked
    BY <1>1 DEF Init, SlotsLinked, Live, SegmentSlots
  <1> QED
    BY <1>3, <1>4, <1>5 DEF IInv

LEMMA PushInv ==
  ASSUME IInv, NEW f \in Fn, PushCallFrame(f)
  PROVE  IInv'
  <1> USE DEF IInv, TypeOK
  <1>1. /\ segIdx \in 0 .. LastSegment /\ LastSegment \in Nat /\ LastSegment # NumSegments
        /\ segSp \in 0 .. FramesPerSegment /\ FramesPerSegment \in Nat \ {0}
        /\ InUse /\ SlotsLinked
        /\ \A i \in 0 .. segIdx : segments[i] \in Segment
    BY Sizes DEF LastSegment, PushCallFrame, SegmentsAllocated
  <1>2. Sp \in Nat /\ NewFrame(f) \in [fn : Fn, idx : {Sp}, parent : {Sp - 1}]
    BY SpInRange, Sizes DEF NewFrame
  <1>3. CASE PushInSegment(f)
    <2>1. segSp \in SegmentSlots /\ Sp = Depth(segIdx, segSp)
      BY <1>1, <1>3 DEF PushInSegment, SegmentSlots, Depth, Sp
    <2> DEFINE seg == [segments[segIdx] EXCEPT ![segSp] = NewFrame(f)]
    <2>2. seg \in Segment
      BY <1>1, <1>2, <2>1 DEF Segment, Frame
    <2>3. /\ segments' = [segments EXCEPT ![segIdx] = seg]
          /\ segSp' = segSp + 1 /\ segIdx' = segIdx /\ outcome' = "ok"
      BY <1>3 DEF PushInSegment, Store
    <2>4a. seg # Nil /\ segments[segIdx] # Nil
      BY <1>1, <2>2, NilAssumption DEF SegmentsAllocated
    <2>4b. seg[segSp] = NewFrame(f) /\ \A s \in SegmentSlots \ {segSp} : seg[s] = segments[segIdx][s]
      BY <1>1, <2>1 DEF Segment
    <2> HIDE DEF seg
    <2>4. TypeOK'
      BY <1>1, <1>3, <2>2, <2>3 DEF PushInSegment
    <2>5. SegmentsAllocated'
      BY <1>1, <2>4a, <2>3 DEF SegmentsAllocated, InUse
    <2>6. SlotsLinked'
      <3> SUFFICES ASSUME NEW i \in 0 .. LastSegment, NEW s \in SegmentSlots, Live(i, s)'
                   PROVE  segments'[i][s] \in
                            [fn : Fn, idx : {Depth(i, s)}, parent : {Depth(i, s) - 1}]
        BY DEF SlotsLinked, Depth
      <3>1. CASE i = segIdx /\ s = segSp
        BY <1>1, <1>2, <2>1, <2>4b, <2>3, <3>1
      <3>2. CASE ~(i = segIdx /\ s = segSp)
        <4>1. Live(i, s)
          BY <1>1, <2>3, <3>2 DEF Live, SegmentSlots
        <4>2. segments'[i][s] = segments[i][s]
          BY <1>1, <2>1, <2>4b, <2>3, <3>2
        <4> QED
          BY <1>1, <4>1, <4>2 DEF SlotsLinked
      <3> QED
        BY <3>1, <3>2
    <2> QED
      BY <2>4, <2>5, <2>6
  <1>4. CASE PushNewSegment(f)
    <2>1. /\ segSp = FramesPerSegment /\ segIdx + 1 \in 0 .. LastSegment
          /\ 0 \in SegmentSlots
      BY <1>1, <1>4 DEF PushNewSegment, SegmentSlots
    <2>2. Sp = Depth(segIdx + 1, 0)
      BY <1>1, <2>1, SMTT(30) DEF Depth, Sp
    <2> DEFINE seg == [NewSegment EXCEPT ![0] = NewFrame(f)]
    <2>3. seg \in Segment /\ seg[0] = NewFrame(f)
      BY <1>2, <2>1 DEF Segment, Frame, NewSegment
    <2>4. /\ segments' = [segments EXCEPT ![segIdx + 1] = seg]
          /\ segSp' = 1 /\ segIdx' = segIdx + 1 /\ outcome' = "ok"
      BY <1>4 DEF PushNewSegment, Store
    <2> HIDE DEF seg
    <2>5. TypeOK'
      BY <1>1, <2>1, <2>3, <2>4
    <2>6. SegmentsAllocated'
      BY <1>1, <2>1, <2>3, <2>4, NilAssumption DEF SegmentsAllocated, InUse
    <2>7. SlotsLinked'
      <3> SUFFICES ASSUME NEW i \in 0 .. LastSegment, NEW s \in SegmentSlots, Live(i, s)'
                   PROVE  segments'[i][s] \in
                            [fn : Fn, idx : {Depth(i, s)}, parent : {Depth(i, s) - 1}]
        BY DEF SlotsLinked, Depth
      <3>1. CASE i = segIdx + 1
        <4>1. s = 0
          BY <1>1, <2>4, <3>1 DEF Live, SegmentSlots
        <4> QED
          BY <1>2, <2>1, <2>2, <2>3, <2>4, <3>1, <4>1
      <3>2. CASE i # segIdx + 1
        <4>1. Live(i, s)
          BY <1>1, <2>1, <2>4, <3>2 DEF Live, SegmentSlots
        <4>2. segments'[i][s] = segments[i][s]
          BY <1>1, <2>4, <3>2
        <4> QED
          BY <1>1, <4>1, <4>2 DEF SlotsLinked
      <3> QED
        BY <3>1, <3>2
    <2> QED
      BY <2>5, <2>6, <2>7
  <1>5. CASE UNCHANGED <<segments, segIdx, segSp>> /\ outcome' \in {"overflow", "panic"}
    BY <1>1, <1>5 DEF SegmentsAllocated, InUse, SlotsLinked, Live, Depth
  <1> QED
    BY <1>3, <1>4, <1>5 DEF PushCallFrame, Push, PushPanic

(* Steps that only free slots, possibly after rewriting some of them. *)
LEMMA ShrinkInv ==
  ASSUME IInv, InUse,
         segments' \in [0 .. LastSegment -> Segment \cup {Nil}],
         segIdx' \in 0 .. segIdx, segSp' \in 0 .. FramesPerSegment, outcome' = "ok",
         \A i \in 0 .. LastSegment : segments'[i] # Nil <=> i <= segIdx',
         \A i \in 0 .. LastSegment, s \in SegmentSlots : Live(i, s)' =>
           /\ Live(i, s)
           /\ \/ segments'[i][s] = segments[i][s]
              \/ segments'[i][s] \in [fn : Fn, idx : {Depth(i, s)}, parent : {Depth(i, s) - 1}]
  PROVE  IInv'
  <1>1. TypeOK'
    BY Sizes DEF IInv, TypeOK
  <1>2. SegmentsAllocated'
    BY DEF SegmentsAllocated, InUse
  <1>3. SlotsLinked'
    BY DEF IInv, SlotsLinked, Depth
  <1> QED
    BY <1>1, <1>2, <1>3 DEF IInv

LEMMA PopInv ==
  ASSUME IInv, Pop
  PROVE  IInv'
  <1>1. /\ segIdx \in 0 .. LastSegment /\ LastSegment \in Nat
        /\ segSp \in 0 .. FramesPerSegment /\ FramesPerSegment \in Nat \ {0}
        /\ InUse /\ segments \in [0 .. LastSegment -> Segment \cup {Nil}]
        /\ \A i \in 0 .. LastSegment : segments[i] # Nil <=> i <= segIdx
    BY Sizes DEF IInv, TypeOK, SegmentsAllocated, Pop, InUse
  <1>2. CASE segSp = 0
    <2>1. /\ segIdx # 0 /\ segIdx' = segIdx - 1 /\ segSp' = FramesPerSegment - 1
          /\ segments' = [segments EXCEPT ![segIdx] = Nil] /\ outcome' = "ok"
      BY <1>2 DEF Pop, PopFrame, IsEmpty
    <2>2. \A i \in 0 .. LastSegment : segments'[i] # Nil <=> i <= segIdx'
      BY <1>1, <2>1
    <2>3. \A i \in 0 .. LastSegment, s \in SegmentSlots : Live(i, s)' =>
            Live(i, s) /\ segments'[i][s] = segments[i][s]
      BY <1>1, <1>2, <2>1 DEF Live, SegmentSlots
    <2> QED
      BY <1>1, <2>1, <2>2, <2>3, ShrinkInv
  <1>3. CASE segSp # 0
    <2>1. /\ segIdx' = segIdx /\ segSp' = segSp - 1 /\ segments' = segments
          /\ outcome' = "ok"
      BY <1>3 DEF Pop, PopFrame
    <2>2. \A i \in 0 .. LastSegment, s \in SegmentSlots : Live(i, s)' =>
            Live(i, s) /\ segments'[i][s] = segments[i][s]
      BY <1>1, <2>1 DEF Live, SegmentSlots
    <2> QED
      BY <1>1, <1>3, <2>1, <2>2, ShrinkInv
  <1> QED
    BY <1>2, <1>3

(* Whatever SetSp does to the representation, the slots that stay live were
   live and keep their frames. *)
LEMMA SetSpInv ==
  ASSUME IInv, NEW n \in Nat, SetSp(n)
  PROVE  IInv'
  <1> DEFINE q == n \div FramesPerSegment
             r == n % FramesPerSegment
  <1>1. /\ segIdx \in 0 .. LastSegment /\ LastSegment \in Nat
        /\ segSp \in 0 .. FramesPerSegment /\ FramesPerSegment \in Nat \ {0}
        /\ InUse /\ segments \in [0 .. LastSegment -> Segment \cup {Nil}]
        /\ \A i \in 0 .. LastSegment : segments[i] # Nil <=> i <= segIdx
    BY Sizes DEF IInv, TypeOK, SegmentsAllocated, SetSp, InUse
  <1>2. q \in Nat /\ r \in SegmentSlots
    BY DepthOf
  <1>3. /\ segments' = [i \in 0 .. LastSegment |->
                          IF q < i /\ i <= segIdx THEN Nil ELSE segments[i]]
        /\ segIdx' = IF segIdx <= q THEN segIdx ELSE q
        /\ segSp' = r
        /\ outcome' = "ok"
        /\ n <= Sp
    BY DEF SetSp
  <1>4. segIdx <= q => r <= segSp
    BY <1>3, UnwindBelow DEF IInv
  <1> HIDE DEF q, r
  <1>5. segIdx' \in 0 .. segIdx /\ segSp' \in 0 .. FramesPerSegment
    BY <1>1, <1>2, <1>3 DEF SegmentSlots
  <1>6. segments' \in [0 .. LastSegment -> Segment \cup {Nil}]
    BY <1>1, <1>3
  <1>7. \A i \in 0 .. LastSegment : segments'[i] # Nil <=> i <= segIdx'
    BY <1>1, <1>2, <1>3
  <1>8. \A i \in 0 .. LastSegment, s \in SegmentSlots : Live(i, s)' =>
          Live(i, s) /\ segments'[i][s] = segments[i][s]
    BY <1>1, <1>2, <1>3, <1>4 DEF Live, SegmentSlots
  <1> QED
    BY <1>1, <1>3, <1>5, <1>6, <1>7, <1>8, ShrinkInv

(* The slots of the two topmost frames, in the form At computes them. *)
LEMMA CallerSlot ==
  ASSUME IInv, InUse, Sp >= 2
  PROVE  LET ci == (Sp - 2) \div FramesPerSegment
             cs == (Sp - 2) % FramesPerSegment
         IN  /\ ci \in 0 .. segIdx /\ cs \in SegmentSlots
             /\ Live(ci, cs) /\ Depth(ci, cs) = Sp - 2
             /\ At(Sp - 1).fn \in Fn
             /\ At(Sp - 2).parent = Sp - 3
  <1>1. Sp \in Nat /\ Sp - 1 \in 0 .. Sp - 1 /\ Sp - 2 \in 0 .. Sp - 1
    BY SpInRange, Sizes DEF IInv
  <1>2. FramesLinked
    BY LinkedByDepth
  <1>3. At(Sp - 1).fn \in Fn
    BY <1>1, <1>2 DEF FramesLinked
  <1>4. At(Sp - 2).parent = Sp - 3
    BY <1>1, <1>2 DEF FramesLinked
  <1> QED
    BY <1>1, <1>3, <1>4, AtLive DEF IInv

LEMMA RemoveCallerFrameInv ==
  ASSUME IInv, RemoveCallerFrame
  PROVE  IInv'
  <1> DEFINE ci == (Sp - 2) \div FramesPerSegment
             cs == (Sp - 2) % FramesPerSegment
             copy == [fn |-> At(Sp - 1).fn, idx |-> Sp - 2, parent |-> At(Sp - 2).parent]
             seg == [segments[ci] EXCEPT ![cs] = copy]
  <1>1. /\ segIdx \in 0 .. LastSegment /\ LastSegment \in Nat
        /\ segSp \in 0 .. FramesPerSegment /\ FramesPerSegment \in Nat \ {0}
        /\ InUse /\ segments \in [0 .. LastSegment -> Segment \cup {Nil}]
        /\ \A i \in 0 .. LastSegment : segments[i] # Nil <=> i <= segIdx
        /\ Sp >= 2 /\ Sp \in Nat
    BY SpInRange, Sizes DEF IInv, TypeOK, SegmentsAllocated, RemoveCallerFrame, InUse
  <1>2. /\ ci \in 0 .. segIdx /\ cs \in SegmentSlots
        /\ Live(ci, cs) /\ Depth(ci, cs) = Sp - 2
        /\ copy \in [fn : Fn, idx : {Sp - 2}, parent : {Sp - 3}]
    BY <1>1, CallerSlot
  <1>3. segments[ci] \in Segment
    BY <1>1, <1>2
  <1>4. CopyOverCaller = [segments EXCEPT ![ci] = seg]
    BY DEF CopyOverCaller, Store
  <1>5. copy \in Frame
    BY <1>1, <1>2 DEF Frame
  <1> HIDE DEF ci, cs, copy
  <1>6. /\ seg \in Segment /\ seg # Nil
        /\ seg[cs] = copy
        /\ \A s \in SegmentSlots \ {cs} : seg[s] = segments[ci][s]
    BY <1>2, <1>3, <1>5, NilAssumption DEF Segment
  <1> HIDE DEF seg
  <1>7. CASE segSp = 0
    <2>1. /\ segments' = [CopyOverCaller EXCEPT ![segIdx] = Nil]
          /\ segIdx' = segIdx - 1 /\ segSp' = FramesPerSegment - 1 /\ outcome' = "ok"
      BY <1>7 DEF RemoveCallerFrame
    <2>2. ci < segIdx
      BY <1>1, <1>2, <1>7 DEF Live, SegmentSlots
    <2>3. /\ segments' \in [0 .. LastSegment -> Segment \cup {Nil}]
          /\ segments'[ci] = seg /\ segments'[segIdx] = Nil
          /\ \A i \in 0 .. LastSegment : i # ci /\ i # segIdx => segments'[i] = segments[i]
      <3>1. segments' = [i \in 0 .. LastSegment |->
                           IF i = segIdx THEN Nil ELSE IF i = ci THEN seg ELSE segments[i]]
        BY <1>1, <1>2, <1>4, <2>1
      <3>2. ci \in 0 .. LastSegment /\ ci # segIdx
        BY <1>1, <1>2, <2>2
      <3> QED
        BY <1>1, <1>6, <3>1, <3>2
    <2>4. \A i \in 0 .. LastSegment : segments'[i] # Nil <=> i <= segIdx'
      BY <1>1, <1>2, <1>6, <2>1, <2>2, <2>3
    <2>5. ASSUME NEW i \in 0 .. LastSegment, NEW s \in SegmentSlots, Live(i, s)'
          PROVE  /\ Live(i, s)
                 /\ \/ segments'[i][s] = segments[i][s]
                    \/ segments'[i][s] \in
                         [fn : Fn, idx : {Depth(i, s)}, parent : {Depth(i, s) - 1}]
      <3>1. i < segIdx
        BY <1>1, <2>1, <2>5 DEF Live, SegmentSlots
      <3>2. CASE i = ci /\ s = cs
        BY <1>1, <1>2, <1>6, <2>3, <3>1, <3>2 DEF Live
      <3>3. CASE ~(i = ci /\ s = cs)
        BY <1>1, <1>6, <2>3, <3>1, <3>3 DEF Live
      <3> QED
        BY <3>2, <3>3
    <2>6. segIdx' \in 0 .. segIdx /\ segSp' \in 0 .. FramesPerSegment
      BY <1>1, <1>2, <2>1, <2>2
    <2> QED
      BY <1>1, <2>1, <2>3, <2>4, <2>5, <2>6, ShrinkInv
  <1>8. CASE segSp # 0
    <2>1. /\ segments' = CopyOverCaller
          /\ segIdx' = segIdx /\ segSp' = segSp - 1 /\ outcome' = "ok"
      BY <1>8 DEF RemoveCallerFrame
    <2>2. /\ segments' \in [0 .. LastSegment -> Segment \cup {Nil}]
          /\ segments'[ci] = seg
          /\ \A i \in 0 .. LastSegment : i # ci => segments'[i] = segments[i]
      BY <1>1, <1>2, <1>4, <1>6, <2>1
    <2>3. \A i \in 0 .. LastSegment : segments'[i] # Nil <=> i <= segIdx'
      BY <1>1, <1>2, <1>6, <2>1, <2>2
    <2>4. ASSUME NEW i \in 0 .. LastSegment, NEW s \in SegmentSlots, Live(i, s)'
          PROVE  /\ Live(i, s)
                 /\ \/ segments'[i][s] = segments[i][s]
                    \/ segments'[i][s] \in
                         [fn : Fn, idx : {Depth(i, s)}, parent : {Depth(i, s) - 1}]
      <3>1. Live(i, s)
        BY <1>1, <2>1, <2>4 DEF Live, SegmentSlots
      <3>2. CASE i = ci /\ s = cs
        BY <1>1, <1>2, <1>6, <2>2, <3>1, <3>2
      <3>3. CASE ~(i = ci /\ s = cs)
        BY <1>6, <2>2, <3>1, <3>3
      <3> QED
        BY <3>2, <3>3
    <2> QED
      BY <1>1, <1>8, <2>1, <2>2, <2>3, <2>4, ShrinkInv
  <1> QED
    BY <1>7, <1>8

LEMMA NextIInv == IInv /\ [Next]_vars => IInv'
  <1> SUFFICES ASSUME IInv, [Next]_vars PROVE IInv'
    OBVIOUS
  <1>1. ASSUME NEW f \in Fn, PushCallFrame(f) PROVE IInv'
    BY <1>1, PushInv
  <1>2. CASE Pop
    BY <1>2, PopInv
  <1>3. CASE Unwind
    <2>1. PICK n \in 0 .. NumSegments * FramesPerSegment : SetSp(n)
      BY <1>3 DEF Unwind
    <2>2. n \in Nat
      BY Sizes
    <2> QED
      BY <2>1, <2>2, SetSpInv
  <1>4. CASE RemoveCallerFrame
    BY <1>4, RemoveCallerFrameInv
  <1>5. CASE FreeAll
    <2>1. /\ segIdx \in 0 .. LastSegment /\ LastSegment \in Nat
          /\ segments' = [i \in 0 .. LastSegment |-> IF i <= segIdx THEN Nil ELSE segments[i]]
          /\ outcome' = "freed" /\ segIdx' = segIdx /\ segSp' = segSp /\ InUse
      BY <1>5, Sizes DEF FreeAll, IInv, TypeOK
    <2>2. TypeOK'
      BY <2>1 DEF IInv, TypeOK
    <2>3. SegmentsAllocated'
      BY <2>1 DEF IInv, SegmentsAllocated, InUse
    <2> QED
      BY <2>1, <2>2, <2>3 DEF IInv, InUse
  <1>6. CASE UNCHANGED vars
    BY <1>6 DEF vars, IInv, TypeOK, SegmentsAllocated, InUse, SlotsLinked, Live, Depth
  <1> QED
    BY <1>1, <1>2, <1>3, <1>4, <1>5, <1>6 DEF Next

(* The inductive invariant holds in every reachable state, unwindings that
   drop a segment included. *)
THEOREM AutoInvariant == Spec => []IInv
  BY InitIInv, NextIInv, PTL DEF Spec

(* Types of the representation. *)
THEOREM AutoTypeOK == Spec => []TypeOK
  <1>1. IInv => TypeOK
    BY DEF IInv
  <1> QED
    BY <1>1, AutoInvariant, PTL

(* Exactly the segments up to the current one are allocated: no frame is
   reached through a nil segment, and no segment is lost from the pool. *)
THEOREM AutoSegmentsAllocated == Spec => []SegmentsAllocated
  <1>1. IInv => SegmentsAllocated
    BY DEF IInv
  <1> QED
    BY <1>1, AutoInvariant, PTL

(* Every live frame carries its own depth and its caller's, and none is a
   leftover of the pool. *)
THEOREM AutoFramesLinked == Spec => []FramesLinked
  BY LinkedByDepth, AutoInvariant, PTL

(* Last and At(Sp() - 1) are the same frame in both representations. *)
THEOREM AutoLastIsTopFrame == Spec => []LastIsTopFrame
  <1>1. IInv => LastIsTopFrame
    BY LastAgrees DEF IInv
  <1> QED
    BY <1>1, AutoInvariant, PTL

-----------------------------------------------------------------------------
(* Refinement. *)

LEMMA FramesSeq == IInv => frames \in Seq(Fn) /\ (InUse => Len(frames) = Sp)
  <1> SUFFICES ASSUME IInv PROVE frames \in Seq(Fn) /\ (InUse => Len(frames) = Sp)
    OBVIOUS
  <1>1. CASE ~InUse
    BY <1>1 DEF frames
  <1>2. CASE InUse
    <2>1. Sp \in Nat
      BY SpInRange, Sizes DEF IInv
    <2>2. \A n \in 1 .. Sp : At(n - 1).fn \in Fn
      BY <1>2, <2>1, LinkedByDepth DEF FramesLinked
    <2>3. frames = [n \in 1 .. Sp |-> At(n - 1).fn]
      BY <1>2 DEF frames
    <2> QED
      BY <2>1, <2>2, <2>3
  <1> QED
    BY <1>1, <1>2

(* Unwinding beyond the current segment is the DropsSegment case. *)
LEMMA UnwindBeyondSegment ==
  ASSUME TypeOK, NEW n \in Nat, n <= Sp, segIdx < n \div FramesPerSegment
  PROVE  DropsSegment(n)
  <1> DEFINE F == FramesPerSegment
             q == n \div F
             r == n % F
  <1>1. q \in Nat /\ r \in 0 .. F - 1 /\ n = r + q * F /\ F \in Nat \ {0}
    BY DepthOf, Sizes DEF Depth, SegmentSlots
  <1>2. segIdx \in Nat /\ segSp \in 0 .. F
    BY Sizes DEF TypeOK
  <1>3. n <= segSp + segIdx * F /\ segIdx < q
    BY DEF Sp
  <1> HIDE DEF F, q, r
  <1>4. segIdx * F \in Nat /\ q * F \in Nat
    BY <1>1, <1>2
  <1>5. segIdx * F + F <= q * F
    BY <1>1, <1>2, <1>3, Segmentwise
  <1>6. segSp = F /\ n = segSp + segIdx * F
    BY <1>1, <1>2, <1>3, <1>4, <1>5
  <1> QED
    BY <1>6 DEF DropsSegment, Sp, F

LEMMA DivMonotone ==
  ASSUME NEW m \in Nat, NEW n \in Nat, m <= n
  PROVE  m \div FramesPerSegment <= n \div FramesPerSegment
  <1>1. ASSUME NEW F \in Nat \ {0} PROVE m \div F <= n \div F
    BY <1>1, SMTT(30)
  <1> QED
    BY <1>1, Sizes

(* A step that leaves the lowest frames in place takes a prefix. *)
LEMMA ShrinkRefines ==
  ASSUME IInv, IInv', InUse, InUse', NEW n \in Nat, n <= Sp, Sp' = n,
         \A m \in 0 .. n - 1 : At(m)' = At(m)
  PROVE  frames' = SubSeq(frames, 1, n)
  <1>1. frames \in Seq(Fn) /\ Len(frames) = Sp
    BY FramesSeq
  <1>2. /\ frames = [m \in 1 .. Sp |-> At(m - 1).fn]
        /\ frames' = [m \in 1 .. n |-> At(m - 1)'.fn]
    BY DEF frames
  <1>3. Sp \in Nat
    BY SpInRange, Sizes DEF IInv
  <1>4. frames' = [m \in 1 .. n |-> frames[m]]
    BY <1>2, <1>3
  <1> QED
    BY <1>1, <1>3, <1>4

LEMMA PushRefines ==
  ASSUME IInv, IInv', InUse, InUse', NEW f \in Fn,
         NEW d \in Nat, d = Sp, Sp' = d + 1,
         \A m \in 0 .. d - 1 : At(m)' = At(m),
         At(d)'.fn = f
  PROVE  Abstract!Push(f)
  <1>1. frames \in Seq(Fn) /\ Len(frames) = Sp
    BY FramesSeq
  <1>2. Sp \in Nat /\ Sp' \in 0 .. NumSegments * FramesPerSegment
    <2>1. (TypeOK => Sp \in 0 .. NumSegments * FramesPerSegment)'
      BY SpInRange, PTL
    <2> QED
      BY <2>1, SpInRange, Sizes DEF IInv
  <1>3. Len(frames) < NumSegments * FramesPerSegment
    BY <1>1, <1>2, Sizes
  <1>4. /\ frames = [m \in 1 .. d |-> At(m - 1).fn]
        /\ frames' = [m \in 1 .. d + 1 |-> At(m - 1)'.fn]
    BY DEF frames
  <1>5. \A m \in 1 .. d : frames'[m] = frames[m]
    BY <1>2, <1>4
  <1>6. frames'[d + 1] = f
    <2>1. d + 1 \in 1 .. d + 1 /\ (d + 1) - 1 = d
      OBVIOUS
    <2>2. frames'[d + 1] = At((d + 1) - 1)'.fn
      BY <1>4, <2>1
    <2> QED
      BY <2>1, <2>2
  <1>7. frames' = Append(frames, f)
    BY <1>1, <1>2, <1>4, <1>5, <1>6
  <1> QED
    BY <1>3, <1>7 DEF Abstract!Push

LEMMA PushCallFrameStep ==
  ASSUME IInv, IInv', NEW f \in Fn, PushCallFrame(f)
  PROVE  Abstract!Push(f) \/ (outcome' \in {"overflow", "panic"} /\ UNCHANGED frames)
  <1>1. /\ segIdx \in 0 .. LastSegment /\ LastSegment \in Nat
        /\ segSp \in 0 .. FramesPerSegment /\ FramesPerSegment \in Nat \ {0}
        /\ InUse /\ segments \in [0 .. LastSegment -> Segment \cup {Nil}]
        /\ \A i \in 0 .. segIdx : segments[i] \in Segment
        /\ Sp \in Nat
    BY SpInRange, Sizes DEF IInv, TypeOK, PushCallFrame, SegmentsAllocated
  <1> PICK d \in Nat : d = Sp
    BY <1>1
  <1>2. CASE PushInSegment(f)
    <2>1. segSp \in SegmentSlots /\ d = Depth(segIdx, segSp)
      BY <1>1, <1>2 DEF PushInSegment, SegmentSlots, Depth, Sp
    <2>2. /\ segments' = [segments EXCEPT ![segIdx] =
                            [segments[segIdx] EXCEPT ![segSp] = NewFrame(f)]]
          /\ segSp' = segSp + 1 /\ segIdx' = segIdx /\ InUse'
      BY <1>2 DEF PushInSegment, Store, InUse
    <2>3. Sp' = d + 1
      BY <1>1, <2>2 DEF Sp
    <2>4. d \div FramesPerSegment = segIdx /\ d % FramesPerSegment = segSp
      BY <1>1, <2>1, DepthDivMod
    <2>5. At(d)'.fn = f
      BY <1>1, <2>1, <2>2, <2>3, <2>4 DEF At, NewFrame, Segment
    <2>6. ASSUME NEW n \in 0 .. d - 1 PROVE At(n)' = At(n)
      <3> DEFINE i == n \div FramesPerSegment
                 s == n % FramesPerSegment
      <3>1. i \in 0 .. segIdx /\ s \in SegmentSlots /\ Live(i, s)
        BY AtLive DEF IInv
      <3>2. At(n) = segments[i][s] /\ At(n)' = segments'[i][s]
        BY DEF At
      <3> HIDE DEF i, s
      <3>3. ~(i = segIdx /\ s = segSp)
        BY <1>1, <3>1 DEF Live, SegmentSlots
      <3> QED
        BY <1>1, <2>1, <2>2, <3>1, <3>2, <3>3 DEF Segment
    <2>7. Abstract!Push(f)
      BY <1>1, <2>2, <2>3, <2>5, <2>6, PushRefines
    <2> QED
      BY <2>7
  <1>3. CASE PushNewSegment(f)
    <2>1. segSp = FramesPerSegment /\ segIdx + 1 \in 0 .. LastSegment /\ 0 \in SegmentSlots
      BY <1>1, <1>3 DEF PushNewSegment, SegmentSlots
    <2>2. d = Depth(segIdx + 1, 0)
      BY <1>1, <2>1, SMTT(30) DEF Depth, Sp
    <2>3. /\ segments' = [segments EXCEPT ![segIdx + 1] =
                            [NewSegment EXCEPT ![0] = NewFrame(f)]]
          /\ segSp' = 1 /\ segIdx' = segIdx + 1 /\ InUse'
      BY <1>3 DEF PushNewSegment, Store, InUse
    <2>4. Sp' = d + 1
      BY <1>1, <2>1, <2>3, SMTT(30) DEF Sp
    <2>5. d \div FramesPerSegment = segIdx + 1 /\ d % FramesPerSegment = 0
      BY <1>1, <2>1, <2>2, DepthDivMod
    <2>6. At(d)'.fn = f
      BY <1>1, <2>1, <2>3, <2>5 DEF At, NewFrame, NewSegment
    <2>7. ASSUME NEW n \in 0 .. d - 1 PROVE At(n)' = At(n)
      <3> DEFINE i == n \div FramesPerSegment
                 s == n % FramesPerSegment
      <3>1. i \in 0 .. segIdx
        BY AtLive DEF IInv
      <3>2. At(n) = segments[i][s] /\ At(n)' = segments'[i][s]
        BY DEF At
      <3> HIDE DEF i, s
      <3> QED
        BY <1>1, <2>1, <2>3, <3>1, <3>2
    <2>8. Abstract!Push(f)
      BY <1>1, <2>3, <2>4, <2>6, <2>7, PushRefines
    <2> QED
      BY <2>8
  <1>4. CASE UNCHANGED <<segments, segIdx, segSp>> /\ outcome' \in {"overflow", "panic"}
    BY <1>1, <1>4 DEF frames, InUse, At, Sp
  <1> QED
    BY <1>2, <1>3, <1>4 DEF PushCallFrame, Push, PushPanic

LEMMA PopStep ==
  ASSUME IInv, IInv', Pop
  PROVE  Abstract!Pop
  <1>1. /\ segIdx \in 0 .. LastSegment /\ LastSegment \in Nat
        /\ segSp \in 0 .. FramesPerSegment /\ FramesPerSegment \in Nat \ {0}
        /\ InUse /\ InUse' /\ segments \in [0 .. LastSegment -> Segment \cup {Nil}]
        /\ Sp \in Nat /\ ~IsEmpty
    BY SpInRange, Sizes DEF IInv, TypeOK, Pop, InUse
  <1>2. /\ Sp' = Sp - 1 /\ Sp > 0
        /\ \A i \in 0 .. LastSegment : i < segIdx \/ segSp # 0 => segments'[i] = segments[i]
    <2>1. CASE segSp = 0
      <3>1. /\ segIdx # 0 /\ segIdx' = segIdx - 1 /\ segSp' = FramesPerSegment - 1
            /\ segments' = [segments EXCEPT ![segIdx] = Nil]
        BY <2>1 DEF Pop, PopFrame, IsEmpty
      <3>2. Sp' = Sp - 1 /\ Sp > 0
        BY <1>1, <2>1, <3>1, SMTT(30) DEF Sp
      <3> QED
        BY <1>1, <2>1, <3>1, <3>2
    <2>2. CASE segSp # 0
      <3>1. segIdx' = segIdx /\ segSp' = segSp - 1 /\ segments' = segments
        BY <2>2 DEF Pop, PopFrame
      <3>2. Sp' = Sp - 1 /\ Sp > 0
        BY <1>1, <2>2, <3>1, SMTT(30) DEF Sp
      <3> QED
        BY <3>1, <3>2
    <2> QED
      BY <2>1, <2>2
  <1>3. ASSUME NEW n \in 0 .. (Sp - 1) - 1 PROVE At(n)' = At(n)
    <2> DEFINE i == n \div FramesPerSegment
               s == n % FramesPerSegment
    <2>1. n \in 0 .. Sp - 1
      BY <1>1
    <2>2. i \in 0 .. segIdx /\ s \in SegmentSlots /\ Live(i, s)
      BY <2>1, AtLive DEF IInv
    <2>3. At(n) = segments[i][s] /\ At(n)' = segments'[i][s]
      BY DEF At
    <2> HIDE DEF i, s
    <2>4. i < segIdx \/ segSp # 0
      BY <1>1, <2>2 DEF Live, SegmentSlots
    <2> QED
      BY <1>1, <1>2, <2>2, <2>3, <2>4
  <1>4. frames' = SubSeq(frames, 1, Sp - 1)
    <2>1. Sp - 1 \in Nat /\ Sp - 1 <= Sp
      BY <1>1, <1>2
    <2> QED
      BY <1>1, <1>2, <1>3, <2>1, ShrinkRefines
  <1>5. Abstract!Pop
    BY <1>1, <1>2, <1>4, FramesSeq DEF Abstract!Pop
  <1> QED
    BY <1>5

LEMMA SetSpStep ==
  ASSUME IInv, IInv', NEW n \in 0 .. NumSegments * FramesPerSegment,
         SetSp(n), ~DropsSegment(n)
  PROVE  frames' = SubSeq(frames, 1, n) /\ Abstract!SetSp(n)
  <1> DEFINE q == n \div FramesPerSegment
             r == n % FramesPerSegment
  <1>1. /\ segIdx \in 0 .. LastSegment /\ LastSegment \in Nat
        /\ InUse /\ InUse' /\ Sp \in Nat /\ n \in Nat /\ n <= Sp
    BY SpInRange, Sizes DEF IInv, TypeOK, SetSp, InUse
  <1>2. q \in Nat /\ r \in SegmentSlots /\ n = Depth(q, r)
    BY <1>1, DepthOf
  <1>3. q <= segIdx
    BY <1>1, <1>2, UnwindBeyondSegment DEF IInv
  <1>4. /\ segments' = [i \in 0 .. LastSegment |->
                          IF q < i /\ i <= segIdx THEN Nil ELSE segments[i]]
        /\ segIdx' = q /\ segSp' = r
    BY <1>1, <1>2, <1>3 DEF SetSp
  <1>5. Sp' = n
    BY <1>2, <1>4 DEF Sp, Depth
  <1>6. ASSUME NEW m \in 0 .. n - 1 PROVE At(m)' = At(m)
    <2> DEFINE i == m \div FramesPerSegment
               s == m % FramesPerSegment
    <2>1. m \in 0 .. Sp - 1 /\ m \in Nat /\ m <= n
      BY <1>1
    <2>2. i \in 0 .. segIdx /\ i <= q
      BY <1>1, <2>1, AtLive, DivMonotone DEF IInv
    <2>3. At(m) = segments[i][s] /\ At(m)' = segments'[i][s]
      BY DEF At
    <2> HIDE DEF i, s, q, r
    <2> QED
      BY <1>1, <1>2, <1>4, <2>2, <2>3
  <1>7. frames' = SubSeq(frames, 1, n)
    BY <1>1, <1>5, <1>6, ShrinkRefines
  <1>8. Len(frames) = Sp
    BY <1>1, FramesSeq
  <1> QED
    BY <1>1, <1>7, <1>8 DEF Abstract!SetSp

LEMMA RemoveCallerFrameStep ==
  ASSUME IInv, IInv', RemoveCallerFrame
  PROVE  Abstract!RemoveCallerFrame
  <1> DEFINE ci == (Sp - 2) \div FramesPerSegment
             cs == (Sp - 2) % FramesPerSegment
             copy == [fn |-> At(Sp - 1).fn, idx |-> Sp - 2, parent |-> At(Sp - 2).parent]
             seg == [segments[ci] EXCEPT ![cs] = copy]
  <1>1. /\ segIdx \in 0 .. LastSegment /\ LastSegment \in Nat
        /\ segSp \in 0 .. FramesPerSegment /\ FramesPerSegment \in Nat \ {0}
        /\ InUse /\ InUse' /\ segments \in [0 .. LastSegment -> Segment \cup {Nil}]
        /\ \A i \in 0 .. LastSegment : segments[i] # Nil <=> i <= segIdx
        /\ Sp >= 2 /\ Sp \in Nat
    BY SpInRange, Sizes DEF IInv, TypeOK, SegmentsAllocated, RemoveCallerFrame, InUse
  <1>2. ci \in 0 .. segIdx /\ cs \in SegmentSlots /\ Live(ci, cs)
    BY <1>1, CallerSlot
  <1>3. segments[ci] \in Segment
    BY <1>1, <1>2
  <1>4. CopyOverCaller = [segments EXCEPT ![ci] = seg]
    BY DEF CopyOverCaller, Store
  <1>5. PICK d \in Nat : d = Sp - 2
    BY <1>1
  <1>6. ci = d \div FramesPerSegment /\ cs = d % FramesPerSegment
    BY <1>5
  <1>7. copy.fn = At(Sp - 1).fn
    OBVIOUS
  <1> HIDE DEF ci, cs, copy
  <1>8. seg[cs] = copy /\ \A s \in SegmentSlots \ {cs} : seg[s] = segments[ci][s]
    BY <1>2, <1>3 DEF Segment
  <1> HIDE DEF seg
  <1>9. /\ Sp' = Sp - 1
        /\ segments'[ci] = seg
        /\ \A i \in 0 .. LastSegment :
             i # ci /\ (i < segIdx \/ segSp # 0) => segments'[i] = segments[i]
    <2>1. CASE segSp = 0
      <3>1. /\ segments' = [CopyOverCaller EXCEPT ![segIdx] = Nil]
            /\ segIdx' = segIdx - 1 /\ segSp' = FramesPerSegment - 1
        BY <2>1 DEF RemoveCallerFrame
      <3>2. ci < segIdx
        BY <1>1, <1>2, <2>1 DEF Live, SegmentSlots
      <3>3. Sp' = Sp - 1
        BY <1>1, <2>1, <3>1, SMTT(30) DEF Sp
      <3> QED
        BY <1>1, <1>2, <1>4, <2>1, <3>1, <3>2, <3>3
    <2>2. CASE segSp # 0
      <3>1. segments' = CopyOverCaller /\ segIdx' = segIdx /\ segSp' = segSp - 1
        BY <2>2 DEF RemoveCallerFrame
      <3>2. Sp' = Sp - 1
        BY <1>1, <2>2, <3>1, SMTT(30) DEF Sp
      <3> QED
        BY <1>1, <1>2, <1>4, <3>1, <3>2
    <2> QED
      BY <2>1, <2>2
  <1>10. At(d)'.fn = At(Sp - 1).fn
    BY <1>6, <1>7, <1>8, <1>9 DEF At
  <1>11. ASSUME NEW n \in 0 .. d - 1 PROVE At(n)' = At(n)
    <2> DEFINE i == n \div FramesPerSegment
               s == n % FramesPerSegment
    <2>1. n \in 0 .. Sp - 1 /\ n # d /\ n \in Nat
      BY <1>1, <1>5
    <2>2. i \in 0 .. segIdx /\ s \in SegmentSlots /\ Live(i, s)
      BY <2>1, AtLive DEF IInv
    <2>3. At(n) = segments[i][s] /\ At(n)' = segments'[i][s]
      BY DEF At
    <2>4. ~(i = ci /\ s = cs)
      <3>1. n = Depth(i, s) /\ d = Depth(d \div FramesPerSegment, d % FramesPerSegment)
        BY <2>1, DepthOf
      <3> QED
        BY <1>6, <2>1, <3>1 DEF Depth
    <2> HIDE DEF i, s
    <2>5. i < segIdx \/ segSp # 0
      BY <1>1, <2>2 DEF Live, SegmentSlots
    <2>6. CASE i = ci
      BY <1>8, <1>9, <2>2, <2>3, <2>4, <2>6
    <2>7. CASE i # ci
      BY <1>1, <1>9, <2>2, <2>3, <2>5, <2>7
    <2> QED
      BY <2>6, <2>7
  <1>12. /\ frames \in Seq(Fn) /\ Len(frames) = d + 2
         /\ frames = [n \in 1 .. d + 2 |-> At(n - 1).fn]
         /\ frames' = [n \in 1 .. d + 1 |-> At(n - 1)'.fn]
    <2>1. Sp = d + 2 /\ Sp' = d + 1
      BY <1>1, <1>5, <1>9
    <2> QED
      BY <1>1, <2>1, FramesSeq DEF frames
  <1>13. \A n \in 1 .. d : frames'[n] = frames[n]
    BY <1>11, <1>12
  <1>14. frames'[d + 1] = frames[d + 2]
    <2>1. /\ d + 1 \in 1 .. d + 1 /\ (d + 1) - 1 = d
          /\ d + 2 \in 1 .. d + 2 /\ (d + 2) - 1 = Sp - 1
      BY <1>1, <1>5
    <2>2. frames'[d + 1] = At((d + 1) - 1)'.fn /\ frames[d + 2] = At((d + 2) - 1).fn
      BY <1>12, <2>1
    <2> QED
      BY <1>10, <2>1, <2>2
  <1>15. frames' = Append(SubSeq(frames, 1, d), frames[d + 2])
    <2>1. /\ SubSeq(frames, 1, d) \in Seq(Fn) /\ Len(SubSeq(frames, 1, d)) = d
          /\ \A n \in 1 .. d : SubSeq(frames, 1, d)[n] = frames[n]
      BY <1>12
    <2>2. /\ frames' \in Seq(Fn) /\ Len(frames') = d + 1
      <3>1. (IInv => frames \in Seq(Fn) /\ (InUse => Len(frames) = Sp))'
        BY FramesSeq, PTL
      <3> QED
        BY <1>1, <1>5, <1>9, <3>1
    <2> DEFINE rhs == Append(SubSeq(frames, 1, d), frames[d + 2])
    <2>3. /\ rhs \in Seq(Fn) /\ Len(rhs) = d + 1 /\ rhs[d + 1] = frames[d + 2]
          /\ \A n \in 1 .. d : rhs[n] = frames[n]
      <3>1. frames[d + 2] \in Fn
        BY <1>12
      <3> QED
        BY <2>1, <3>1, AppendProperties
    <2> HIDE DEF rhs
    <2>4. \A n \in 1 .. d + 1 : frames'[n] = rhs[n]
      BY <1>13, <1>14, <2>3
    <2>5. frames' = rhs
      BY <2>2, <2>3, <2>4
    <2> QED
      BY <2>5 DEF rhs
  <1>16. Len(frames) >= 2 /\ Len(frames) - 2 = d /\ frames[Len(frames)] = frames[d + 2]
    BY <1>12
  <1> QED
    BY <1>15, <1>16 DEF Abstract!RemoveCallerFrame

LEMMA FreeAllStep ==
  ASSUME IInv, FreeAll
  PROVE  Abstract!SetSp(0)
  <1>1. frames' = << >>
    BY DEF FreeAll, frames, InUse
  <1>2. frames \in Seq(Fn)
    BY FramesSeq
  <1> QED
    BY <1>1, <1>2 DEF Abstract!SetSp

LEMMA OperationsRefine == IInv /\ IInv' => StepMatches
  <1> SUFFICES ASSUME IInv, IInv' PROVE StepMatches
    OBVIOUS
  <1>1. ASSUME NEW f \in Fn, PushCallFrame(f)
        PROVE  Abstract!Push(f) \/ (outcome' \in {"overflow", "panic"} /\ UNCHANGED frames)
    BY <1>1, PushCallFrameStep
  <1>2. Pop => Abstract!Pop
    BY PopStep
  <1>3. ASSUME NEW n \in 0 .. NumSegments * FramesPerSegment, SetSp(n)
        PROVE  DropsSegment(n) \/ Abstract!SetSp(n)
    BY <1>3, SetSpStep
  <1>4. RemoveCallerFrame => Abstract!RemoveCallerFrame
    BY RemoveCallerFrameStep
  <1>5. FreeAll => Abstract!SetSp(0)
    BY FreeAllStep
  <1> QED
    BY <1>1, <1>2, <1>3, <1>4, <1>5 DEF StepMatches

LEMMA StepRefines == IInv /\ IInv' /\ [NextPopped]_vars => [Abstract!Next]_frames
  <1> SUFFICES ASSUME IInv, IInv', [NextPopped]_vars PROVE [Abstract!Next]_frames
    OBVIOUS
  <1> USE OperationsRefine DEF StepMatches
  <1>1. ASSUME NEW f \in Fn, PushCallFrame(f) PROVE [Abstract!Next]_frames
    BY <1>1 DEF Abstract!Next
  <1>2. CASE Pop
    BY <1>2 DEF Abstract!Next
  <1>3. ASSUME NEW n \in 0 .. NumSegments * FramesPerSegment, ~DropsSegment(n), SetSp(n)
        PROVE  [Abstract!Next]_frames
    BY <1>3 DEF Abstract!Next
  <1>4. CASE RemoveCallerFrame
    BY <1>4 DEF Abstract!Next
  <1>5. CASE FreeAll
    <2>1. 0 \in 0 .. NumSegments * FramesPerSegment
      BY Sizes
    <2> QED
      BY <1>5, <2>1 DEF Abstract!Next
  <1>6. CASE UNCHANGED vars
    BY <1>6 DEF vars, frames, InUse, At, Sp
  <1> QED
    BY <1>1, <1>2, <1>3, <1>4, <1>5, <1>6 DEF NextPopped

(* Whatever a program does, every operation but an unwinding that drops a
   segment does to the frames what the bounded stack's does. *)
THEOREM AutoOperationsMatch == Spec => OperationsMatch
  <1>1. Spec => []IInv
    BY AutoInvariant
  <1> QED
    BY <1>1, OperationsRefine, PTL DEF OperationsMatch

(* The segmented stack implements CallFrameStack as long as no unwinding is
   a DropsSegment one. *)
THEOREM AutoImplements == SpecPopped => IsCallFrameStack
  <1>1. Init => Abstract!Init
    <2> SUFFICES ASSUME Init PROVE frames = << >>
      BY DEF Abstract!Init
    <2>1. FramesPerSegment \in Nat
      BY Sizes
    <2> QED
      BY <2>1 DEF Init, frames, InUse, Sp
  <1>2. NextPopped => Next
    BY DEF NextPopped, Next, Unwind
  <1>3. SpecPopped => []IInv
    BY <1>2, InitIInv, NextIInv, PTL DEF SpecPopped
  <1> QED
    BY <1>1, <1>3, StepRefines, PTL DEF SpecPopped, IsCallFrameStack, Abstract!Spec
=============================================================================
