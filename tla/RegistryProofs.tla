---------------------------- MODULE RegistryProofs ----------------------------
(***************************************************************************)
(* For every size, growth step and limit of the registry and every shape   *)
(* of functions: the slots below the top are the registers, whatever       *)
(* resizing and failing half way does, the array stays within its bounds,  *)
(* and a program is only stopped by an overflow that the limit makes       *)
(* unavoidable.                                                            *)
(***************************************************************************)
EXTENDS Registry, SequenceTheorems, TLAPS

Slot == LuaValues \cup {Unset}

(* With the top at t the array a holds the registers row, and slots that may
   hold anything. *)
Represents(a, t, row) ==
  /\ a \in Seq(Slot)
  /\ t \in 0 .. Len(a)
  /\ row \in Seq(LuaValues)
  /\ Len(row) = t
  /\ \A i \in 1 .. t : a[i] = row[i]

(* The array never shrinks below its first size, which is why a refused size
   is beyond the limit even where RegistryMaxSize is 0. *)
Bounded(n, errors) == InitialSize <= n /\ n <= SizeLimit + errors

Inv ==
  /\ Represents(array, top, regs)
  /\ Bounded(Len(array), forced)
  /\ OverflowOnlyAtLimit
  /\ raising \in BOOLEAN
  /\ need \in Nat
  /\ forced \in 0 .. MaxErrors

USE RegistryAssumption

-----------------------------------------------------------------------------
(* Sequences. *)

LEMMA FunctionIsSeq ==
  ASSUME NEW S, NEW n \in Nat, NEW f \in [1 .. n -> S]
  PROVE  f \in Seq(S) /\ Len(f) = n
  OBVIOUS

LEMMA NilsFacts ==
  ASSUME NEW n \in Nat
  PROVE  /\ File!Nils(n) \in Seq(LuaValues)
         /\ Len(File!Nils(n)) = n
         /\ \A i \in 1 .. n : File!Nils(n)[i] = LNil
  <1>1. LNil \in LuaValues
    BY DEF LuaValues
  <1>2. File!Nils(n) \in [1 .. n -> LuaValues]
    BY <1>1 DEF File!Nils
  <1> QED
    BY <1>2, FunctionIsSeq DEF File!Nils

LEMMA LowerFacts ==
  ASSUME regs \in Seq(LuaValues), NEW m \in 0 .. Len(regs)
  PROVE  /\ File!Lower(m) \in Seq(LuaValues)
         /\ Len(File!Lower(m)) = m
         /\ \A i \in 1 .. m : File!Lower(m)[i] = regs[i]
  <1>1. \A i \in 1 .. m : regs[i] \in LuaValues
    OBVIOUS
  <1>2. /\ SubSeq(regs, 1, m) \in Seq(LuaValues)
        /\ Len(SubSeq(regs, 1, m)) = IF 1 <= m THEN m - 1 + 1 ELSE 0
        /\ \A i \in 1 .. m - 1 + 1 : SubSeq(regs, 1, m)[i] = regs[1 + i - 1]
    BY <1>1, SubSeqProperties
  <1> QED
    BY <1>2 DEF File!Lower

(* Registers up to m, and then those of another row. *)
LEMMA LowerWith ==
  ASSUME regs \in Seq(LuaValues), NEW m \in 0 .. Len(regs), NEW q \in Seq(LuaValues)
  PROVE  /\ File!Lower(m) \o q \in Seq(LuaValues)
         /\ Len(File!Lower(m) \o q) = m + Len(q)
         /\ \A i \in 1 .. m : (File!Lower(m) \o q)[i] = regs[i]
         /\ \A i \in 1 .. Len(q) : (File!Lower(m) \o q)[m + i] = q[i]
  <1> DEFINE l == File!Lower(m)
  <1>1. l \in Seq(LuaValues) /\ Len(l) = m /\ \A i \in 1 .. m : l[i] = regs[i]
    BY LowerFacts
  <1> HIDE DEF l
  <1>2. /\ l \o q \in Seq(LuaValues)
        /\ Len(l \o q) = m + Len(q)
        /\ \A i \in 1 .. m + Len(q) : (l \o q)[i] = IF i <= m THEN l[i] ELSE q[i - m]
    BY <1>1, ConcatProperties
  <1>3. Len(q) \in Nat /\ m \in Nat
    OBVIOUS
  <1>4. \A i \in 1 .. m : (l \o q)[i] = regs[i]
    BY <1>1, <1>2, <1>3
  <1>5. \A i \in 1 .. Len(q) : (l \o q)[m + i] = q[i]
    BY <1>2, <1>3
  <1> QED
    BY <1>2, <1>4, <1>5 DEF l

-----------------------------------------------------------------------------
(* Growth. *)

LEMMA PaddedFacts ==
  ASSUME NEW n \in Nat
  PROVE  /\ Padded(n) \in Nat /\ Padded(n) <= MaxSize
         /\ n > Padded(n) => n > MaxSize
  BY DEF Padded

LEMMA SizeLimitFacts ==
  /\ SizeLimit \in Nat /\ SizeLimit >= InitialSize /\ SizeLimit >= MaxSize
  /\ SizeLimit = InitialSize \/ SizeLimit = MaxSize
  BY DEF SizeLimit, File!AtLeast

LEMMA ForceResizeFacts ==
  ASSUME NEW a, NEW t, NEW row, Represents(a, t, row), NEW size \in Nat, size >= t
  PROVE  /\ Represents(forceResize(a, t, size), t, row)
         /\ Len(forceResize(a, t, size)) = size
  <1> DEFINE g == [i \in 1 .. size |-> IF i <= t THEN a[i] ELSE Unset]
  <1>1. /\ t \in Nat /\ row \in Seq(LuaValues) /\ Len(row) = t
        /\ \A i \in 1 .. t : a[i] = row[i]
        /\ \A i \in 1 .. t : row[i] \in LuaValues
    BY DEF Represents
  <1>2. g \in [1 .. size -> Slot]
    BY <1>1 DEF Slot
  <1>3. \A i \in 1 .. t : g[i] = row[i]
    BY <1>1
  <1> HIDE DEF g
  <1>4. g \in Seq(Slot) /\ Len(g) = size
    BY <1>2, FunctionIsSeq
  <1>5. forceResize(a, t, size) = g
    BY DEF forceResize, g
  <1> QED
    BY <1>1, <1>3, <1>4, <1>5 DEF Represents

(* checkSize keeps what is below the top, in an array that is large enough
   and no larger than the limit. *)
LEMMA CheckSizeFacts ==
  ASSUME NEW a, NEW t, NEW row, Represents(a, t, row), NEW n \in Nat, Provides(Len(a), n)
  PROVE  /\ Represents(checkSize(a, t, n), t, row)
         /\ Len(checkSize(a, t, n)) \in Nat
         /\ Len(checkSize(a, t, n)) >= n
         /\ Len(checkSize(a, t, n)) >= Len(a)
         /\ \A e \in Nat : Bounded(Len(a), e) => Bounded(Len(checkSize(a, t, n)), e)
  <1>1. Len(a) \in Nat /\ t \in Nat /\ t <= Len(a)
    BY DEF Represents
  <1>2. CASE n <= Len(a)
    BY <1>1, <1>2 DEF checkSize
  <1>3. CASE ~(n <= Len(a))
    <2>1. n <= Padded(n) /\ Padded(n) \in Nat /\ Padded(n) <= MaxSize
      BY <1>3, PaddedFacts DEF Provides
    <2>2. checkSize(a, t, n) = forceResize(a, t, Padded(n))
      BY <1>3 DEF checkSize
    <2>3. /\ Represents(checkSize(a, t, n), t, row)
          /\ Len(checkSize(a, t, n)) = Padded(n)
      BY <1>1, <1>3, <2>1, <2>2, ForceResizeFacts
    <2>4. Padded(n) >= Len(a) /\ Padded(n) >= n
      BY <1>1, <1>3, <2>1
    <2>5. \A e \in Nat : Bounded(Len(a), e) => Bounded(Padded(n), e)
      BY <1>1, <2>1, <2>4, SizeLimitFacts DEF Bounded
    <2> QED
      BY <2>1, <2>3, <2>4, <2>5
  <1> QED
    BY <1>2, <1>3

(* A refused size is beyond the limit. *)
LEMMA RefusedFacts ==
  ASSUME NEW size \in Nat, size >= InitialSize, NEW n \in Nat, ~Provides(size, n)
  PROVE  n > SizeLimit
  <1>1. n > size /\ n > Padded(n)
    BY PaddedFacts DEF Provides
  <1>2. n > MaxSize
    BY <1>1, PaddedFacts
  <1> QED
    BY <1>1, <1>2, SizeLimitFacts

(* raiseError pushes the message onto the registers. *)
LEMMA RaiseErrorFacts ==
  ASSUME NEW a, NEW t, NEW row, Represents(a, t, row), Bounded(Len(a), forced),
         forced \in 0 .. MaxErrors, raiseError(a, t), File!Fail(row)
  PROVE  /\ Represents(array', top', regs')
         /\ Bounded(Len(array'), forced')
         /\ raising' \in BOOLEAN
         /\ forced' \in 0 .. MaxErrors
  <1> DEFINE full == t >= Len(a)
             g == IF full THEN forceResize(a, t, t + 1) ELSE a
  <1>1. /\ Len(a) \in Nat /\ t \in Nat /\ t <= Len(a) /\ row \in Seq(LuaValues) /\ Len(row) = t
        /\ Message \in LuaValues /\ Message \in Slot
    BY DEF Represents, LuaValues, Slot
  <1>2. /\ full => forced < MaxErrors
        /\ array' = [g EXCEPT ![t + 1] = Message]
        /\ top' = t + 1
        /\ forced' = IF full THEN forced + 1 ELSE forced
        /\ raising' = TRUE
        /\ regs' = Append(row, Message)
    BY DEF raiseError, File!Fail
  <1>3. /\ Represents(g, t, row) /\ Len(g) \in Nat /\ Len(g) >= t + 1
        /\ Len(g) = IF full THEN Len(a) + 1 ELSE Len(a)
    <2>1. CASE full
      <3>1. t + 1 \in Nat /\ t + 1 >= t
        BY <1>1
      <3>2. Represents(forceResize(a, t, t + 1), t, row) /\ Len(forceResize(a, t, t + 1)) = t + 1
        BY <3>1, ForceResizeFacts
      <3> QED
        BY <1>1, <2>1, <3>2
    <2>2. CASE ~full
      BY <1>1, <2>2
    <2> QED
      BY <2>1, <2>2
  <1> HIDE DEF g
  <1>4. g \in Seq(Slot) /\ \A i \in 1 .. t : g[i] = row[i]
    BY <1>3 DEF Represents
  <1>5. /\ array' \in Seq(Slot) /\ Len(array') = Len(g)
        /\ \A i \in 1 .. Len(g) : array'[i] = IF i = t + 1 THEN Message ELSE g[i]
    <2>1. t + 1 \in 1 .. Len(g)
      BY <1>1, <1>3
    <2> QED
      BY <1>1, <1>2, <1>4, <2>1, ExceptSeq
  <1>6. /\ regs' \in Seq(LuaValues) /\ Len(regs') = t + 1
        /\ \A i \in 1 .. t : regs'[i] = row[i]
        /\ regs'[t + 1] = Message
    BY <1>1, <1>2, AppendProperties
  <1>7. \A i \in 1 .. t + 1 : array'[i] = regs'[i]
    <2> SUFFICES ASSUME NEW i \in 1 .. t + 1 PROVE array'[i] = regs'[i]
      OBVIOUS
    <2>1. CASE i = t + 1
      BY <1>1, <1>3, <1>5, <1>6, <2>1
    <2>2. CASE i \in 1 .. t
      BY <1>1, <1>3, <1>4, <1>5, <1>6, <2>2
    <2> QED
      BY <1>1, <2>1, <2>2
  <1>8. Represents(array', top', regs')
    BY <1>1, <1>2, <1>3, <1>5, <1>6, <1>7 DEF Represents
  <1>9. Bounded(Len(array'), forced')
    BY <1>1, <1>2, <1>3, <1>5, SizeLimitFacts DEF Bounded
  <1> QED
    BY <1>2, <1>8, <1>9

-----------------------------------------------------------------------------
(* What operations share. *)

LEMMA MakeRepresents ==
  ASSUME NEW size \in Nat, NEW a \in [1 .. size -> Slot], NEW t \in 0 .. size,
         NEW row \in Seq(LuaValues), Len(row) = t, \A i \in 1 .. t : a[i] = row[i]
  PROVE  Represents(a, t, row) /\ Len(a) = size
  BY FunctionIsSeq DEF Represents

LEMMA RepresentsFacts ==
  ASSUME NEW a, NEW t, NEW row, Represents(a, t, row)
  PROVE  /\ Len(a) \in Nat /\ t \in Nat /\ t <= Len(a)
         /\ \A i \in 1 .. Len(a) : a[i] \in Slot
         /\ \A i \in 1 .. t : row[i] \in LuaValues
  BY DEF Represents

(* A register row that SetTop(n) makes of the row. *)
IsWithTop(new, row, n) ==
  /\ new \in Seq(LuaValues)
  /\ Len(new) = n
  /\ \A i \in 1 .. n : new[i] = IF i <= Len(row) THEN row[i] ELSE LNil

LEMMA WithTopFacts ==
  ASSUME NEW a, NEW t, NEW row, Represents(a, t, row), NEW n \in 0 .. Len(a),
         NEW new, IsWithTop(new, row, n)
  PROVE  /\ Represents(WithTop(a, t, n), n, new)
         /\ Len(WithTop(a, t, n)) = Len(a)
  <1>1. /\ Len(a) \in Nat /\ t \in Nat /\ t <= Len(a) /\ Len(row) = t /\ n \in Nat
        /\ \A i \in 1 .. Len(a) : a[i] \in Slot
        /\ \A i \in 1 .. t : a[i] = row[i]
        /\ LNil \in Slot /\ Unset \in Slot
    BY RepresentsFacts DEF Represents, Slot, LuaValues
  <1> DEFINE b == [i \in 1 .. Len(a) |-> IF t < i /\ i <= n THEN LNil
                                         ELSE IF n < i /\ i <= t THEN Unset ELSE a[i]]
  <1>2. b \in [1 .. Len(a) -> Slot]
    BY <1>1
  <1>3. \A i \in 1 .. n : b[i] = new[i]
    BY <1>1 DEF IsWithTop
  <1>4. WithTop(a, t, n) = b
    BY DEF WithTop
  <1> HIDE DEF b
  <1> QED
    BY <1>1, <1>2, <1>3, <1>4, MakeRepresents DEF IsWithTop

LEMMA SetTopFacts ==
  ASSUME regs \in Seq(LuaValues), NEW n \in Nat, File!SetTop(n)
  PROVE  IsWithTop(regs', regs, n)
  <1>1. Len(regs) \in Nat
    OBVIOUS
  <1>2. CASE n <= Len(regs)
    <2>1. regs' = File!Lower(n)
      BY <1>2 DEF File!SetTop
    <2>2. n \in 0 .. Len(regs)
      BY <1>1, <1>2
    <2> QED
      BY <1>1, <1>2, <2>1, <2>2, LowerFacts DEF IsWithTop
  <1>3. CASE ~(n <= Len(regs))
    <2> DEFINE m == n - Len(regs)
               q == File!Nils(m)
    <2>1. regs' = regs \o q
      BY <1>3 DEF File!SetTop
    <2>2. m \in Nat
      BY <1>1, <1>3
    <2>3. q \in Seq(LuaValues) /\ Len(q) = m /\ \A i \in 1 .. m : q[i] = LNil
      BY <2>2, NilsFacts
    <2> HIDE DEF q
    <2>4. /\ regs \o q \in Seq(LuaValues)
          /\ Len(regs \o q) = Len(regs) + Len(q)
          /\ \A i \in 1 .. Len(regs) + Len(q) :
               (regs \o q)[i] = IF i <= Len(regs) THEN regs[i] ELSE q[i - Len(regs)]
      BY <2>3, ConcatProperties
    <2> QED
      BY <1>1, <1>3, <2>1, <2>3, <2>4 DEF IsWithTop
  <1> QED
    BY <1>2, <1>3

(* An operation that has found room keeps the invariant when its registers
   are still represented. *)
LEMMA StoresInv ==
  ASSUME Inv, Represents(array', top', regs'),
         \A e \in Nat : Bounded(Len(array), e) => Bounded(Len(array'), e),
         raising' \in BOOLEAN, UNCHANGED <<need, forced>>
  PROVE  Inv'
  <1>1. forced \in Nat /\ Bounded(Len(array), forced)
    BY DEF Inv
  <1>2. Bounded(Len(array'), forced')
    BY <1>1
  <1>3. OverflowOnlyAtLimit'
    BY DEF Inv, OverflowOnlyAtLimit, SizeLimit
  <1> QED
    BY <1>2, <1>3 DEF Inv, Bounded, SizeLimit

(* An operation that finds no room. *)
LEMMA OverflowInv ==
  ASSUME Inv, NEW a, NEW t, NEW row, Represents(a, t, row), Bounded(Len(a), forced),
         NEW n \in Nat, Overflow(a, t, n), File!Fail(row)
  PROVE  Inv'
  <1>1. /\ ~Provides(Len(a), n) /\ need' = n /\ raiseError(a, t)
        /\ forced \in 0 .. MaxErrors
    BY DEF Overflow, Inv
  <1>2. /\ Represents(array', top', regs')
        /\ Bounded(Len(array'), forced')
        /\ raising' \in BOOLEAN
        /\ forced' \in 0 .. MaxErrors
    BY <1>1, RaiseErrorFacts
  <1>3. n > SizeLimit
    <2>1. Len(a) \in Nat /\ Len(a) >= InitialSize
      BY RepresentsFacts DEF Bounded
    <2> QED
      BY <1>1, <2>1, RefusedFacts
  <1>4. need' > SizeLimit /\ need' \in Nat
    BY <1>1, <1>3
  <1> QED
    BY <1>2, <1>4 DEF Inv, OverflowOnlyAtLimit, Bounded, SizeLimit

LEMMA FailsInv ==
  ASSUME Inv, NEW n \in Nat, Fails(n)
  PROVE  Inv'
  <1>1. /\ Represents(array, top, regs) /\ Bounded(Len(array), forced)
        /\ Overflow(array, top, n) /\ File!Fail(regs)
    BY DEF Inv, Fails
  <1> QED
    BY <1>1, OverflowInv

(* What Grown(n) is when there is room. *)
LEMMA GrownFacts ==
  ASSUME Inv, NEW n \in Nat, Provides(Len(array), n)
  PROVE  /\ Represents(Grown(n), top, regs)
         /\ Len(Grown(n)) \in Nat
         /\ Len(Grown(n)) >= n /\ Len(Grown(n)) >= top
         /\ \A i \in 1 .. Len(Grown(n)) : Grown(n)[i] \in Slot
         /\ \A e \in Nat : Bounded(Len(array), e) => Bounded(Len(Grown(n)), e)
  <1>1. Represents(array, top, regs)
    BY DEF Inv
  <1>2. /\ Represents(Grown(n), top, regs)
        /\ Len(Grown(n)) \in Nat
        /\ Len(Grown(n)) >= n
        /\ \A e \in Nat : Bounded(Len(array), e) => Bounded(Len(Grown(n)), e)
    BY <1>1, CheckSizeFacts DEF Grown
  <1>3. /\ Len(Grown(n)) >= top
        /\ \A i \in 1 .. Len(Grown(n)) : Grown(n)[i] \in Slot
    BY <1>2, RepresentsFacts
  <1> QED
    BY <1>2, <1>3

LEMMA RegsFacts ==
  ASSUME Inv
  PROVE  /\ regs \in Seq(LuaValues) /\ Len(regs) = top /\ top \in Nat
         /\ Len(array) \in Nat /\ top <= Len(array)
         /\ \A i \in 1 .. top : array[i] = regs[i] /\ regs[i] \in LuaValues
         /\ LuaValues \subseteq Slot /\ LNil \in LuaValues /\ Unset \in Slot
  BY DEF Inv, Represents, Slot, LuaValues

-----------------------------------------------------------------------------
(* The operations. *)

LEMMA PushInv ==
  ASSUME Inv, NEW v \in LuaValues, Push(v)
  PROVE  Inv'
  <1>1. /\ regs \in Seq(LuaValues) /\ Len(regs) = top /\ top \in Nat
        /\ LuaValues \subseteq Slot
    BY RegsFacts
  <1>2. CASE Fails(top + 1)
    BY <1>1, <1>2, FailsInv
  <1>3. CASE Stores(top + 1, [Grown(top + 1) EXCEPT ![top + 1] = v], top + 1) /\ File!Push(v)
    <2> DEFINE g == Grown(top + 1)
    <2>1. /\ Provides(Len(array), top + 1) /\ array' = [g EXCEPT ![top + 1] = v]
          /\ top' = top + 1 /\ UNCHANGED <<raising, need, forced>>
          /\ regs' = Append(regs, v)
      BY <1>3 DEF Stores, File!Push
    <2>2. /\ Represents(g, top, regs) /\ Len(g) \in Nat /\ Len(g) >= top + 1
          /\ \A e \in Nat : Bounded(Len(array), e) => Bounded(Len(g), e)
      BY <1>1, <2>1, GrownFacts
    <2> HIDE DEF g
    <2>3. g \in Seq(Slot) /\ \A i \in 1 .. top : g[i] = regs[i]
      BY <2>2 DEF Represents
    <2>4. top + 1 \in 1 .. Len(g) /\ v \in Slot
      BY <1>1, <2>2
    <2>5. /\ array' \in Seq(Slot) /\ Len(array') = Len(g)
          /\ \A i \in 1 .. Len(g) : array'[i] = IF i = top + 1 THEN v ELSE g[i]
      BY <2>1, <2>3, <2>4, ExceptSeq
    <2>6. /\ regs' \in Seq(LuaValues) /\ Len(regs') = top + 1
          /\ \A i \in 1 .. top : regs'[i] = regs[i]
          /\ regs'[top + 1] = v
      BY <1>1, <2>1, AppendProperties
    <2>7. \A i \in 1 .. top + 1 : array'[i] = regs'[i]
      BY <1>1, <2>2, <2>3, <2>5, <2>6
    <2>8. Represents(array', top', regs')
      BY <1>1, <2>1, <2>2, <2>5, <2>6, <2>7 DEF Represents
    <2>9. /\ \A e \in Nat : Bounded(Len(array), e) => Bounded(Len(array'), e)
          /\ raising' \in BOOLEAN
      BY <2>1, <2>2, <2>5 DEF Inv
    <2> QED
      BY <2>1, <2>8, <2>9, StoresInv
  <1> QED
    BY <1>2, <1>3 DEF Push

LEMMA PopInv ==
  ASSUME Inv, Pop
  PROVE  Inv'
  <1>1. /\ regs \in Seq(LuaValues) /\ Len(regs) = top /\ top \in Nat /\ top > 0
        /\ Len(array) \in Nat /\ top <= Len(array) /\ array \in Seq(Slot)
        /\ \A i \in 1 .. top : array[i] = regs[i] /\ regs[i] \in LuaValues
        /\ LNil \in Slot
    BY RegsFacts DEF Pop, Inv, Represents
  <1>2. /\ array' = [array EXCEPT ![top] = LNil] /\ top' = top - 1
        /\ UNCHANGED <<raising, need, forced>> /\ regs' = File!Lower(top - 1)
    BY <1>1 DEF Pop, File!Pop
  <1>3. /\ array' \in Seq(Slot) /\ Len(array') = Len(array)
        /\ \A i \in 1 .. Len(array) : array'[i] = IF i = top THEN LNil ELSE array[i]
    BY <1>1, <1>2, ExceptSeq
  <1>4. top - 1 \in 0 .. Len(regs)
    BY <1>1
  <1>5. /\ regs' \in Seq(LuaValues) /\ Len(regs') = top - 1
        /\ \A i \in 1 .. top - 1 : regs'[i] = regs[i]
    BY <1>1, <1>2, <1>4, LowerFacts
  <1>6. \A i \in 1 .. top - 1 : array'[i] = regs'[i]
    BY <1>1, <1>3, <1>5
  <1>7. Represents(array', top', regs')
    BY <1>1, <1>2, <1>3, <1>5, <1>6 DEF Represents
  <1>8. /\ \A e \in Nat : Bounded(Len(array), e) => Bounded(Len(array'), e)
        /\ raising' \in BOOLEAN
    BY <1>2, <1>3 DEF Inv
  <1> QED
    BY <1>2, <1>7, <1>8, StoresInv

LEMMA SetTopInv ==
  ASSUME Inv, NEW n \in Nat, SetTop(n)
  PROVE  Inv'
  <1>1. CASE Fails(n)
    BY <1>1, FailsInv
  <1>2. CASE Stores(n, WithTop(Grown(n), top, n), n) /\ File!SetTop(n)
    <2>1. /\ Provides(Len(array), n) /\ array' = WithTop(Grown(n), top, n)
          /\ top' = n /\ UNCHANGED <<raising, need, forced>> /\ File!SetTop(n)
      BY <1>2 DEF Stores
    <2>2. /\ Represents(Grown(n), top, regs) /\ Len(Grown(n)) \in Nat /\ Len(Grown(n)) >= n
          /\ \A e \in Nat : Bounded(Len(array), e) => Bounded(Len(Grown(n)), e)
      BY <2>1, GrownFacts
    <2>3. IsWithTop(regs', regs, n)
      BY <2>1, RegsFacts, SetTopFacts
    <2>4. n \in 0 .. Len(Grown(n))
      BY <2>2
    <2>5. /\ Represents(array', top', regs')
          /\ Len(array') = Len(Grown(n))
      BY <2>1, <2>2, <2>3, <2>4, WithTopFacts
    <2>6. raising' \in BOOLEAN
      BY <2>1 DEF Inv
    <2> QED
      BY <2>1, <2>2, <2>5, <2>6, StoresInv
  <1> QED
    BY <1>1, <1>2 DEF SetTop

(* The array an operation makes of the grown one. *)
LEMMA MadeInv ==
  ASSUME Inv, NEW n \in Nat, Provides(Len(array), n),
         array' \in [1 .. Len(Grown(n)) -> Slot],
         top' \in 0 .. Len(Grown(n)),
         regs' \in Seq(LuaValues), Len(regs') = top',
         \A i \in 1 .. top' : array'[i] = regs'[i],
         UNCHANGED <<raising, need, forced>>
  PROVE  Inv'
  <1>1. /\ Len(Grown(n)) \in Nat
        /\ \A e \in Nat : Bounded(Len(array), e) => Bounded(Len(Grown(n)), e)
    BY GrownFacts
  <1>2. Represents(array', top', regs') /\ Len(array') = Len(Grown(n))
    BY <1>1, MakeRepresents
  <1>3. raising' \in BOOLEAN
    BY DEF Inv
  <1> QED
    BY <1>1, <1>2, <1>3, StoresInv

LEMMA SetInv ==
  ASSUME Inv, NEW r \in Nat \ {0}, NEW v \in LuaValues, Set(r, v)
  PROVE  Inv'
  <1>1. /\ regs \in Seq(LuaValues) /\ Len(regs) = top /\ top \in Nat
        /\ LuaValues \subseteq Slot /\ r <= top + 1
    BY RegsFacts DEF Set
  <1>2. CASE Fails(r)
    BY <1>2, FailsInv
  <1>3. CASE Stores(r, [Grown(r) EXCEPT ![r] = v], File!AtLeast(top, r)) /\ File!Set(r, v)
    <2> DEFINE g == Grown(r)
    <2>1. /\ Provides(Len(array), r) /\ array' = [g EXCEPT ![r] = v]
          /\ top' = File!AtLeast(top, r) /\ UNCHANGED <<raising, need, forced>>
          /\ regs' = IF r <= Len(regs) THEN [regs EXCEPT ![r] = v] ELSE Append(regs, v)
      BY <1>3 DEF Stores, File!Set
    <2>2. /\ Represents(g, top, regs) /\ Len(g) \in Nat /\ Len(g) >= r /\ Len(g) >= top
      BY <2>1, GrownFacts
    <2> HIDE DEF g
    <2>3. g \in Seq(Slot) /\ \A i \in 1 .. top : g[i] = regs[i]
      BY <2>2 DEF Represents
    <2>4. r \in 1 .. Len(g) /\ v \in Slot
      BY <1>1, <2>2
    <2>5. /\ array' \in Seq(Slot) /\ Len(array') = Len(g)
          /\ \A i \in 1 .. Len(g) : array'[i] = IF i = r THEN v ELSE g[i]
      BY <2>1, <2>3, <2>4, ExceptSeq
    <2>6. /\ regs' \in Seq(LuaValues) /\ Len(regs') = File!AtLeast(top, r)
          /\ \A i \in 1 .. Len(regs') : regs'[i] = IF i = r THEN v ELSE regs[i]
      <3>1. CASE r <= Len(regs)
        <4>1. r \in 1 .. Len(regs) /\ regs' = [regs EXCEPT ![r] = v]
          BY <1>1, <2>1, <3>1
        <4> QED
          BY <1>1, <3>1, <4>1, ExceptSeq DEF File!AtLeast
      <3>2. CASE ~(r <= Len(regs))
        <4>1. r = top + 1 /\ regs' = Append(regs, v)
          BY <1>1, <2>1, <3>2
        <4>2. /\ regs' \in Seq(LuaValues) /\ Len(regs') = top + 1
              /\ \A i \in 1 .. top : regs'[i] = regs[i]
              /\ regs'[top + 1] = v
          BY <1>1, <4>1, AppendProperties
        <4> QED
          BY <1>1, <4>1, <4>2 DEF File!AtLeast
      <3> QED
        BY <3>1, <3>2
    <2>7. top' \in Nat /\ top' <= Len(g) /\ (top' = top \/ top' = r) /\ top' >= top
      BY <1>1, <2>1, <2>2 DEF File!AtLeast
    <2>8. \A i \in 1 .. top' : array'[i] = regs'[i]
      <3> SUFFICES ASSUME NEW i \in 1 .. top' PROVE array'[i] = regs'[i]
        OBVIOUS
      <3>1. i \in 1 .. Len(g) /\ i \in 1 .. Len(regs') /\ (i # r => i \in 1 .. top)
        BY <1>1, <2>1, <2>2, <2>6, <2>7
      <3> QED
        BY <2>3, <2>5, <2>6, <3>1
    <2>9. array' \in [1 .. Len(g) -> Slot]
      BY <2>5, LenProperties
    <2> QED
      BY <1>1, <2>1, <2>6, <2>7, <2>8, <2>9, MadeInv DEF g
  <1> QED
    BY <1>2, <1>3 DEF Set

LEMMA InsertInv ==
  ASSUME Inv, NEW v \in LuaValues, NEW r \in Nat \ {0}, Insert(v, r)
  PROVE  Inv'
  <1>1. /\ regs \in Seq(LuaValues) /\ Len(regs) = top /\ top \in Nat /\ top <= Len(array)
        /\ \A i \in 1 .. top : array[i] = regs[i] /\ regs[i] \in LuaValues
        /\ LuaValues \subseteq Slot /\ r <= top
    BY RegsFacts DEF Insert
  <1>2. CASE Fails(top + 1)
    BY <1>1, <1>2, FailsInv
  <1>3. CASE ~Fails(top + 1)
    <2> DEFINE g == Grown(top + 1)
               made == [i \in 1 .. Len(g) |->
                          IF i < r THEN array[i] ELSE IF i = r THEN v
                          ELSE IF i <= top + 1 THEN array[i - 1] ELSE g[i]]
    <2>1. Stores(top + 1, made, top + 1) /\ File!Insert(v, r)
      BY <1>3 DEF Insert
    <2>2. /\ Provides(Len(array), top + 1) /\ array' = made /\ top' = top + 1
          /\ UNCHANGED <<raising, need, forced>>
      BY <2>1 DEF Stores
    <2>3. /\ Len(g) \in Nat /\ Len(g) >= top + 1
          /\ \A i \in 1 .. Len(g) : g[i] \in Slot
      BY <1>1, <2>2, GrownFacts
    <2> HIDE DEF g
    <2>4. array' \in [1 .. Len(g) -> Slot]
      <3> SUFFICES ASSUME NEW i \in 1 .. Len(g)
                   PROVE  (IF i < r THEN array[i] ELSE IF i = r THEN v
                           ELSE IF i <= top + 1 THEN array[i - 1] ELSE g[i]) \in Slot
        BY <2>2
      <3>1. /\ i < r => i \in 1 .. top
            /\ i > r /\ i <= top + 1 => i - 1 \in 1 .. top
        BY <1>1
      <3> QED
        BY <1>1, <2>3, <3>1
    <2> DEFINE upper == SubSeq(regs, r, Len(regs))
               mid == <<v>> \o upper
    <2>5. /\ upper \in Seq(LuaValues) /\ Len(upper) = top - r + 1
          /\ \A i \in 1 .. top - r + 1 : upper[i] = regs[r + i - 1]
      <3>1. \A i \in r .. Len(regs) : regs[i] \in LuaValues
        BY <1>1
      <3>2. r \in Int /\ Len(regs) \in Int /\ r <= Len(regs)
        BY <1>1
      <3>3. /\ upper \in Seq(LuaValues)
            /\ Len(upper) = IF r <= Len(regs) THEN Len(regs) - r + 1 ELSE 0
            /\ \A i \in 1 .. Len(regs) - r + 1 : upper[i] = regs[r + i - 1]
        BY <3>1, <3>2, SubSeqProperties
      <3> QED
        BY <1>1, <3>3
    <2> HIDE DEF upper
    <2>6. /\ mid \in Seq(LuaValues) /\ Len(mid) = top - r + 2
          /\ mid[1] = v
          /\ \A i \in 2 .. top - r + 2 : mid[i] = regs[r + i - 2]
      <3>1. /\ <<v>> \in Seq(LuaValues) /\ Len(<<v>>) = 1 /\ <<v>>[1] = v
        OBVIOUS
      <3>2. /\ mid \in Seq(LuaValues) /\ Len(mid) = 1 + Len(upper)
            /\ \A i \in 1 .. 1 + Len(upper) : mid[i] = IF i <= 1 THEN <<v>>[i] ELSE upper[i - 1]
        BY <2>5, <3>1, ConcatProperties
      <3>3. mid[1] = v /\ Len(mid) = top - r + 2
        BY <1>1, <2>5, <3>1, <3>2
      <3>4. \A i \in 2 .. top - r + 2 : mid[i] = regs[r + i - 2]
        <4> SUFFICES ASSUME NEW i \in 2 .. top - r + 2 PROVE mid[i] = regs[r + i - 2]
          OBVIOUS
        <4>1. i - 1 \in 1 .. top - r + 1 /\ i \in 1 .. 1 + Len(upper) /\ ~(i <= 1)
          BY <1>1, <2>5
        <4>2. mid[i] = upper[i - 1] /\ upper[i - 1] = regs[r + (i - 1) - 1]
          BY <2>5, <3>2, <4>1
        <4>3. r + (i - 1) - 1 = r + i - 2
          BY <1>1
        <4> QED
          BY <4>2, <4>3
      <3> QED
        BY <3>2, <3>3, <3>4
    <2>7. regs' = File!Lower(r - 1) \o mid
      <3>1. regs' = File!Lower(r - 1) \o <<v>> \o upper
        BY <2>1 DEF File!Insert, upper
      <3>2. /\ File!Lower(r - 1) \in Seq(LuaValues) /\ <<v>> \in Seq(LuaValues)
        BY <1>1, LowerFacts
      <3> QED
        BY <2>5, <3>1, <3>2, ConcatAssociative
    <2> HIDE DEF mid
    <2>8. /\ regs' \in Seq(LuaValues) /\ Len(regs') = top + 1
          /\ \A i \in 1 .. r - 1 : regs'[i] = regs[i]
          /\ \A i \in 1 .. top - r + 2 : regs'[r - 1 + i] = mid[i]
      <3>1. r - 1 \in 0 .. Len(regs)
        BY <1>1
      <3>2. /\ regs' \in Seq(LuaValues) /\ Len(regs') = (r - 1) + Len(mid)
            /\ \A i \in 1 .. r - 1 : regs'[i] = regs[i]
            /\ \A i \in 1 .. Len(mid) : regs'[r - 1 + i] = mid[i]
        BY <1>1, <2>6, <2>7, <3>1, LowerWith
      <3> QED
        BY <1>1, <2>6, <3>2
    <2>9. \A i \in 1 .. top + 1 : array'[i] = regs'[i]
      <3> SUFFICES ASSUME NEW i \in 1 .. top + 1 PROVE array'[i] = regs'[i]
        OBVIOUS
      <3>1. i \in 1 .. Len(g) /\ i <= top + 1
        BY <1>1, <2>3
      <3>2. CASE i < r
        BY <1>1, <2>2, <2>8, <3>1, <3>2
      <3>3. CASE i = r
        <4>1. 1 \in 1 .. top - r + 2 /\ r - 1 + 1 = i
          BY <1>1, <3>3
        <4> QED
          BY <2>2, <2>6, <2>8, <3>1, <3>3, <4>1
      <3>4. CASE i > r
        <4>1. /\ i - r + 1 \in 2 .. top - r + 2 /\ i - r + 1 \in 1 .. top - r + 2
              /\ r - 1 + (i - r + 1) = i /\ r + (i - r + 1) - 2 = i - 1 /\ i - 1 \in 1 .. top
          BY <1>1, <3>1, <3>4
        <4>2. regs'[i] = mid[i - r + 1] /\ mid[i - r + 1] = regs[i - 1]
          BY <2>6, <2>8, <4>1
        <4>3. array'[i] = array[i - 1]
          BY <1>1, <2>2, <3>1, <3>4
        <4> QED
          BY <1>1, <4>1, <4>2, <4>3
      <3> QED
        BY <1>1, <3>2, <3>3, <3>4
    <2>10. top' \in 0 .. Len(g) /\ Len(regs') = top' /\ top + 1 \in Nat
      BY <1>1, <2>2, <2>3, <2>8
    <2> QED
      BY <2>2, <2>4, <2>8, <2>9, <2>10, MadeInv DEF g
  <1> QED
    BY <1>2, <1>3

LEMMA FillNilInv ==
  ASSUME Inv, NEW m \in Nat, NEW n \in Nat, FillNil(m, n)
  PROVE  Inv'
  <1>1. /\ regs \in Seq(LuaValues) /\ Len(regs) = top /\ top \in Nat
        /\ LuaValues \subseteq Slot /\ LNil \in LuaValues /\ Unset \in Slot /\ m <= top
    BY RegsFacts DEF FillNil
  <1>2. CASE Fails(m + n)
    BY <1>2, FailsInv
  <1>3. CASE ~Fails(m + n)
    <2> DEFINE g == Grown(m + n)
               made == [i \in 1 .. Len(g) |->
                          IF m < i /\ i <= m + n THEN LNil
                          ELSE IF m + n < i /\ i <= top THEN Unset ELSE g[i]]
    <2>1. Stores(m + n, made, m + n) /\ File!FillNil(m, n)
      BY <1>3 DEF FillNil
    <2>2. /\ Provides(Len(array), m + n) /\ array' = made /\ top' = m + n
          /\ UNCHANGED <<raising, need, forced>>
          /\ regs' = File!Lower(m) \o File!Nils(n)
      BY <2>1 DEF Stores, File!FillNil
    <2>3. /\ Len(g) \in Nat /\ Len(g) >= m + n
          /\ \A i \in 1 .. Len(g) : g[i] \in Slot
          /\ \A i \in 1 .. top : g[i] = regs[i]
      BY <2>2, GrownFacts DEF Represents
    <2> HIDE DEF g
    <2>4. array' \in [1 .. Len(g) -> Slot]
      BY <1>1, <2>2, <2>3
    <2>5. /\ regs' \in Seq(LuaValues) /\ Len(regs') = m + n
          /\ \A i \in 1 .. m : regs'[i] = regs[i]
          /\ \A i \in 1 .. n : regs'[m + i] = LNil
      <3>1. /\ File!Nils(n) \in Seq(LuaValues) /\ Len(File!Nils(n)) = n
            /\ \A i \in 1 .. n : File!Nils(n)[i] = LNil
        BY NilsFacts
      <3>2. m \in 0 .. Len(regs)
        BY <1>1
      <3>3. /\ regs' \in Seq(LuaValues) /\ Len(regs') = m + Len(File!Nils(n))
            /\ \A i \in 1 .. m : regs'[i] = regs[i]
            /\ \A i \in 1 .. Len(File!Nils(n)) : regs'[m + i] = File!Nils(n)[i]
        BY <1>1, <2>2, <3>1, <3>2, LowerWith
      <3> QED
        BY <3>1, <3>3
    <2>6. \A i \in 1 .. m + n : array'[i] = regs'[i]
      <3> SUFFICES ASSUME NEW i \in 1 .. m + n PROVE array'[i] = regs'[i]
        OBVIOUS
      <3>1. CASE i <= m
        BY <1>1, <2>2, <2>3, <2>5, <3>1
      <3>2. CASE i > m
        <4>1. i - m \in 1 .. n /\ m + (i - m) = i
          BY <3>2
        <4>2. regs'[i] = LNil
          BY <2>5, <4>1
        <4>3. array'[i] = LNil
          BY <2>2, <2>3, <3>2
        <4> QED
          BY <4>2, <4>3
      <3> QED
        BY <3>1, <3>2
    <2>7. top' \in 0 .. Len(g) /\ Len(regs') = top' /\ m + n \in Nat
      BY <2>2, <2>3, <2>5
    <2> QED
      BY <2>2, <2>4, <2>5, <2>6, <2>7, MadeInv DEF g
  <1> QED
    BY <1>2, <1>3

LEMMA CopyRangeInv ==
  ASSUME Inv, NEW to \in Nat, NEW start \in Nat, NEW limit \in Nat, NEW n \in Nat,
         CopyRange(to, start, limit, n)
  PROVE  Inv'
  <1>1. /\ regs \in Seq(LuaValues) /\ Len(regs) = top /\ top \in Nat
        /\ \A i \in 1 .. top : regs[i] \in LuaValues
        /\ LuaValues \subseteq Slot /\ LNil \in LuaValues /\ Unset \in Slot
        /\ to <= top /\ limit <= top
    BY RegsFacts DEF CopyRange
  <1>2. CASE Fails(to + n)
    BY <1>2, FailsInv
  <1>3. CASE ~Fails(to + n)
    <2> DEFINE g == Grown(to + n)
               moved == [i \in 1 .. n |-> IF start + i <= limit THEN regs[start + i] ELSE LNil]
    <2>1. Stores(to + n, Copied(g, to, start, limit, n), to + n) /\ File!Move(to, start, limit, n)
      BY <1>3 DEF CopyRange
    <2>2. /\ Provides(Len(array), to + n) /\ top' = to + n
          /\ array' = Copied(g, to, start, limit, n)
          /\ UNCHANGED <<raising, need, forced>>
          /\ regs' = File!Lower(to) \o moved
      BY <2>1 DEF Stores, File!Move
    <2>3. /\ Len(g) \in Nat /\ Len(g) >= to + n /\ Len(g) >= top
          /\ \A i \in 1 .. Len(g) : g[i] \in Slot
          /\ \A i \in 1 .. top : g[i] = regs[i]
      BY <2>2, GrownFacts DEF Represents
    <2> HIDE DEF g
    <2>4. array' = [i \in 1 .. Len(g) |->
                      IF to < i /\ i <= to + n
                      THEN IF start + i - to <= limit THEN g[start + i - to] ELSE LNil
                      ELSE IF to + n < i /\ i <= top THEN Unset ELSE g[i]]
      BY <2>2 DEF Copied
    <2>5. array' \in [1 .. Len(g) -> Slot]
      <3> SUFFICES ASSUME NEW i \in 1 .. Len(g)
                   PROVE  (IF to < i /\ i <= to + n
                           THEN IF start + i - to <= limit THEN g[start + i - to] ELSE LNil
                           ELSE IF to + n < i /\ i <= top THEN Unset ELSE g[i]) \in Slot
        BY <2>4
      <3>1. to < i /\ start + i - to <= limit => start + i - to \in 1 .. Len(g)
        BY <1>1, <2>3
      <3> QED
        BY <1>1, <2>3, <3>1
    <2>6. /\ moved \in Seq(LuaValues) /\ Len(moved) = n
      <3>1. \A i \in 1 .. n : start + i <= limit => start + i \in 1 .. top
        BY <1>1
      <3>2. moved \in [1 .. n -> LuaValues]
        BY <1>1, <3>1
      <3> QED
        BY <3>2, FunctionIsSeq
    <2>7. \A i \in 1 .. n : moved[i] = IF start + i <= limit THEN regs[start + i] ELSE LNil
      OBVIOUS
    <2> HIDE DEF moved
    <2>8. /\ regs' \in Seq(LuaValues) /\ Len(regs') = to + n
          /\ \A i \in 1 .. to : regs'[i] = regs[i]
          /\ \A i \in 1 .. n : regs'[to + i] = moved[i]
      <3>1. to \in 0 .. Len(regs)
        BY <1>1
      <3> QED
        BY <1>1, <2>2, <2>6, <3>1, LowerWith
    <2>9. \A i \in 1 .. to + n : array'[i] = regs'[i]
      <3> SUFFICES ASSUME NEW i \in 1 .. to + n PROVE array'[i] = regs'[i]
        OBVIOUS
      <3>1. CASE i <= to
        BY <1>1, <2>3, <2>4, <2>8, <3>1
      <3>2. CASE i > to
        <4>1. i - to \in 1 .. n /\ to + (i - to) = i /\ start + (i - to) = start + i - to
          BY <3>2
        <4>2. regs'[i] = IF start + i - to <= limit THEN regs[start + i - to] ELSE LNil
          BY <2>7, <2>8, <4>1
        <4>3. array'[i] = IF start + i - to <= limit THEN g[start + i - to] ELSE LNil
          BY <2>3, <2>4, <3>2
        <4>4. start + i - to <= limit => start + i - to \in 1 .. top
          BY <1>1, <3>2
        <4> QED
          BY <2>3, <4>2, <4>3, <4>4
      <3> QED
        BY <3>1, <3>2
    <2>10. top' \in 0 .. Len(g) /\ Len(regs') = top' /\ to + n \in Nat
      BY <2>2, <2>3, <2>8
    <2> QED
      BY <2>2, <2>5, <2>8, <2>9, <2>10, MadeInv DEF g
  <1> QED
    BY <1>2, <1>3

-----------------------------------------------------------------------------
(* Starting a Lua function f above lb with nargs arguments, step by step. *)

Given(f, nargs) == File!AtLeast(nargs, f.params)
ArgOf(lb, nargs, i) == IF i <= nargs THEN regs[lb + i] ELSE LNil

(* Where the parameters of a vararg function end. *)
Moved(f, lb, nargs) == lb + Given(f, nargs) + f.params

LEMMA FunctionFacts ==
  ASSUME NEW f \in Functions, NEW nargs \in Nat
  PROVE  /\ f.params \in Nat /\ f.used \in Nat /\ f.params <= f.used
         /\ f.vararg \in {"no", "dots", "arg"}
         /\ f.vararg # "no" => f.params + 1 <= f.used
         /\ Given(f, nargs) \in Nat /\ Given(f, nargs) >= nargs /\ Given(f, nargs) >= f.params
         /\ Given(f, nargs) = nargs \/ (Given(f, nargs) = f.params /\ nargs < f.params)
  <1>1. /\ f.params \in Nat /\ f.used \in Nat /\ f.vararg \in {"no", "dots", "arg"}
    BY DEF Shapes
  <1>2. f.params + (IF f.vararg = "no" THEN 0 ELSE 1) <= f.used
    OBVIOUS
  <1> QED
    BY <1>1, <1>2 DEF Given, File!AtLeast

LEMMA KeptFacts ==
  ASSUME NEW f \in Functions, NEW nargs \in Nat
  PROVE  File!Kept(f, nargs) = IF f.vararg = "no" THEN 0 ELSE Given(f, nargs)
  BY DEF File!Kept, Given

(* The registers of the function that has been started. *)
LEMMA EnteredFacts ==
  ASSUME Inv, NEW f \in Functions, NEW lb \in Nat, NEW nargs \in Nat, lb + nargs <= top,
         NEW kept, kept = File!Kept(f, nargs)
  PROVE  LET row == File!Entered(f, lb, nargs)
         IN  /\ row \in Seq(LuaValues)
             /\ kept \in Nat
             /\ Len(row) = lb + (kept + f.used)
             /\ \A i \in 1 .. lb : row[i] = regs[i]
             /\ \A i \in 1 .. kept + f.used :
                  row[lb + i] =
                    IF i <= kept THEN IF i <= f.params THEN LNil ELSE ArgOf(lb, nargs, i)
                    ELSE IF i <= kept + f.params THEN ArgOf(lb, nargs, i - kept)
                    ELSE IF f.vararg = "arg" /\ i = kept + f.params + 1 THEN ArgTable
                    ELSE LNil
  <1> DEFINE value(i) == IF i <= kept THEN IF i <= f.params THEN LNil ELSE ArgOf(lb, nargs, i)
                         ELSE IF i <= kept + f.params THEN ArgOf(lb, nargs, i - kept)
                         ELSE IF f.vararg = "arg" /\ i = kept + f.params + 1 THEN ArgTable
                         ELSE LNil
             upper == [i \in 1 .. kept + f.used |-> value(i)]
  <1>1. /\ regs \in Seq(LuaValues) /\ Len(regs) = top /\ top \in Nat
        /\ \A i \in 1 .. top : regs[i] \in LuaValues
        /\ LNil \in LuaValues /\ ArgTable \in LuaValues
    BY RegsFacts DEF LuaValues
  <1>2. kept \in Nat /\ f.params \in Nat /\ f.used \in Nat
    BY FunctionFacts, KeptFacts
  <1>3. \A i \in Nat \ {0} : ArgOf(lb, nargs, i) \in LuaValues
    <2> SUFFICES ASSUME NEW i \in Nat \ {0} PROVE ArgOf(lb, nargs, i) \in LuaValues
      OBVIOUS
    <2>1. i <= nargs => lb + i \in 1 .. top
      BY <1>1
    <2> QED
      BY <1>1, <2>1 DEF ArgOf
  <1>4. upper \in [1 .. kept + f.used -> LuaValues]
    <2> SUFFICES ASSUME NEW i \in 1 .. kept + f.used PROVE value(i) \in LuaValues
      OBVIOUS
    <2>1. i \in Nat \ {0} /\ (~(i <= kept) => i - kept \in Nat \ {0})
      BY <1>2
    <2> QED
      BY <1>1, <1>3, <2>1
  <1>5. \A i \in 1 .. kept + f.used : upper[i] = value(i)
    OBVIOUS
  <1>6. File!Entered(f, lb, nargs) = File!Lower(lb) \o upper
    BY DEF File!Entered, ArgOf
  <1> HIDE DEF upper, value
  <1>7. kept + f.used \in Nat
    BY <1>2
  <1>8. upper \in Seq(LuaValues) /\ Len(upper) = kept + f.used
    BY <1>4, <1>7, FunctionIsSeq
  <1>9. lb \in 0 .. Len(regs)
    BY <1>1
  <1> DEFINE row == File!Entered(f, lb, nargs)
  <1>10. /\ row \in Seq(LuaValues)
         /\ Len(row) = lb + Len(upper)
         /\ \A i \in 1 .. lb : row[i] = regs[i]
         /\ \A i \in 1 .. Len(upper) : row[lb + i] = upper[i]
    <2>1. regs \in Seq(LuaValues) /\ upper \in Seq(LuaValues)
      BY <1>1, <1>8
    <2>2. /\ File!Lower(lb) \o upper \in Seq(LuaValues)
          /\ Len(File!Lower(lb) \o upper) = lb + Len(upper)
          /\ \A i \in 1 .. lb : (File!Lower(lb) \o upper)[i] = regs[i]
          /\ \A i \in 1 .. Len(upper) : (File!Lower(lb) \o upper)[lb + i] = upper[i]
      BY <1>9, <2>1, LowerWith
    <2> QED
      BY <1>6, <2>2
  <1> HIDE DEF row
  <1>11. /\ Len(row) = lb + (kept + f.used)
         /\ \A i \in 1 .. kept + f.used : row[lb + i] = value(i)
    BY <1>5, <1>8, <1>10
  <1> QED
    BY <1>2, <1>10, <1>11 DEF value, row

(* Those after missing arguments have been supplied. *)
SuppliedRow(f, lb, nargs) ==
  IF nargs < f.params THEN File!Lower(lb + nargs) \o File!Nils(f.params - nargs) ELSE regs

LEMMA SuppliedRowFacts ==
  ASSUME Inv, NEW f \in Functions, NEW lb \in Nat, NEW nargs \in Nat, lb + nargs <= top
  PROVE  LET row == SuppliedRow(f, lb, nargs)
         IN  /\ row \in Seq(LuaValues)
             /\ Len(row) = IF nargs < f.params THEN lb + f.params ELSE top
             /\ Len(row) >= lb + nargs /\ Len(row) >= lb + f.params
             /\ \A i \in 1 .. lb + nargs : row[i] = regs[i]
             /\ \A i \in lb + nargs + 1 .. lb + f.params : row[i] = LNil
  <1>1. /\ regs \in Seq(LuaValues) /\ Len(regs) = top /\ top \in Nat /\ f.params \in Nat
    BY RegsFacts, FunctionFacts
  <1>2. CASE nargs < f.params
    <2> DEFINE q == File!Nils(f.params - nargs)
               row == File!Lower(lb + nargs) \o q
    <2>1. /\ q \in Seq(LuaValues) /\ Len(q) = f.params - nargs
          /\ \A i \in 1 .. f.params - nargs : q[i] = LNil
      <3>1. f.params - nargs \in Nat
        BY <1>1, <1>2
      <3> QED
        BY <3>1, NilsFacts
    <2>2. SuppliedRow(f, lb, nargs) = row
      BY <1>2 DEF SuppliedRow
    <2>3. lb + nargs \in 0 .. Len(regs)
      BY <1>1
    <2> HIDE DEF q
    <2>4. /\ row \in Seq(LuaValues)
          /\ Len(row) = lb + nargs + Len(q)
          /\ \A i \in 1 .. lb + nargs : row[i] = regs[i]
          /\ \A i \in 1 .. Len(q) : row[lb + nargs + i] = q[i]
      BY <1>1, <2>1, <2>3, LowerWith
    <2> HIDE DEF row
    <2>5. Len(row) = lb + f.params
      BY <1>1, <2>1, <2>4
    <2>6. ASSUME NEW i \in lb + nargs + 1 .. lb + f.params
          PROVE  row[i] = LNil
      <3>1. /\ i - (lb + nargs) \in 1 .. f.params - nargs
            /\ lb + nargs + (i - (lb + nargs)) = i
        BY <1>1
      <3> QED
        BY <2>1, <2>4, <3>1
    <2> QED
      BY <1>1, <1>2, <2>2, <2>4, <2>5, <2>6
  <1>3. CASE ~(nargs < f.params)
    <2>1. SuppliedRow(f, lb, nargs) = regs
      BY <1>3 DEF SuppliedRow
    <2>2. lb + f.params <= lb + nargs
      BY <1>1, <1>3
    <2> QED
      BY <1>1, <1>3, <2>1, <2>2
  <1> QED
    BY <1>2, <1>3

LEMMA StageFacts ==
  ASSUME NEW f, NEW lb, NEW nargs, f.vararg # "no"
  PROVE  LET stage == File!Stage(f, lb, nargs)
             row == File!Entered(f, lb, nargs)
         IN  /\ stage[3] = SubSeq(row, 1, Moved(f, lb, nargs))
             /\ stage[4] = SubSeq(row, 1, Moved(f, lb, nargs) + 1)
  BY DEF File!Stage, Moved, Given, File!Kept

LEMMA FirstStages ==
  ASSUME NEW f, NEW lb, NEW nargs
  PROVE  /\ File!Stage(f, lb, nargs)[1] = regs
         /\ File!Stage(f, lb, nargs)[2] = SuppliedRow(f, lb, nargs)
  BY DEF File!Stage, SuppliedRow

(* The registry, half way, when its registers are those of the row. *)
StepHolds(rg, row) ==
  /\ Represents(rg.array, rg.top, row)
  /\ \A e \in Nat : Bounded(Len(array), e) => Bounded(Len(rg.array), e)

Sized(rg, n) == [array |-> checkSize(rg.array, rg.top, n), top |-> rg.top]

LEMMA SizedFacts ==
  ASSUME NEW rg, NEW row, StepHolds(rg, row), NEW n \in Nat, Provides(Len(rg.array), n)
  PROVE  /\ StepHolds(Sized(rg, n), row)
         /\ Len(Sized(rg, n).array) \in Nat
         /\ Len(Sized(rg, n).array) >= n
  <1>1. Represents(rg.array, rg.top, row)
    BY DEF StepHolds
  <1>2. /\ Sized(rg, n).array = checkSize(rg.array, rg.top, n)
        /\ Sized(rg, n).top = rg.top
    BY DEF Sized
  <1>3. /\ Represents(checkSize(rg.array, rg.top, n), rg.top, row)
        /\ Len(checkSize(rg.array, rg.top, n)) \in Nat
        /\ Len(checkSize(rg.array, rg.top, n)) >= n
        /\ \A e \in Nat : Bounded(Len(rg.array), e) => Bounded(Len(checkSize(rg.array, rg.top, n)), e)
    BY <1>1, CheckSizeFacts
  <1> QED
    BY <1>2, <1>3 DEF StepHolds

(* What a step that has its room makes of the array. *)
LEMMA StepMade ==
  ASSUME NEW rg, NEW row, StepHolds(rg, row),
         NEW new, new.array \in [1 .. Len(rg.array) -> Slot], new.top \in 0 .. Len(rg.array),
         NEW made \in Seq(LuaValues), Len(made) = new.top,
         \A i \in 1 .. new.top : new.array[i] = made[i]
  PROVE  StepHolds(new, made)
  <1>1. Len(rg.array) \in Nat
    BY RepresentsFacts DEF StepHolds
  <1>2. Represents(new.array, new.top, made) /\ Len(new.array) = Len(rg.array)
    BY <1>1, MakeRepresents
  <1> QED
    BY <1>2 DEF StepHolds

LEMMA StepFacts ==
  ASSUME NEW rg, NEW row, StepHolds(rg, row)
  PROVE  /\ Len(rg.array) \in Nat /\ rg.top \in Nat /\ rg.top <= Len(rg.array)
         /\ Len(row) = rg.top
         /\ \A i \in 1 .. Len(rg.array) : rg.array[i] \in Slot
         /\ \A i \in 1 .. rg.top : rg.array[i] = row[i]
         /\ LNil \in Slot /\ Unset \in Slot /\ LuaValues \subseteq Slot
  BY RepresentsFacts DEF StepHolds, Represents, Slot, LuaValues

LEMMA SuppliedHolds ==
  ASSUME Inv, NEW f \in Functions, NEW lb \in Nat, NEW nargs \in Nat, lb + nargs <= top,
         NEW rg, StepHolds(rg, regs),
         nargs < f.params => Len(rg.array) >= lb + f.params
  PROVE  StepHolds(Supplied(rg, lb, nargs, f.params), SuppliedRow(f, lb, nargs))
  <1> DEFINE row == SuppliedRow(f, lb, nargs)
             made == [i \in DOMAIN rg.array |->
                        IF lb + nargs < i /\ i <= lb + f.params THEN LNil ELSE rg.array[i]]
             new == Supplied(rg, lb, nargs, f.params)
  <1>1. /\ Len(rg.array) \in Nat /\ rg.top = top /\ top \in Nat /\ top <= Len(rg.array)
        /\ \A i \in 1 .. Len(rg.array) : rg.array[i] \in Slot
        /\ \A i \in 1 .. top : rg.array[i] = regs[i]
        /\ LNil \in Slot /\ f.params \in Nat
    <2>1. /\ Len(rg.array) \in Nat /\ rg.top <= Len(rg.array) /\ Len(regs) = rg.top
          /\ \A i \in 1 .. Len(rg.array) : rg.array[i] \in Slot
          /\ \A i \in 1 .. rg.top : rg.array[i] = regs[i]
          /\ LNil \in Slot
      BY StepFacts
    <2>2. Len(regs) = top /\ top \in Nat
      BY RegsFacts
    <2>3. f.params \in Nat
      BY FunctionFacts
    <2> QED
      BY <2>1, <2>2, <2>3
  <1>2. DOMAIN rg.array = 1 .. Len(rg.array)
    BY LenProperties DEF StepHolds, Represents
  <1>3. /\ row \in Seq(LuaValues)
        /\ Len(row) = IF nargs < f.params THEN lb + f.params ELSE top
        /\ \A i \in 1 .. lb + nargs : row[i] = regs[i]
        /\ \A i \in lb + nargs + 1 .. lb + f.params : row[i] = LNil
        /\ ~(nargs < f.params) => row = regs
    BY SuppliedRowFacts DEF SuppliedRow
  <1>4. new.array = made /\ new.top = IF nargs < f.params THEN lb + f.params ELSE top
    BY <1>1 DEF Supplied
  <1> HIDE DEF row, new
  <1>5. new.array \in [1 .. Len(rg.array) -> Slot]
    <2>1. made \in [1 .. Len(rg.array) -> Slot]
      BY <1>1, <1>2
    <2> QED
      BY <1>4, <2>1
  <1>6. \A i \in 1 .. new.top : new.array[i] = row[i]
    <2> SUFFICES ASSUME NEW i \in 1 .. new.top PROVE new.array[i] = row[i]
      OBVIOUS
    <2>1. i \in 1 .. Len(rg.array)
      BY <1>1, <1>4
    <2>2. CASE nargs < f.params
      <3>1. CASE i <= lb + nargs
        <4>1. i \in 1 .. lb + nargs /\ i \in 1 .. top
          BY <1>1, <3>1
        <4>2. new.array[i] = rg.array[i]
          BY <1>1, <1>2, <1>4, <2>1, <3>1
        <4> QED
          BY <1>1, <1>3, <4>1, <4>2
      <3>2. CASE ~(i <= lb + nargs)
        <4>1. i \in lb + nargs + 1 .. lb + f.params
          BY <1>1, <1>4, <2>2, <3>2
        <4>2. new.array[i] = LNil
          BY <1>1, <1>2, <1>4, <2>1, <4>1
        <4> QED
          BY <1>3, <4>1, <4>2
      <3> QED
        BY <3>1, <3>2
    <2>3. CASE ~(nargs < f.params)
      <3>1. ~(lb + nargs < i /\ i <= lb + f.params) /\ i \in 1 .. top
        BY <1>1, <1>4, <2>3
      <3>2. new.array[i] = rg.array[i]
        BY <1>2, <1>4, <2>1, <3>1
      <3> QED
        BY <1>1, <1>3, <2>3, <3>1, <3>2
    <2> QED
      BY <2>2, <2>3
  <1>7. new.top \in 0 .. Len(rg.array) /\ Len(row) = new.top
    BY <1>1, <1>3, <1>4
  <1>8. StepHolds(new, row)
    BY <1>3, <1>5, <1>6, <1>7, StepMade
  <1> QED
    BY <1>8 DEF new, row

(* The last step of a function that takes no extra arguments. *)
LEMMA EmptiedHolds ==
  ASSUME Inv, NEW f \in Functions, NEW lb \in Nat, NEW nargs \in Nat, lb + nargs <= top,
         f.vararg = "no", NEW high \in Nat, high >= lb + f.used,
         NEW rg, StepHolds(rg, SuppliedRow(f, lb, nargs)), Len(rg.array) >= high
  PROVE  StepHolds(Emptied(rg, lb + f.params, high, lb + f.used), File!Entered(f, lb, nargs))
  <1> DEFINE row == SuppliedRow(f, lb, nargs)
             entered == File!Entered(f, lb, nargs)
             low == lb + f.params
             made == [i \in DOMAIN rg.array |->
                        IF low < i /\ i <= high THEN LNil ELSE rg.array[i]]
             new == Emptied(rg, low, high, lb + f.used)
  <1>1. /\ Len(rg.array) \in Nat /\ rg.top <= Len(rg.array) /\ Len(row) = rg.top /\ rg.top \in Nat
        /\ \A i \in 1 .. Len(rg.array) : rg.array[i] \in Slot
        /\ \A i \in 1 .. rg.top : rg.array[i] = row[i]
        /\ LNil \in Slot /\ f.params \in Nat /\ f.used \in Nat /\ f.params <= f.used
    <2>1. /\ Len(rg.array) \in Nat /\ rg.top <= Len(rg.array) /\ Len(row) = rg.top /\ rg.top \in Nat
          /\ \A i \in 1 .. Len(rg.array) : rg.array[i] \in Slot
          /\ \A i \in 1 .. rg.top : rg.array[i] = row[i]
          /\ LNil \in Slot
      BY StepFacts
    <2>2. f.params \in Nat /\ f.used \in Nat /\ f.params <= f.used
      BY FunctionFacts
    <2> QED
      BY <2>1, <2>2
  <1>2. DOMAIN rg.array = 1 .. Len(rg.array)
    BY LenProperties DEF StepHolds, Represents
  <1>3. /\ Len(row) >= lb + f.params
        /\ \A i \in 1 .. lb + nargs : row[i] = regs[i]
        /\ \A i \in lb + nargs + 1 .. lb + f.params : row[i] = LNil
    BY SuppliedRowFacts
  <1>4. /\ entered \in Seq(LuaValues)
        /\ Len(entered) = lb + f.used
        /\ \A i \in 1 .. lb : entered[i] = regs[i]
        /\ \A i \in 1 .. f.used :
             entered[lb + i] = IF i <= f.params THEN ArgOf(lb, nargs, i) ELSE LNil
    <2> DEFINE kept == File!Kept(f, nargs)
    <2>1. kept = 0
      BY KeptFacts
    <2> HIDE DEF kept
    <2>2. /\ entered \in Seq(LuaValues)
          /\ Len(entered) = lb + (kept + f.used)
          /\ \A i \in 1 .. lb : entered[i] = regs[i]
          /\ \A i \in 1 .. kept + f.used :
               entered[lb + i] =
                 IF i <= kept THEN IF i <= f.params THEN LNil ELSE ArgOf(lb, nargs, i)
                 ELSE IF i <= kept + f.params THEN ArgOf(lb, nargs, i - kept)
                 ELSE IF f.vararg = "arg" /\ i = kept + f.params + 1 THEN ArgTable
                 ELSE LNil
      BY EnteredFacts DEF kept
    <2> HIDE DEF entered
    <2>3. kept + f.used = f.used /\ kept + f.params = f.params
      BY <1>1, <2>1
    <2>4. ASSUME NEW i \in 1 .. f.used
          PROVE  entered[lb + i] = IF i <= f.params THEN ArgOf(lb, nargs, i) ELSE LNil
      <3>1. ~(i <= kept) /\ i - kept = i
        BY <1>1, <2>1
      <3> QED
        BY <2>2, <2>3, <3>1
    <2> QED
      BY <2>2, <2>3, <2>4
  <1>5. new.array = made /\ new.top = lb + f.used
    BY DEF Emptied
  <1> HIDE DEF row, new, entered
  <1>6. new.array \in [1 .. Len(rg.array) -> Slot]
    <2>1. made \in [1 .. Len(rg.array) -> Slot]
      BY <1>1, <1>2
    <2> QED
      BY <1>5, <2>1
  <1>7. \A i \in 1 .. new.top : new.array[i] = entered[i]
    <2> SUFFICES ASSUME NEW i \in 1 .. new.top PROVE new.array[i] = entered[i]
      OBVIOUS
    <2>1. i \in 1 .. Len(rg.array)
      BY <1>1, <1>5
    <2>2. CASE i <= low
      <3>1. i \in 1 .. rg.top
        BY <1>1, <1>3, <2>2
      <3>2. new.array[i] = row[i]
        BY <1>1, <1>2, <1>5, <2>1, <2>2, <3>1
      <3>3. CASE i <= lb
        <4>1. i \in 1 .. lb /\ i \in 1 .. lb + nargs
          BY <3>3
        <4> QED
          BY <1>3, <1>4, <3>2, <4>1
      <3>4. CASE ~(i <= lb)
        <4>1. i - lb \in 1 .. f.used /\ lb + (i - lb) = i /\ i - lb <= f.params
          BY <1>1, <2>2, <3>4
        <4>2. entered[i] = ArgOf(lb, nargs, i - lb)
          BY <1>4, <4>1
        <4>3. CASE i - lb <= nargs
          <5>1. i \in 1 .. lb + nargs
            BY <4>1, <4>3
          <5> QED
            BY <1>3, <3>2, <4>1, <4>2, <4>3, <5>1 DEF ArgOf
        <4>4. CASE ~(i - lb <= nargs)
          <5>1. i \in lb + nargs + 1 .. lb + f.params
            BY <1>1, <2>2, <4>4
          <5> QED
            BY <1>3, <3>2, <4>2, <4>4, <5>1 DEF ArgOf
        <4> QED
          BY <4>3, <4>4
      <3> QED
        BY <3>3, <3>4
    <2>3. CASE ~(i <= low)
      <3>1. i - lb \in 1 .. f.used /\ lb + (i - lb) = i /\ ~(i - lb <= f.params)
        BY <1>1, <1>5, <2>3
      <3>2. entered[i] = LNil
        BY <1>4, <3>1
      <3>3. new.array[i] = LNil
        BY <1>1, <1>2, <1>5, <2>1, <2>3
      <3> QED
        BY <3>2, <3>3
    <2> QED
      BY <2>2, <2>3
  <1>8. new.top \in 0 .. Len(rg.array) /\ Len(entered) = new.top
    BY <1>1, <1>4, <1>5
  <1>9. StepHolds(new, entered)
    BY <1>4, <1>6, <1>7, <1>8, StepMade
  <1> QED
    BY <1>9 DEF new, entered

(* A vararg function's registers: its arguments with the places of its
   parameters nil, then the parameters, the table of arguments, and nils. *)
LEMMA VarargEntered ==
  ASSUME Inv, NEW f \in Functions, NEW lb \in Nat, NEW nargs \in Nat, lb + nargs <= top,
         f.vararg # "no", NEW given, given = Given(f, nargs)
  PROVE  LET row == File!Entered(f, lb, nargs)
         IN  /\ row \in Seq(LuaValues)
             /\ Len(row) = lb + given + f.used
             /\ \A i \in 1 .. lb : row[i] = regs[i]
             /\ \A i \in 1 .. given : row[lb + i] = IF i <= f.params THEN LNil ELSE regs[lb + i]
             /\ \A i \in 1 .. f.params : row[lb + given + i] = ArgOf(lb, nargs, i)
             /\ row[lb + given + f.params + 1] = IF f.vararg = "arg" THEN ArgTable ELSE LNil
             /\ \A i \in lb + given + f.params + 2 .. lb + given + f.used : row[i] = LNil
  <1> DEFINE row == File!Entered(f, lb, nargs)
  <1>1. /\ f.params \in Nat /\ f.used \in Nat /\ f.params + 1 <= f.used
        /\ given \in Nat /\ given >= nargs /\ given >= f.params
        /\ given = nargs \/ (given = f.params /\ nargs < f.params)
    BY FunctionFacts
  <1>2. given = File!Kept(f, nargs)
    BY KeptFacts
  <1>3. /\ row \in Seq(LuaValues)
        /\ Len(row) = lb + (given + f.used)
        /\ \A i \in 1 .. lb : row[i] = regs[i]
        /\ \A i \in 1 .. given + f.used :
             row[lb + i] =
               IF i <= given THEN IF i <= f.params THEN LNil ELSE ArgOf(lb, nargs, i)
               ELSE IF i <= given + f.params THEN ArgOf(lb, nargs, i - given)
               ELSE IF f.vararg = "arg" /\ i = given + f.params + 1 THEN ArgTable
               ELSE LNil
    BY <1>2, EnteredFacts
  <1> HIDE DEF row
  <1>4. ASSUME NEW i \in 1 .. given
        PROVE  row[lb + i] = IF i <= f.params THEN LNil ELSE regs[lb + i]
    <2>1. i \in 1 .. given + f.used /\ i <= given /\ (~(i <= f.params) => i <= nargs)
      BY <1>1
    <2> QED
      BY <1>3, <2>1 DEF ArgOf
  <1>5. ASSUME NEW i \in 1 .. f.params
        PROVE  row[lb + given + i] = ArgOf(lb, nargs, i)
    <2> DEFINE j == given + i
    <2>1. /\ j \in 1 .. given + f.used /\ ~(j <= given) /\ j <= given + f.params
          /\ j - given = i /\ lb + j = lb + given + i
      BY <1>1
    <2> HIDE DEF j
    <2>2. row[lb + j] = ArgOf(lb, nargs, j - given)
      BY <1>3, <2>1
    <2> QED
      BY <2>1, <2>2
  <1>6. row[lb + given + f.params + 1] = IF f.vararg = "arg" THEN ArgTable ELSE LNil
    <2> DEFINE j == given + f.params + 1
    <2>1. /\ j \in 1 .. given + f.used /\ ~(j <= given) /\ ~(j <= given + f.params)
          /\ lb + j = lb + given + f.params + 1
      BY <1>1
    <2>2. row[lb + j] = IF f.vararg = "arg" /\ j = j THEN ArgTable ELSE LNil
      BY <1>3, <2>1
    <2> HIDE DEF j
    <2> QED
      BY <2>1, <2>2
  <1>7. ASSUME NEW i \in lb + given + f.params + 2 .. lb + given + f.used
        PROVE  row[i] = LNil
    <2>1. /\ i - lb \in 1 .. given + f.used /\ ~(i - lb <= given)
          /\ ~(i - lb <= given + f.params) /\ i - lb # given + f.params + 1
          /\ lb + (i - lb) = i
      BY <1>1
    <2> QED
      BY <1>3, <2>1
  <1>8. Len(row) = lb + given + f.used
    BY <1>1, <1>3
  <1> QED
    BY <1>3, <1>4, <1>5, <1>6, <1>7, <1>8 DEF row

(* A prefix of those registers. *)
LEMMA PrefixFacts ==
  ASSUME NEW row \in Seq(LuaValues), NEW n \in 0 .. Len(row)
  PROVE  /\ SubSeq(row, 1, n) \in Seq(LuaValues)
         /\ Len(SubSeq(row, 1, n)) = n
         /\ \A i \in 1 .. n : SubSeq(row, 1, n)[i] = row[i]
  <1>1. \A i \in 1 .. n : row[i] \in LuaValues
    OBVIOUS
  <1>2. /\ SubSeq(row, 1, n) \in Seq(LuaValues)
        /\ Len(SubSeq(row, 1, n)) = IF 1 <= n THEN n - 1 + 1 ELSE 0
        /\ \A i \in 1 .. n - 1 + 1 : SubSeq(row, 1, n)[i] = row[1 + i - 1]
    BY <1>1, SubSeqProperties
  <1> QED
    BY <1>2

(* The parameters of a vararg function are moved up. *)
LEMMA MovedUpHolds ==
  ASSUME Inv, NEW f \in Functions, NEW lb \in Nat, NEW nargs \in Nat, lb + nargs <= top,
         f.vararg # "no", NEW given, given = Given(f, nargs),
         NEW rg, StepHolds(rg, SuppliedRow(f, lb, nargs)),
         Len(rg.array) >= lb + given + f.params
  PROVE  StepHolds(MovedUp(rg, lb, given, f.params),
                   SubSeq(File!Entered(f, lb, nargs), 1, lb + given + f.params))
  <1> DEFINE row == SuppliedRow(f, lb, nargs)
             entered == File!Entered(f, lb, nargs)
             np == f.params
             n == lb + given + np
             a == WithTop(rg.array, rg.top, n)
             made == [i \in DOMAIN a |->
                        IF lb < i /\ i <= lb + np THEN LNil
                        ELSE IF lb + given < i /\ i <= n THEN a[i - given]
                        ELSE a[i]]
             prefix == SubSeq(entered, 1, n)
             new == MovedUp(rg, lb, given, np)
  <1>1. /\ np \in Nat /\ f.used \in Nat /\ np + 1 <= f.used
        /\ given \in Nat /\ given >= nargs /\ given >= np
        /\ given = nargs \/ (given = np /\ nargs < np)
    BY FunctionFacts
  <1>2. /\ Len(rg.array) \in Nat /\ rg.top <= Len(rg.array) /\ Len(row) = rg.top /\ rg.top \in Nat
        /\ \A i \in 1 .. Len(rg.array) : rg.array[i] \in Slot
        /\ \A i \in 1 .. rg.top : rg.array[i] = row[i]
        /\ LNil \in Slot /\ Unset \in Slot
    BY StepFacts
  <1>3. /\ Len(row) >= lb + nargs /\ Len(row) >= lb + np
        /\ \A i \in 1 .. lb + nargs : row[i] = regs[i]
        /\ \A i \in lb + nargs + 1 .. lb + np : row[i] = LNil
    BY SuppliedRowFacts
  <1>4. /\ entered \in Seq(LuaValues) /\ Len(entered) = lb + given + f.used
        /\ \A i \in 1 .. lb : entered[i] = regs[i]
        /\ \A i \in 1 .. given : entered[lb + i] = IF i <= np THEN LNil ELSE regs[lb + i]
        /\ \A i \in 1 .. np : entered[lb + given + i] = ArgOf(lb, nargs, i)
    BY VarargEntered
  <1>5. /\ a = [i \in 1 .. Len(rg.array) |->
                 IF rg.top < i /\ i <= n THEN LNil
                 ELSE IF n < i /\ i <= rg.top THEN Unset ELSE rg.array[i]]
        /\ new.array = made /\ new.top = n
    BY DEF WithTop, MovedUp
  <1> HIDE DEF row, entered, new, a, np
  <1>6. n \in 0 .. Len(entered) /\ n \in 0 .. Len(rg.array) /\ n \in Nat
    <2>1. n \in Nat /\ n = lb + given + np
      BY <1>1
    <2>2. n <= Len(rg.array) /\ Len(rg.array) \in Nat
      BY <1>2 DEF np
    <2>3. np <= f.used
      BY <1>1
    <2>4. n <= Len(entered) /\ Len(entered) \in Nat
      BY <1>1, <1>4, <2>1, <2>3
    <2> HIDE DEF n
    <2> QED
      BY <2>1, <2>2, <2>4
  <1>7. /\ prefix \in Seq(LuaValues) /\ Len(prefix) = n
        /\ \A i \in 1 .. n : prefix[i] = entered[i]
    BY <1>4, <1>6, PrefixFacts
  <1> HIDE DEF prefix
  <1>8. /\ DOMAIN a = 1 .. Len(rg.array)
        /\ \A i \in 1 .. Len(rg.array) : a[i] \in Slot
        /\ \A i \in 1 .. n : i <= rg.top => a[i] = row[i]
    <2>1. DOMAIN a = 1 .. Len(rg.array) /\ \A i \in 1 .. Len(rg.array) : a[i] \in Slot
      BY <1>2, <1>5
    <2>2. ASSUME NEW i \in 1 .. n, i <= rg.top
          PROVE  a[i] = row[i]
      <3>1. i \in 1 .. Len(rg.array) /\ i \in 1 .. rg.top
        BY <1>2, <1>6, <2>2
      <3>2. a[i] = rg.array[i]
        BY <1>2, <1>5, <1>6, <2>2, <3>1
      <3> QED
        BY <1>2, <3>1, <3>2
    <2> QED
      BY <2>1, <2>2
  <1>9. new.array \in [1 .. Len(rg.array) -> Slot]
    <2>1. ASSUME NEW i \in 1 .. Len(rg.array), lb + given < i, i <= n
          PROVE  i - given \in 1 .. Len(rg.array)
      BY <1>1, <2>1
    <2>2. made \in [1 .. Len(rg.array) -> Slot]
      BY <1>2, <1>8, <2>1
    <2> QED
      BY <1>5, <2>2
  <1>10. \A i \in 1 .. n : new.array[i] = entered[i]
    <2> SUFFICES ASSUME NEW i \in 1 .. n PROVE new.array[i] = entered[i]
      OBVIOUS
    <2>1. i \in 1 .. Len(rg.array) /\ i \in Nat /\ i <= n
      BY <1>2, <1>6
    <2>2. new.array[i] = IF lb < i /\ i <= lb + np THEN LNil
                         ELSE IF lb + given < i /\ i <= n THEN a[i - given]
                         ELSE a[i]
      BY <1>5, <1>8, <2>1
    <2>3. CASE i <= lb
      <3>1. i \in 1 .. lb /\ i \in 1 .. lb + nargs /\ i <= rg.top
        BY <1>1, <1>2, <1>3, <2>1, <2>3
      <3>2. new.array[i] = a[i]
        BY <1>1, <2>1, <2>2, <2>3
      <3> QED
        BY <1>3, <1>4, <1>8, <3>1, <3>2
    <2>4. CASE lb < i /\ i <= lb + np
      <3>1. i - lb \in 1 .. given /\ i - lb <= np /\ lb + (i - lb) = i
        BY <1>1, <2>1, <2>4
      <3>2. entered[i] = LNil
        BY <1>4, <3>1
      <3> QED
        BY <2>2, <2>4, <3>2
    <2>5. CASE lb + np < i /\ i <= lb + given
      <3>1. /\ i - lb \in 1 .. given /\ ~(i - lb <= np) /\ lb + (i - lb) = i
            /\ i \in 1 .. lb + nargs /\ i <= rg.top
        BY <1>1, <1>2, <1>3, <2>1, <2>5
      <3>2. entered[i] = regs[i]
        BY <1>4, <3>1
      <3>3. new.array[i] = a[i]
        BY <1>1, <2>1, <2>2, <2>5
      <3> QED
        BY <1>3, <1>8, <3>1, <3>2, <3>3
    <2>6. CASE lb + given < i
      <3> DEFINE j == i - lb - given
      <3>1. /\ j \in 1 .. np /\ lb + given + j = i /\ i - given = lb + j
            /\ lb + j \in 1 .. n /\ lb + j <= rg.top
        <4>1. np \in Nat /\ given \in Nat /\ rg.top \in Nat /\ lb + np <= rg.top
          BY <1>1, <1>2, <1>3
        <4>2. /\ j \in Int /\ j >= 1 /\ j <= np
              /\ lb + given + j = i /\ i - given = lb + j
          BY <2>1, <2>6, <4>1
        <4> HIDE DEF j
        <4>3. lb + j <= lb + np /\ lb + j >= 1 /\ lb + np <= n
          BY <4>1, <4>2
        <4> QED
          BY <4>1, <4>2, <4>3
      <3>2. entered[i] = ArgOf(lb, nargs, j)
        BY <1>4, <3>1
      <3>3. new.array[i] = a[i - given]
        BY <1>1, <2>1, <2>2, <2>6
      <3> HIDE DEF j
      <3>4. new.array[i] = row[lb + j]
        BY <1>8, <3>1, <3>3
      <3>5. CASE j <= nargs
        <4>1. lb + j \in 1 .. lb + nargs
          BY <3>1, <3>5
        <4> QED
          BY <1>3, <3>2, <3>4, <3>5, <4>1 DEF ArgOf
      <3>6. CASE ~(j <= nargs)
        <4>1. lb + j \in lb + nargs + 1 .. lb + np
          BY <1>1, <3>1, <3>6
        <4> QED
          BY <1>3, <3>2, <3>4, <3>6, <4>1 DEF ArgOf
      <3> QED
        BY <3>5, <3>6
    <2> QED
      BY <1>1, <2>1, <2>3, <2>4, <2>5, <2>6
  <1>11. new.top \in 0 .. Len(rg.array) /\ Len(prefix) = new.top
        /\ \A i \in 1 .. new.top : new.array[i] = prefix[i]
    BY <1>5, <1>6, <1>7, <1>10
  <1>12. StepHolds(new, prefix)
    BY <1>7, <1>9, <1>11, StepMade
  <1> QED
    BY <1>12 DEF new, prefix, entered, np

(* The table of arguments is made. *)
LEMMA WithArgHolds ==
  ASSUME Inv, NEW f \in Functions, NEW lb \in Nat, NEW nargs \in Nat, lb + nargs <= top,
         f.vararg # "no", NEW n, n = Moved(f, lb, nargs),
         NEW rg, StepHolds(rg, SubSeq(File!Entered(f, lb, nargs), 1, n)),
         Len(rg.array) >= n + 1
  PROVE  StepHolds(WithArg(rg, f), SubSeq(File!Entered(f, lb, nargs), 1, n + 1))
  <1> DEFINE entered == File!Entered(f, lb, nargs)
             prefix == SubSeq(entered, 1, n)
             longer == SubSeq(entered, 1, n + 1)
             last == IF f.vararg = "arg" THEN ArgTable ELSE LNil
             a == WithTop(rg.array, rg.top, rg.top + 1)
             new == WithArg(rg, f)
  <1>1. /\ n \in Nat /\ entered \in Seq(LuaValues) /\ n + 1 <= Len(entered)
        /\ entered[n + 1] = last
    <2> DEFINE given == Given(f, nargs)
    <2>1. /\ entered \in Seq(LuaValues) /\ Len(entered) = lb + given + f.used
          /\ entered[lb + given + f.params + 1] = last
      BY VarargEntered
    <2>2. given \in Nat /\ f.params \in Nat /\ f.used \in Nat /\ f.params + 1 <= f.used
      BY FunctionFacts
    <2>3. n = lb + given + f.params
      BY DEF Moved
    <2> HIDE DEF entered, given
    <2> QED
      BY <2>1, <2>2, <2>3
  <1> HIDE DEF entered
  <1>2. /\ prefix \in Seq(LuaValues) /\ Len(prefix) = n
        /\ \A i \in 1 .. n : prefix[i] = entered[i]
    <2>1. n \in 0 .. Len(entered)
      BY <1>1
    <2> QED
      BY <1>1, <2>1, PrefixFacts
  <1>3. /\ longer \in Seq(LuaValues) /\ Len(longer) = n + 1
        /\ \A i \in 1 .. n + 1 : longer[i] = entered[i]
    <2>1. n + 1 \in 0 .. Len(entered)
      BY <1>1
    <2> QED
      BY <1>1, <2>1, PrefixFacts
  <1>4. StepHolds(rg, prefix)
    BY DEF entered
  <1> HIDE DEF prefix, longer
  <1>5. /\ Len(rg.array) \in Nat /\ rg.top = n
        /\ \A i \in 1 .. Len(rg.array) : rg.array[i] \in Slot
        /\ \A i \in 1 .. n : rg.array[i] = prefix[i]
        /\ LNil \in Slot /\ Unset \in Slot
    BY <1>2, <1>4, StepFacts
  <1>6. last \in Slot
    BY DEF Slot, LuaValues
  <1> HIDE DEF last
  <1>7. a = [i \in 1 .. Len(rg.array) |->
              IF rg.top < i /\ i <= rg.top + 1 THEN LNil
              ELSE IF rg.top + 1 < i /\ i <= rg.top THEN Unset ELSE rg.array[i]]
    BY DEF WithTop
  <1>8. new.array = [a EXCEPT ![n + 1] = last] /\ new.top = n + 1
    BY <1>5 DEF WithArg, last
  <1> HIDE DEF a, new
  <1>9. /\ a \in [1 .. Len(rg.array) -> Slot]
        /\ \A i \in 1 .. n : a[i] = rg.array[i]
    BY <1>1, <1>5, <1>7
  <1>10. new.array \in [1 .. Len(rg.array) -> Slot]
    BY <1>6, <1>8, <1>9
  <1>11. \A i \in 1 .. n + 1 : new.array[i] = longer[i]
    <2> SUFFICES ASSUME NEW i \in 1 .. n + 1 PROVE new.array[i] = longer[i]
      OBVIOUS
    <2>1. i \in 1 .. Len(rg.array)
      BY <1>1, <1>5
    <2>2. CASE i = n + 1
      BY <1>1, <1>3, <1>8, <1>9, <2>1, <2>2
    <2>3. CASE i \in 1 .. n
      <3>1. new.array[i] = a[i]
        BY <1>1, <1>8, <1>9, <2>1, <2>3
      <3> QED
        BY <1>2, <1>3, <1>5, <1>9, <2>3, <3>1
    <2> QED
      BY <1>1, <2>2, <2>3
  <1>12. new.top \in 0 .. Len(rg.array) /\ Len(longer) = new.top
         /\ \A i \in 1 .. new.top : new.array[i] = longer[i]
    BY <1>1, <1>3, <1>5, <1>8, <1>11
  <1>13. StepHolds(new, longer)
    BY <1>3, <1>4, <1>10, <1>12, StepMade
  <1> QED
    BY <1>13 DEF new, longer, entered

(* The top is put above the function's registers. *)
LEMMA LastHolds ==
  ASSUME Inv, NEW f \in Functions, NEW lb \in Nat, NEW nargs \in Nat, lb + nargs <= top,
         f.vararg # "no", NEW n, n = Moved(f, lb, nargs),
         NEW high, high = lb + Given(f, nargs) + f.used,
         NEW rg, StepHolds(rg, SubSeq(File!Entered(f, lb, nargs), 1, n + 1)),
         Len(rg.array) >= high
  PROVE  StepHolds([array |-> WithTop(rg.array, rg.top, high), top |-> high],
                   File!Entered(f, lb, nargs))
  <1> DEFINE entered == File!Entered(f, lb, nargs)
             longer == SubSeq(entered, 1, n + 1)
             new == [array |-> WithTop(rg.array, rg.top, high), top |-> high]
  <1>1. /\ n \in Nat /\ high \in Nat /\ n + 1 <= high
        /\ entered \in Seq(LuaValues) /\ Len(entered) = high
        /\ \A i \in n + 2 .. high : entered[i] = LNil
    <2> DEFINE given == Given(f, nargs)
    <2>1. /\ entered \in Seq(LuaValues) /\ Len(entered) = lb + given + f.used
          /\ \A i \in lb + given + f.params + 2 .. lb + given + f.used : entered[i] = LNil
      BY VarargEntered
    <2>2. given \in Nat /\ f.params \in Nat /\ f.used \in Nat /\ f.params + 1 <= f.used
      BY FunctionFacts
    <2>3. n = lb + given + f.params /\ high = lb + given + f.used
      BY DEF Moved
    <2> HIDE DEF entered, given
    <2>4. n \in Nat /\ high \in Nat /\ n + 1 <= high /\ n + 2 = lb + given + f.params + 2
      BY <2>2, <2>3
    <2>5. Len(entered) = high /\ \A i \in n + 2 .. high : entered[i] = LNil
      BY <2>1, <2>3, <2>4
    <2> QED
      BY <2>1, <2>4, <2>5
  <1> HIDE DEF entered
  <1>2. /\ longer \in Seq(LuaValues) /\ Len(longer) = n + 1
        /\ \A i \in 1 .. n + 1 : longer[i] = entered[i]
    <2>1. n + 1 \in 0 .. Len(entered)
      BY <1>1
    <2> QED
      BY <1>1, <2>1, PrefixFacts
  <1>3. StepHolds(rg, longer)
    BY DEF entered
  <1> HIDE DEF longer
  <1>4. IsWithTop(entered, longer, high)
    <2> SUFFICES ASSUME NEW i \in 1 .. high
                 PROVE  entered[i] = IF i <= n + 1 THEN longer[i] ELSE LNil
      BY <1>1, <1>2 DEF IsWithTop
    <2>1. CASE i <= n + 1
      BY <1>1, <1>2, <2>1
    <2>2. CASE ~(i <= n + 1)
      <3>1. i \in n + 2 .. high
        BY <1>1, <2>2
      <3> QED
        BY <1>1, <2>2, <3>1
    <2> QED
      BY <2>1, <2>2
  <1>5. Represents(rg.array, rg.top, longer) /\ Len(rg.array) \in Nat
    BY <1>3, StepFacts DEF StepHolds
  <1>6. high \in 0 .. Len(rg.array)
    BY <1>1, <1>5
  <1>7. /\ Represents(WithTop(rg.array, rg.top, high), high, entered)
        /\ Len(WithTop(rg.array, rg.top, high)) = Len(rg.array)
    BY <1>4, <1>5, <1>6, WithTopFacts
  <1>8. StepHolds(new, entered)
    BY <1>3, <1>7 DEF StepHolds
  <1> QED
    BY <1>8 DEF entered

-----------------------------------------------------------------------------
(* The steps, one after the other. *)

LEMMA StepZero ==
  ASSUME NEW f, NEW lb, NEW nargs
  PROVE  AfterStep(f, lb, nargs, 0) = [array |-> array, top |-> top]
  BY DEF AfterStep

LEMMA StepOne ==
  ASSUME NEW f, NEW lb, NEW nargs
  PROVE  AfterStep(f, lb, nargs, 1) =
           Supplied(Sized(AfterStep(f, lb, nargs, 0), StepNeeds(f, lb, nargs)[1]),
                    lb, nargs, f.params)
  BY DEF AfterStep, Sized

LEMMA StepTwo ==
  ASSUME NEW f, NEW lb, NEW nargs
  PROVE  LET rg == Sized(AfterStep(f, lb, nargs, 1), StepNeeds(f, lb, nargs)[2])
         IN  /\ f.vararg = "no" =>
                  AfterStep(f, lb, nargs, 2) =
                    Emptied(rg, lb + f.params, lb + File!AtLeast(Given(f, nargs), f.used), lb + f.used)
             /\ f.vararg # "no" =>
                  AfterStep(f, lb, nargs, 2) = MovedUp(rg, lb, Given(f, nargs), f.params)
  BY DEF AfterStep, Sized, Given

LEMMA StepThree ==
  ASSUME NEW f, NEW lb, NEW nargs
  PROVE  AfterStep(f, lb, nargs, 3) =
           WithArg(Sized(AfterStep(f, lb, nargs, 2), StepNeeds(f, lb, nargs)[3]), f)
  BY DEF AfterStep, Sized

LEMMA StepFour ==
  ASSUME NEW f, NEW lb, NEW nargs
  PROVE  LET n == StepNeeds(f, lb, nargs)[4]
             rg == Sized(AfterStep(f, lb, nargs, 3), n)
         IN  AfterStep(f, lb, nargs, 4) = [array |-> WithTop(rg.array, rg.top, n), top |-> n]
  BY DEF AfterStep, Sized

LEMMA NeedsFacts ==
  ASSUME NEW f \in Functions, NEW lb \in Nat, NEW nargs \in Nat
  PROVE  LET needs == StepNeeds(f, lb, nargs)
         IN  /\ Len(needs) = IF f.vararg = "no" THEN 2 ELSE 4
             /\ \A k \in 1 .. Len(needs) : needs[k] \in Nat
             /\ nargs < f.params => needs[1] = lb + f.params
             /\ f.vararg = "no" => needs[2] = lb + File!AtLeast(Given(f, nargs), f.used)
             /\ f.vararg # "no" =>
                  /\ needs[2] = lb + Given(f, nargs) + f.params
                  /\ needs[3] = lb + Given(f, nargs) + f.params + 1
                  /\ needs[4] = lb + Given(f, nargs) + f.used
  <1> DEFINE supply == IF nargs < f.params THEN lb + f.params ELSE 0
             given == Given(f, nargs)
  <1>1. f.params \in Nat /\ f.used \in Nat /\ given \in Nat /\ supply \in Nat
    BY FunctionFacts
  <1>2. File!AtLeast(given, f.used) \in Nat
    BY <1>1 DEF File!AtLeast
  <1>3. StepNeeds(f, lb, nargs) =
          IF f.vararg = "no" THEN <<supply, lb + File!AtLeast(given, f.used)>>
          ELSE <<supply, lb + given + f.params, lb + given + f.params + 1, lb + given + f.used>>
    BY DEF StepNeeds, Given
  <1>4. nargs < f.params => supply = lb + f.params
    OBVIOUS
  <1> HIDE DEF supply, given
  <1>5. CASE f.vararg = "no"
    BY <1>1, <1>2, <1>3, <1>4, <1>5 DEF given
  <1>6. CASE f.vararg # "no"
    <2>1. StepNeeds(f, lb, nargs) =
            <<supply, lb + given + f.params, lb + given + f.params + 1, lb + given + f.used>>
      BY <1>3, <1>6
    <2>2. /\ lb + given + f.params \in Nat /\ lb + given + f.params + 1 \in Nat
          /\ lb + given + f.used \in Nat
      BY <1>1
    <2>3. \A k \in 1 .. 4 : k = 1 \/ k = 2 \/ k = 3 \/ k = 4
      OBVIOUS
    <2> QED
      BY <1>1, <1>4, <1>6, <2>1, <2>2, <2>3 DEF given
  <1> QED
    BY <1>5, <1>6

(* Step k finds its room in what the steps before it have made. *)
LEMMA SucceedsFacts ==
  ASSUME NEW f, NEW lb, NEW nargs, NEW k \in 0 .. 4, StepsSucceed(f, lb, nargs, k)
  PROVE  LET room(j) == Provides(Len(AfterStep(f, lb, nargs, j).array), StepNeeds(f, lb, nargs)[j + 1])
         IN  /\ k >= 1 => room(0)
             /\ k >= 2 => room(1)
             /\ k >= 3 => room(2)
             /\ k >= 4 => room(3)
  <1>1. \A j \in 1 .. k : StepSucceeds(f, lb, nargs, j)
    BY DEF StepsSucceed
  <1>2. /\ k >= 1 => StepSucceeds(f, lb, nargs, 1)
        /\ k >= 2 => StepSucceeds(f, lb, nargs, 2)
        /\ k >= 3 => StepSucceeds(f, lb, nargs, 3)
        /\ k >= 4 => StepSucceeds(f, lb, nargs, 4)
    BY <1>1
  <1>3. 1 - 1 = 0 /\ 2 - 1 = 1 /\ 3 - 1 = 2 /\ 4 - 1 = 3
    OBVIOUS
  <1> QED
    BY <1>2, <1>3 DEF StepSucceeds

(* After each step that has found its room the registers are those of the
   next stage; after the last they are those of the function. *)
LEMMA FirstStepHolds ==
  ASSUME Inv, NEW f \in Functions, NEW lb \in Nat, NEW nargs \in Nat, lb + nargs <= top
  PROVE  /\ StepHolds(AfterStep(f, lb, nargs, 0), regs)
         /\ StepsSucceed(f, lb, nargs, 1) =>
              StepHolds(AfterStep(f, lb, nargs, 1), SuppliedRow(f, lb, nargs))
  <1> DEFINE needs == StepNeeds(f, lb, nargs)
             after(k) == AfterStep(f, lb, nargs, k)
  <1>1. StepHolds(after(0), regs)
    BY StepZero DEF StepHolds, Inv
  <1>2. ASSUME StepsSucceed(f, lb, nargs, 1)
        PROVE  StepHolds(after(1), SuppliedRow(f, lb, nargs))
    <2> HIDE DEF after
    <2>1. Provides(Len(after(0).array), needs[1])
      BY <1>2, SucceedsFacts DEF after
    <2>2. needs[1] \in Nat /\ (nargs < f.params => needs[1] = lb + f.params)
      BY NeedsFacts
    <2> DEFINE rg == Sized(after(0), needs[1])
    <2>3. StepHolds(rg, regs) /\ Len(rg.array) >= needs[1]
      BY <1>1, <2>1, <2>2, SizedFacts
    <2>4. after(1) = Supplied(rg, lb, nargs, f.params)
      BY StepOne DEF after
    <2> HIDE DEF rg, needs
    <2>5. nargs < f.params => Len(rg.array) >= lb + f.params
      BY <2>2, <2>3
    <2> QED
      BY <2>3, <2>4, <2>5, SuppliedHolds
  <1> QED
    BY <1>1, <1>2

LEMMA PlainStepsHold ==
  ASSUME Inv, NEW f \in Functions, NEW lb \in Nat, NEW nargs \in Nat, lb + nargs <= top,
         f.vararg = "no", StepsSucceed(f, lb, nargs, 2)
  PROVE  StepHolds(AfterStep(f, lb, nargs, 2), File!Entered(f, lb, nargs))
  <1> DEFINE needs == StepNeeds(f, lb, nargs)
             after(k) == AfterStep(f, lb, nargs, k)
             high == lb + File!AtLeast(Given(f, nargs), f.used)
             rg == Sized(after(1), needs[2])
  <1>1. StepsSucceed(f, lb, nargs, 1)
    BY DEF StepsSucceed
  <1>2. StepHolds(after(1), SuppliedRow(f, lb, nargs))
    BY <1>1, FirstStepHolds
  <1>3. Provides(Len(after(1).array), needs[2])
    BY SucceedsFacts
  <1>4. needs[2] \in Nat /\ needs[2] = high
    BY NeedsFacts
  <1>5. high >= lb + f.used
    BY FunctionFacts DEF File!AtLeast
  <1>6. after(2) = Emptied(rg, lb + f.params, high, lb + f.used)
    BY StepTwo
  <1> HIDE DEF after, needs, high
  <1>7. StepHolds(rg, SuppliedRow(f, lb, nargs)) /\ Len(rg.array) >= high
    BY <1>2, <1>3, <1>4, SizedFacts
  <1> HIDE DEF rg
  <1>8. StepHolds(after(2), File!Entered(f, lb, nargs))
    BY <1>4, <1>5, <1>6, <1>7, EmptiedHolds
  <1> QED
    BY <1>8 DEF after

LEMMA VarargStepsHold ==
  ASSUME Inv, NEW f \in Functions, NEW lb \in Nat, NEW nargs \in Nat, lb + nargs <= top,
         f.vararg # "no"
  PROVE  LET row == File!Entered(f, lb, nargs)
             n == Moved(f, lb, nargs)
         IN  /\ StepsSucceed(f, lb, nargs, 2) =>
                  StepHolds(AfterStep(f, lb, nargs, 2), SubSeq(row, 1, n))
             /\ StepsSucceed(f, lb, nargs, 3) =>
                  StepHolds(AfterStep(f, lb, nargs, 3), SubSeq(row, 1, n + 1))
             /\ StepsSucceed(f, lb, nargs, 4) =>
                  StepHolds(AfterStep(f, lb, nargs, 4), row)
  <1> DEFINE needs == StepNeeds(f, lb, nargs)
             after(k) == AfterStep(f, lb, nargs, k)
             row == File!Entered(f, lb, nargs)
             n == Moved(f, lb, nargs)
             high == lb + Given(f, nargs) + f.used
  <1>1. /\ needs[2] \in Nat /\ needs[3] \in Nat /\ needs[4] \in Nat
        /\ needs[2] = n /\ needs[3] = n + 1 /\ needs[4] = high
    BY NeedsFacts DEF Moved
  <1>2. ASSUME StepsSucceed(f, lb, nargs, 2)
        PROVE  StepHolds(after(2), SubSeq(row, 1, n))
    <2> DEFINE rg == Sized(after(1), needs[2])
    <2>1. StepsSucceed(f, lb, nargs, 1)
      BY <1>2 DEF StepsSucceed
    <2>2. StepHolds(after(1), SuppliedRow(f, lb, nargs))
      BY <2>1, FirstStepHolds
    <2>3. Provides(Len(after(1).array), needs[2])
      BY <1>2, SucceedsFacts
    <2>4. after(2) = MovedUp(rg, lb, Given(f, nargs), f.params)
      BY StepTwo
    <2> HIDE DEF after, needs
    <2>5. StepHolds(rg, SuppliedRow(f, lb, nargs)) /\ Len(rg.array) >= n
      BY <1>1, <2>2, <2>3, SizedFacts
    <2> HIDE DEF rg
    <2>6. n = lb + Given(f, nargs) + f.params
      BY DEF Moved
    <2> QED
      BY <2>4, <2>5, <2>6, MovedUpHolds
  <1>3. ASSUME StepsSucceed(f, lb, nargs, 3)
        PROVE  StepHolds(after(3), SubSeq(row, 1, n + 1))
    <2> DEFINE rg == Sized(after(2), needs[3])
    <2>1. StepsSucceed(f, lb, nargs, 2)
      BY <1>3 DEF StepsSucceed
    <2>2. StepHolds(after(2), SubSeq(row, 1, n))
      BY <1>2, <2>1
    <2>3. Provides(Len(after(2).array), needs[3])
      BY <1>3, SucceedsFacts
    <2>4. after(3) = WithArg(rg, f)
      BY StepThree
    <2> HIDE DEF after, needs, row, n
    <2>5. StepHolds(rg, SubSeq(row, 1, n)) /\ Len(rg.array) >= n + 1
      BY <1>1, <2>2, <2>3, SizedFacts
    <2> HIDE DEF rg
    <2> QED
      BY <2>4, <2>5, WithArgHolds DEF row, n
  <1>4. ASSUME StepsSucceed(f, lb, nargs, 4)
        PROVE  StepHolds(after(4), row)
    <2> DEFINE rg == Sized(after(3), needs[4])
    <2>1. StepsSucceed(f, lb, nargs, 3)
      BY <1>4 DEF StepsSucceed
    <2>2. StepHolds(after(3), SubSeq(row, 1, n + 1))
      BY <1>3, <2>1
    <2>3. Provides(Len(after(3).array), needs[4])
      BY <1>4, SucceedsFacts
    <2>4. after(4) = [array |-> WithTop(rg.array, rg.top, high), top |-> high]
      BY <1>1, StepFour
    <2> HIDE DEF after, needs, row, n
    <2>5. StepHolds(rg, SubSeq(row, 1, n + 1)) /\ Len(rg.array) >= high
      BY <1>1, <2>2, <2>3, SizedFacts
    <2> HIDE DEF rg
    <2> QED
      BY <2>4, <2>5, LastHolds DEF row, n
  <1> QED
    BY <1>2, <1>3, <1>4

LEMMA EnterLuaInv ==
  ASSUME Inv, NEW f \in Functions, NEW lb \in Nat, NEW nargs \in Nat, EnterLua(f, lb, nargs)
  PROVE  Inv'
  <1> DEFINE steps == Len(StepNeeds(f, lb, nargs))
             done == AfterStep(f, lb, nargs, steps)
  <1>1. /\ lb + nargs <= top /\ StepsSucceed(f, lb, nargs, steps)
        /\ array' = done.array /\ top' = done.top
        /\ regs' = File!Entered(f, lb, nargs)
        /\ UNCHANGED <<raising, need, forced>>
    BY DEF EnterLua, File!Enter
  <1>2. StepHolds(done, regs')
    <2>1. CASE f.vararg = "no"
      <3>1. steps = 2
        BY <2>1, NeedsFacts
      <3> QED
        BY <1>1, <2>1, <3>1, PlainStepsHold
    <2>2. CASE f.vararg # "no"
      <3>1. steps = 4
        BY <2>2, NeedsFacts
      <3> QED
        BY <1>1, <2>2, <3>1, VarargStepsHold
    <2> QED
      BY <2>1, <2>2
  <1> HIDE DEF done
  <1>3. /\ Represents(array', top', regs')
        /\ \A e \in Nat : Bounded(Len(array), e) => Bounded(Len(array'), e)
        /\ raising' \in BOOLEAN
    BY <1>1, <1>2 DEF StepHolds, Inv
  <1> QED
    BY <1>1, <1>3, StoresInv

LEMMA EnterLuaFailsInv ==
  ASSUME Inv, NEW f \in Functions, NEW lb \in Nat, NEW nargs \in Nat, EnterLuaFails(f, lb, nargs)
  PROVE  Inv'
  <1> DEFINE needs == StepNeeds(f, lb, nargs)
             stage == File!Stage(f, lb, nargs)
  <1>1. lb + nargs <= top
    BY DEF EnterLuaFails
  <1>2. PICK k \in 1 .. Len(needs) :
          /\ StepsSucceed(f, lb, nargs, k - 1)
          /\ Overflow(AfterStep(f, lb, nargs, k - 1).array, AfterStep(f, lb, nargs, k - 1).top, needs[k])
          /\ File!Fail(stage[k])
    BY DEF EnterLuaFails
  <1> DEFINE done == AfterStep(f, lb, nargs, k - 1)
  <1>3. needs[k] \in Nat
    BY NeedsFacts
  <1>4. Len(needs) = IF f.vararg = "no" THEN 2 ELSE 4
    BY NeedsFacts
  <1>5. StepHolds(done, stage[k])
    <2>1. CASE k = 1
      <3>1. k - 1 = 0 /\ stage[k] = regs
        BY <2>1, FirstStages
      <3> QED
        BY <1>1, <3>1, FirstStepHolds
    <2>2. CASE k = 2
      <3>1. k - 1 = 1 /\ stage[k] = SuppliedRow(f, lb, nargs)
        BY <2>2, FirstStages
      <3> QED
        BY <1>1, <1>2, <3>1, FirstStepHolds
    <2>3. CASE k = 3 /\ f.vararg # "no"
      <3>1. k - 1 = 2 /\ stage[k] = SubSeq(File!Entered(f, lb, nargs), 1, Moved(f, lb, nargs))
        BY <2>3, StageFacts
      <3> QED
        BY <1>1, <1>2, <2>3, <3>1, VarargStepsHold
    <2>4. CASE k = 4 /\ f.vararg # "no"
      <3>1. k - 1 = 3 /\ stage[k] = SubSeq(File!Entered(f, lb, nargs), 1, Moved(f, lb, nargs) + 1)
        BY <2>4, StageFacts
      <3> QED
        BY <1>1, <1>2, <2>4, <3>1, VarargStepsHold
    <2>5. k \in 1 .. 2 \/ (k \in 1 .. 4 /\ f.vararg # "no")
      BY <1>4
    <2> QED
      BY <2>1, <2>2, <2>3, <2>4, <2>5
  <1> HIDE DEF done
  <1>6. Represents(done.array, done.top, stage[k]) /\ Bounded(Len(done.array), forced)
    <2>1. forced \in Nat /\ Bounded(Len(array), forced)
      BY DEF Inv
    <2> QED
      BY <1>5, <2>1 DEF StepHolds
  <1>7. Overflow(done.array, done.top, needs[k])
    BY <1>2 DEF done
  <1> QED
    BY <1>2, <1>3, <1>6, <1>7, OverflowInv

-----------------------------------------------------------------------------
(* Errors. *)

LEMMA RaiseErrorInv ==
  ASSUME Inv, RaiseError
  PROVE  Inv'
  <1>1. /\ Represents(array, top, regs) /\ Bounded(Len(array), forced)
        /\ forced \in 0 .. MaxErrors
        /\ raiseError(array, top) /\ File!Fail(regs) /\ need' = 0
    BY DEF Inv, RaiseError
  <1>2. /\ Represents(array', top', regs')
        /\ Bounded(Len(array'), forced')
        /\ raising' \in BOOLEAN
        /\ forced' \in 0 .. MaxErrors
    BY <1>1, RaiseErrorFacts
  <1> QED
    BY <1>1, <1>2 DEF Inv, OverflowOnlyAtLimit, Bounded, SizeLimit

LEMMA UnwindInv ==
  ASSUME Inv, NEW base \in Nat, Unwind(base)
  PROVE  Inv'
  <1>1. /\ base <= top /\ array' = WithTop(array, top, base) /\ top' = base
        /\ raising' = FALSE /\ File!SetTop(base) /\ UNCHANGED <<need, forced>>
    BY DEF Unwind
  <1>2. /\ Represents(array, top, regs) /\ Len(array) \in Nat /\ top \in Nat /\ top <= Len(array)
    BY RegsFacts DEF Inv
  <1>3. IsWithTop(regs', regs, base)
    BY <1>1, RegsFacts, SetTopFacts
  <1>4. base \in 0 .. Len(array)
    BY <1>1, <1>2
  <1>5. Represents(array', top', regs') /\ Len(array') = Len(array)
    BY <1>1, <1>2, <1>3, <1>4, WithTopFacts
  <1> QED
    BY <1>1, <1>5, StoresInv

-----------------------------------------------------------------------------
(* Every step. *)

LEMMA InitInv == Init => Inv
  <1> SUFFICES ASSUME Init PROVE Inv
    OBVIOUS
  <1>1. /\ array \in [1 .. InitialSize -> Slot] /\ top = 0 /\ regs = << >>
        /\ raising = FALSE /\ need = 0 /\ forced = 0
    BY DEF Init, File!Init, Slot
  <1>2. << >> \in Seq(LuaValues) /\ Len(<< >>) = 0
    BY EmptySeq
  <1>3. /\ InitialSize \in Nat /\ top \in 0 .. InitialSize /\ regs \in Seq(LuaValues)
        /\ Len(regs) = top /\ \A i \in 1 .. top : array[i] = regs[i]
    BY <1>1, <1>2
  <1>4. Represents(array, top, regs) /\ Len(array) = InitialSize
    BY <1>1, <1>3, MakeRepresents
  <1>5. Bounded(Len(array), forced)
    BY <1>1, <1>4, SizeLimitFacts DEF Bounded
  <1>6. need \in Nat /\ forced \in 0 .. MaxErrors /\ ~(need # 0)
    BY <1>1
  <1>7. raising \in BOOLEAN
    BY <1>1, Zenon
  <1> QED
    BY <1>4, <1>5, <1>6, <1>7 DEF Inv, OverflowOnlyAtLimit

LEMMA BoundsFacts ==
  /\ Bounds \subseteq Nat
  /\ Slots \subseteq Nat \ {0}
  BY SizeLimitFacts DEF Bounds, Slots, MaxSlots

LEMMA NextInv == Inv /\ [Next]_vars => Inv'
  <1> SUFFICES ASSUME Inv, [Next]_vars PROVE Inv'
    OBVIOUS
  <1>1. top \in Nat
    BY RegsFacts
  <1>2. 0 .. top \subseteq Nat
    BY <1>1
  <1>3. ASSUME NEW v \in LuaValues, Push(v) PROVE Inv'
    BY <1>3, PushInv
  <1>4. CASE Pop
    BY <1>4, PopInv
  <1>5. ASSUME NEW n \in Bounds, SetTop(n) PROVE Inv'
    BY <1>5, BoundsFacts, SetTopInv
  <1>6. ASSUME NEW r \in Slots, NEW v \in LuaValues, Set(r, v) PROVE Inv'
    BY <1>6, BoundsFacts, SetInv
  <1>7. ASSUME NEW v \in LuaValues, NEW r \in Slots, Insert(v, r) PROVE Inv'
    BY <1>7, BoundsFacts, InsertInv
  <1>8. ASSUME NEW m \in Bounds, NEW n \in Bounds, FillNil(m, n) PROVE Inv'
    BY <1>8, BoundsFacts, FillNilInv
  <1>9. ASSUME NEW to \in 0 .. top, NEW start \in 0 .. top, NEW limit \in 0 .. top,
               NEW n \in Bounds, CopyRange(to, start, limit, n)
        PROVE  Inv'
    BY <1>2, <1>9, BoundsFacts, CopyRangeInv
  <1>10. ASSUME NEW f \in Functions, NEW lb \in 0 .. top, NEW nargs \in 0 .. top,
                EnterLua(f, lb, nargs)
         PROVE  Inv'
    BY <1>2, <1>10, EnterLuaInv
  <1>11. ASSUME NEW f \in Functions, NEW lb \in 0 .. top, NEW nargs \in 0 .. top,
                EnterLuaFails(f, lb, nargs)
         PROVE  Inv'
    BY <1>2, <1>11, EnterLuaFailsInv
  <1>12. CASE RaiseError
    BY <1>12, RaiseErrorInv
  <1>13. CASE RunHandler
    BY <1>13 DEF RunHandler, Inv, OverflowOnlyAtLimit, Bounded, SizeLimit
  <1>14. ASSUME NEW base \in Bounds, Unwind(base) PROVE Inv'
    BY <1>14, BoundsFacts, UnwindInv
  <1>15. CASE UNCHANGED vars
    BY <1>15 DEF vars, Inv, OverflowOnlyAtLimit, Bounded, SizeLimit
  <1> QED
    BY <1>3, <1>4, <1>5, <1>6, <1>7, <1>8, <1>9, <1>10, <1>11, <1>12, <1>13, <1>14, <1>15
    DEF Next

LEMMA SpecInv == Spec => []Inv
  BY InitInv, NextInv, PTL DEF Spec

-----------------------------------------------------------------------------
(* The theorems. *)

(* Every slot of registry.array holds a value or is unset, and the top lies
   within the array, for every size and limit of the registry. *)
THEOREM RegistryTypeOK == Spec => []TypeOK
  <1>1. Inv => TypeOK
    BY DEF Inv, TypeOK, Represents, Slot
  <1> QED
    BY <1>1, SpecInv, PTL

(* Whatever orders, resizings and failures half way there are (registry's
   methods, initCallFrame, raiseError), the slots below the top are the
   registers, and so no nil interface. *)
THEOREM RegistryHoldsRegisters == Spec => []HoldsRegisters
  <1>1. Inv => HoldsRegisters
    <2> SUFFICES ASSUME Inv PROVE SubSeq(array, 1, top) = regs
      BY DEF HoldsRegisters
    <2>1. /\ regs \in Seq(LuaValues) /\ Len(regs) = top /\ top \in Nat
          /\ \A i \in 1 .. top : array[i] = regs[i] /\ regs[i] \in LuaValues
      BY RegsFacts
    <2>2. \A i \in 1 .. top : array[i] \in LuaValues
      BY <2>1
    <2>3. /\ SubSeq(array, 1, top) \in Seq(LuaValues)
          /\ Len(SubSeq(array, 1, top)) = IF 1 <= top THEN top - 1 + 1 ELSE 0
          /\ \A i \in 1 .. top - 1 + 1 : SubSeq(array, 1, top)[i] = array[1 + i - 1]
      BY <2>1, <2>2, SubSeqProperties
    <2>4. /\ Len(SubSeq(array, 1, top)) = Len(regs)
          /\ \A i \in 1 .. Len(regs) : SubSeq(array, 1, top)[i] = regs[i]
      BY <2>1, <2>3
    <2> QED
      BY <2>1, <2>3, <2>4, SeqEqual
  <1> QED
    BY <1>1, SpecInv, PTL

(* The array is never larger than the limit of the options, but for the slots
   that raiseError has added for messages, and resize refuses a size only when
   the options allow no array of it. *)
THEOREM RegistryLimitMetExactly == Spec => []LimitMetExactly
  <1>1. Inv => LimitMetExactly
    BY DEF Inv, LimitMetExactly, Bounded
  <1> QED
    BY <1>1, SpecInv, PTL
=============================================================================
