------------------------------- MODULE Registry -------------------------------
(***************************************************************************)
(* The registry of a thread (state.go): the array that the registers of    *)
(* all its frames live in, how it grows, and the operations on it that     *)
(* the instructions, initCallFrame and raiseError are made of.             *)
(*                                                                         *)
(* Slot r + 1 of the sequence array is reg.array[r].  Slots that nothing   *)
(* has been stored in hold Unset, the nil interface, which the virtual     *)
(* machine cannot work with.  The ghost regs is what the registers hold    *)
(* according to RegisterFile.                                              *)
(***************************************************************************)
EXTENDS Integers, Sequences

CONSTANTS
  Values,      \* the Lua values other than nil
  LNil,        \* nil
  Unset,       \* a nil interface
  ArgTable,    \* the table that a function with an arg parameter is given
  Message,     \* the message of an error
  InitialSize, \* Options.RegistrySize
  GrowBy,      \* Options.RegistryGrowStep
  MaxSize,     \* Options.RegistryMaxSize, 0 when growth is disabled
  Functions,   \* the shapes of the Lua functions of a program
  MaxErrors    \* bound on the errors that find the registry full

LuaValues == Values \cup {LNil}

Shapes == [params : Nat, used : Nat, vararg : {"no", "dots", "arg"}]

ASSUME RegistryAssumption ==
  /\ {ArgTable, Message} \subseteq Values
  /\ LNil \notin Values
  /\ Unset \notin LuaValues
  /\ InitialSize \in Nat \ {0}
  /\ GrowBy \in Nat
  /\ MaxSize \in Nat /\ (MaxSize = 0 \/ MaxSize >= InitialSize)
  /\ Functions \subseteq Shapes
  /\ \A f \in Functions : f.params + (IF f.vararg = "no" THEN 0 ELSE 1) <= f.used
  /\ MaxErrors \in Nat

VARIABLES
  array,   \* registry.array
  top,     \* registry.top
  raising, \* an error is on its way to the PCall that will unwind
  need,    \* ghost: the size that the last overflow could not provide
  forced,  \* ghost: how often forceResize has made room for a message
  regs     \* ghost: the registers, by RegisterFile

vars == <<array, top, raising, need, forced, regs>>

File == INSTANCE RegisterFile

(* The number of slots there can be, and the registers and bounds. *)
SizeLimit == File!AtLeast(InitialSize, MaxSize)
MaxSlots == SizeLimit + MaxErrors
Slots == 1 .. MaxSlots
Bounds == 0 .. MaxSlots

TypeOK ==
  /\ array \in Seq(LuaValues \cup {Unset})
  /\ top \in 0 .. Len(array)
  /\ raising \in BOOLEAN
  /\ need \in Nat
  /\ forced \in 0 .. MaxErrors
  /\ regs \in Seq(LuaValues)

(* newRegistry. *)
Init ==
  /\ array = [i \in 1 .. InitialSize |-> Unset]
  /\ top = 0
  /\ raising = FALSE
  /\ need = 0
  /\ forced = 0
  /\ File!Init

-----------------------------------------------------------------------------
(* Growth. *)

(* The definitions whose names begin with "Mutant" are each a later one with
   a plausible bug; they show that the properties notice. *)
MutantPadded(n) == IF n + GrowBy > MaxSize THEN 0 ELSE n + GrowBy

(* The size that resize asks for: padded, but not beyond maxSize. *)
Padded(n) == IF n + GrowBy > MaxSize THEN MaxSize ELSE n + GrowBy

(* checkSize succeeds for n when the array has size slots. *)
Provides(size, n) == n <= size \/ n <= Padded(n)

(* forceResize: only what is below the top is copied. *)
forceResize(a, t, size) == [i \in 1 .. size |-> IF i <= t THEN a[i] ELSE Unset]

(* The array after checkSize(n), with the top at t. *)
checkSize(a, t, n) ==
  IF n <= Len(a) THEN a ELSE forceResize(a, t, Padded(n))

(* raiseError, with the array and the top as the failing operation has left
   them: a full registry is given one more slot, for the message. *)
raiseError(a, t) ==
  LET full == t >= Len(a)
  IN  /\ full => forced < MaxErrors
      /\ array' = [(IF full THEN forceResize(a, t, t + 1) ELSE a) EXCEPT ![t + 1] = Message]
      /\ top' = t + 1
      /\ forced' = IF full THEN forced + 1 ELSE forced
      /\ raising' = TRUE

(* resize cannot provide n slots: registryOverflow. *)
Overflow(a, t, n) ==
  /\ ~Provides(Len(a), n)
  /\ need' = n
  /\ raiseError(a, t)

(* An operation needs n slots; with them it makes the registers those of a
   and the top t.  Or it fails before it has changed anything. *)
Stores(n, a, t) ==
  /\ Provides(Len(array), n)
  /\ array' = a
  /\ top' = t
  /\ UNCHANGED <<raising, need, forced>>

Fails(n) == Overflow(array, top, n) /\ File!Fail(regs)

Grown(n) == checkSize(array, top, n)

-----------------------------------------------------------------------------
(* The operations.  An operation is given values by the instruction or the
   Go function that calls it. *)

Running == ~raising

Push(v) ==
  /\ Running
  /\ \/ Fails(top + 1)
     \/ /\ Stores(top + 1, [Grown(top + 1) EXCEPT ![top + 1] = v], top + 1)
        /\ File!Push(v)

Pop ==
  /\ Running
  /\ top > 0
  /\ array' = [array EXCEPT ![top] = LNil]
  /\ top' = top - 1
  /\ File!Pop
  /\ UNCHANGED <<raising, need, forced>>

(* The array after SetTop(n), with the top at t before. *)
WithTop(a, t, n) ==
  [i \in 1 .. Len(a) |-> IF t < i /\ i <= n THEN LNil
                         ELSE IF n < i /\ i <= t THEN Unset ELSE a[i]]

(* Also what starting a Go function amounts to. *)
SetTop(n) ==
  /\ Running
  /\ \/ Fails(n)
     \/ Stores(n, WithTop(Grown(n), top, n), n) /\ File!SetTop(n)

(* Set, SetNumber: the compiler gives out registers in order, so that one
   beyond the next is never set. *)
Set(r, v) ==
  /\ Running
  /\ r <= top + 1
  /\ \/ Fails(r)
     \/ /\ Stores(r, [Grown(r) EXCEPT ![r] = v], File!AtLeast(top, r))
        /\ File!Set(r, v)

(* Insert: Set of each register from the top down to r, one place higher. *)
Insert(v, r) ==
  /\ Running
  /\ r <= top
  /\ \/ Fails(top + 1)
     \/ /\ Stores(top + 1,
                  [i \in 1 .. Len(Grown(top + 1)) |->
                     IF i < r THEN array[i] ELSE IF i = r THEN v
                     ELSE IF i <= top + 1 THEN array[i - 1] ELSE Grown(top + 1)[i]],
                  top + 1)
        /\ File!Insert(v, r)

(* FillNil, for the results a function does not return. *)
FillNil(m, n) ==
  /\ Running
  /\ m <= top
  /\ \/ Fails(m + n)
     \/ /\ Stores(m + n,
                  [i \in 1 .. Len(Grown(m + n)) |->
                     IF m < i /\ i <= m + n THEN LNil
                     ELSE IF m + n < i /\ i <= top THEN Unset ELSE Grown(m + n)[i]],
                  m + n)
        /\ File!FillNil(m, n)

(* What CopyRange makes of the array.  No caller lets it read a slot that it
   has written before: see CopyRange. *)
Copied(a, to, start, limit, n) ==
  [i \in 1 .. Len(a) |->
     IF to < i /\ i <= to + n
     THEN IF start + i - to <= limit THEN a[start + i - to] ELSE LNil
     ELSE IF to + n < i /\ i <= top THEN Unset ELSE a[i]]

(* CopyRange: results are moved down to where the caller expects them, or up
   to the top for the thread that resumed this one; extra arguments are
   copied up from below the frame, which is the limit then. *)
CopyRange(to, start, limit, n) ==
  /\ Running
  /\ to <= top
  /\ start <= limit
  /\ limit <= top
  /\ to <= start \/ limit <= to
  /\ \/ Fails(to + n)
     \/ /\ Stores(to + n, Copied(Grown(to + n), to, start, limit, n), to + n)
        /\ File!Move(to, start, limit, n)

(* initCallFrame of a Lua function, in its steps: missing arguments are
   supplied and the top put above them; then the other registers are made
   nil or, for a vararg function, the parameters are moved up, then the table
   of arguments is made, then the other registers.  Each step is a size it
   needs and what it makes of the array and the top. *)
MutantSupplied(rg, lb, nargs, np) ==
  [array |-> [i \in DOMAIN rg.array |->
                IF lb + nargs < i /\ i <= lb + np THEN LNil ELSE rg.array[i]],
   top |-> rg.top]

Supplied(rg, lb, nargs, np) ==
  [array |-> [i \in DOMAIN rg.array |->
                IF lb + nargs < i /\ i <= lb + np THEN LNil ELSE rg.array[i]],
   top |-> IF nargs < np THEN lb + np ELSE rg.top]

Emptied(rg, low, high, t) ==
  [array |-> [i \in DOMAIN rg.array |->
                IF low < i /\ i <= high THEN LNil ELSE rg.array[i]],
   top |-> t]

MovedUp(rg, lb, given, np) ==
  LET a == WithTop(rg.array, rg.top, lb + given + np)
  IN  [array |-> [i \in DOMAIN a |->
                    IF lb < i /\ i <= lb + np THEN LNil
                    ELSE IF lb + given < i /\ i <= lb + given + np THEN a[i - given]
                    ELSE a[i]],
       top |-> lb + given + np]

WithArg(rg, f) ==
  [array |-> [WithTop(rg.array, rg.top, rg.top + 1) EXCEPT
                ![rg.top + 1] = IF f.vararg = "arg" THEN ArgTable ELSE LNil],
   top |-> rg.top + 1]

(* The sizes that the steps need; a step that is left out needs none. *)
StepNeeds(f, lb, nargs) ==
  LET given == File!AtLeast(nargs, f.params)
      supply == IF nargs < f.params THEN lb + f.params ELSE 0
  IN  IF f.vararg = "no"
      THEN <<supply, lb + File!AtLeast(given, f.used)>>
      ELSE <<supply, lb + given + f.params, lb + given + f.params + 1,
             lb + given + f.used>>

(* The registry after k steps. *)
AfterStep(f, lb, nargs, k) ==
  LET given == File!AtLeast(nargs, f.params)
      used == File!AtLeast(given, f.used)
      needs == StepNeeds(f, lb, nargs)
      sized(rg, n) == [array |-> checkSize(rg.array, rg.top, n), top |-> rg.top]
      after0 == [array |-> array, top |-> top]
      after1 == Supplied(sized(after0, needs[1]), lb, nargs, f.params)
      after2 == IF f.vararg = "no"
                THEN Emptied(sized(after1, needs[2]), lb + f.params, lb + used, lb + f.used)
                ELSE MovedUp(sized(after1, needs[2]), lb, given, f.params)
      after3 == WithArg(sized(after2, needs[3]), f)
      after4 == [array |-> WithTop(sized(after3, needs[4]).array, after3.top, needs[4]),
                 top |-> needs[4]]
  IN  CASE k = 0 -> after0 [] k = 1 -> after1 [] k = 2 -> after2
      []   k = 3 -> after3 [] k = 4 -> after4

StepSucceeds(f, lb, nargs, k) ==
  Provides(Len(AfterStep(f, lb, nargs, k - 1).array), StepNeeds(f, lb, nargs)[k])

StepsSucceed(f, lb, nargs, k) == \A j \in 1 .. k : StepSucceeds(f, lb, nargs, j)

EnterLua(f, lb, nargs) ==
  LET steps == Len(StepNeeds(f, lb, nargs))
      done == AfterStep(f, lb, nargs, steps)
  IN  /\ Running
      /\ lb + nargs <= top
      /\ StepsSucceed(f, lb, nargs, steps)
      /\ array' = done.array
      /\ top' = done.top
      /\ File!Enter(f, lb, nargs)
      /\ UNCHANGED <<raising, need, forced>>

(* A step overflows: the message is pushed onto what the steps before it
   have made of the registers. *)
EnterLuaFails(f, lb, nargs) ==
  /\ Running
  /\ lb + nargs <= top
  /\ \E k \in 1 .. Len(StepNeeds(f, lb, nargs)) :
       LET done == AfterStep(f, lb, nargs, k - 1)
       IN  /\ StepsSucceed(f, lb, nargs, k - 1)
           /\ Overflow(done.array, done.top, StepNeeds(f, lb, nargs)[k])
           /\ File!Fail(File!Stage(f, lb, nargs)[k])

-----------------------------------------------------------------------------
(* Errors. *)

(* An error of the program's. *)
RaiseError ==
  /\ Running
  /\ raiseError(array, top)
  /\ File!Fail(regs)
  /\ need' = 0

(* PCall runs the error function above the message, *)
RunHandler ==
  /\ raising
  /\ raising' = FALSE
  /\ UNCHANGED <<array, top, need, forced, regs>>

(* or gives up what was pushed since it was called. *)
Unwind(base) ==
  /\ raising
  /\ base <= top
  /\ array' = WithTop(array, top, base)
  /\ top' = base
  /\ raising' = FALSE
  /\ File!SetTop(base)
  /\ UNCHANGED <<need, forced>>

Next ==
  \/ \E v \in LuaValues : Push(v)
  \/ Pop
  \/ \E n \in Bounds : SetTop(n)
  \/ \E r \in Slots, v \in LuaValues : Set(r, v)
  \/ \E v \in LuaValues, r \in Slots : Insert(v, r)
  \/ \E m, n \in Bounds : FillNil(m, n)
  \/ \E to, start, limit \in 0 .. top, n \in Bounds : CopyRange(to, start, limit, n)
  \/ \E f \in Functions, lb, nargs \in 0 .. top : EnterLua(f, lb, nargs)
  \/ \E f \in Functions, lb, nargs \in 0 .. top : EnterLuaFails(f, lb, nargs)
  \/ RaiseError
  \/ RunHandler
  \/ \E base \in Bounds : Unwind(base)

Spec == Init /\ [][Next]_vars

-----------------------------------------------------------------------------
(* Properties. *)

(* Through every order of operations, resizings and failures half way the
   slots below the top are what the instructions have put into their
   registers, and so none of them is a nil interface. *)
HoldsRegisters == SubSeq(array, 1, top) = regs

(* A program is stopped by a registry overflow only when it needs more than
   the most that the options allow. *)
OverflowOnlyAtLimit == need # 0 => need > SizeLimit

(* RegistryMaxSize is met exactly.  The array grows to it and, as raiseError
   makes room for a message in a full one, beyond it by one slot for each such
   error; and no program is refused a size below it, padded or not. *)
LimitMetExactly == Len(array) <= SizeLimit + forced /\ OverflowOnlyAtLimit
=============================================================================
