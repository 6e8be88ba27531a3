---------------------------- MODULE ProtectedCalls ----------------------------
(***************************************************************************)
(* Calls, returns, errors and protected calls of one thread (callR, PCall  *)
(* and raiseError of state.go, OP_CALL, OP_TAILCALL and OP_RETURN of       *)
(* vm.go), together with the open upvalues, through which closures share   *)
(* the local variables of frames that are still on the stack.              *)
(*                                                                         *)
(* A frame has a window of Locals registers that closures can capture;     *)
(* frame n has the n-th window.  What the registers hold is left out: an   *)
(* upvalue is identified by its register.  A closure and a frame see one   *)
(* variable as long as the upvalue is open, and each its own once it is    *)
(* closed, so it has to be closed when the variable dies and not before.   *)
(* The ghosts detached and orphans record the two ways that goes wrong.    *)
(***************************************************************************)
EXTENDS Integers, Sequences

CONSTANTS
  CallStackSize, \* the frames that fit on the stack
  Locals         \* registers of a frame that closures capture

ASSUME SizesAssumption ==
  /\ CallStackSize \in Nat \ {0}
  /\ Locals \in Nat \ {0}

VARIABLES
  frames,       \* the call frames: the kinds of their functions
  uvcache,      \* the registers of the upvalues in the list ls.uvcache
  opened,       \* the registers of all upvalues that are not closed
  pcalls,       \* the PCalls that have not returned: see PCallRecord
  hasErrorFunc, \* ls.hasErrorFunc
  Panic,        \* ls.Panic: "traceback" (the host's) or "plain" (a PCall's)
  raising,      \* what travels up the Go stack: see Panics, or "none"
  detached,     \* ghost: registers of live variables with a closed upvalue
  orphans,      \* ghost: registers of open upvalues whose variable is gone
  raised        \* ghost: how errors have treated the upvalues so far

stackVars == <<frames, pcalls, hasErrorFunc, Panic, raising>>
upvalueVars == <<uvcache, opened, detached, orphans>>
vars == <<frames, uvcache, opened, pcalls, hasErrorFunc, Panic, raising,
          detached, orphans, raised>>

Kinds ==
  { "lua",   \* a Lua function
    "go",    \* a Go function
    "gotail" \* a Go function that the Lua frame below tail-called
  }

Panics ==
  { "error",    \* an ApiError that raiseError or Error has thrown
    "overflow", \* the same, and the registry has no free slot left
    "gopanic"   \* any other Go panic, like a division by zero
  }

Depths == 0 .. CallStackSize
Registers == 0 .. CallStackSize * Locals - 1
PanicFunctions == {"traceback", "plain"}

(* The locals of a running PCall: sp, errfunc and oldpanic, and base, the
   depth from which it has called its function, or then its handler. *)
PCallRecord ==
  [sp : Depths, base : Depths, errfunc : BOOLEAN,
   stage : {"body", "handler"}, oldpanic : PanicFunctions]

TypeOK ==
  /\ frames \in Seq(Kinds) /\ Len(frames) \in Depths
  /\ uvcache \in Seq(Registers)
  /\ opened \subseteq Registers
  /\ pcalls \in Seq(PCallRecord)
  /\ hasErrorFunc \in BOOLEAN
  /\ Panic \in PanicFunctions
  /\ raising \in Panics \cup {"none"}
  /\ detached \subseteq Registers
  /\ orphans \subseteq opened
  /\ raised \subseteq {"closing", "keeping"}

Depth == Len(frames)
InCall == Depth > 0 /\ raising = "none" \* always under a PCall
InLua == InCall /\ frames[Depth] = "lua"
InGo == InCall /\ frames[Depth] # "lua"
Current == pcalls[Len(pcalls)]
OtherPCalls == SubSeq(pcalls, 1, Len(pcalls) - 1)

(* The registers of frame n are the ones from LocalBase(n) on. *)
LocalBase(n) == (n - 1) * Locals
Window(n) == LocalBase(n) .. n * Locals - 1

Init ==
  /\ frames = << >>
  /\ uvcache = << >>
  /\ opened = {}
  /\ pcalls = << >>
  /\ hasErrorFunc = FALSE
  /\ Panic = "traceback"
  /\ raising = "none"
  /\ detached = {}
  /\ orphans = {}
  /\ raised = {}

-----------------------------------------------------------------------------
(* The list of open upvalues. *)

(* Walking along the list, the upvalues before the first one that is at
   register idx or above it. *)
Walk(idx) ==
  CHOOSE n \in 0 .. Len(uvcache) :
    /\ \A i \in 1 .. n : uvcache[i] < idx
    /\ n < Len(uvcache) => uvcache[n + 1] >= idx

(* closeUpvalues: what remains of the list, and what remains open. *)
Unclosed(idx) == SubSeq(uvcache, 1, Walk(idx))
OpenBelow(idx) == {i \in opened : i < idx}
closeUpvalues(idx) ==
  /\ uvcache' = Unclosed(idx)
  /\ opened' = OpenBelow(idx)

(* The definitions whose names begin with "Mutant" are each a later one with
   a plausible bug; they show that the properties notice. *)
MutantFindUpvalue(idx) ==
  /\ uvcache' = Append(SubSeq(uvcache, 1, Walk(idx)), idx)
  /\ opened' = opened \cup {idx}

(* findUpvalue: the upvalue of register idx, which is put into the list at
   its place unless it is there. *)
findUpvalue(idx) ==
  LET n == Walk(idx)
  IN  /\ uvcache' = IF n < Len(uvcache) /\ uvcache[n + 1] = idx
                    THEN uvcache
                    ELSE SubSeq(uvcache, 1, n) \o <<idx>> \o SubSeq(uvcache, n + 1, Len(uvcache))
      /\ opened' = opened \cup {idx}

(* Ghosts: the variables from register idx on go out of existence, and the
   upvalues in opened \ opened' have been closed just before. *)
VariablesGo(idx) ==
  /\ detached' = {i \in detached \cup ((opened \ opened') \ orphans) : i < idx}
  /\ orphans' = (orphans \cup {i \in opened : i >= idx}) \cap opened'

-----------------------------------------------------------------------------
(* Errors. *)

(* closeAllUpvalues closes the upvalues of every Lua frame on the stack: all
   from the lowest one's LocalBase on. *)
LowestLocalBase ==
  LET lua == {n \in 1 .. Depth : frames[n] = "lua"}
  IN  IF lua = {} THEN CallStackSize * Locals
      ELSE LocalBase(CHOOSE n \in lua : \A m \in lua : n <= m)

closeAllUpvalues == closeUpvalues(LowestLocalBase)

(* raiseError and Error, when hasErrorFunc is flag: the upvalues are closed
   unless an error function is expected to run. *)
Raise(flag, panic) ==
  /\ raising' = panic
  /\ IF flag
     THEN UNCHANGED upvalueVars /\ raised' = raised \cup {"keeping"}
     ELSE /\ closeAllUpvalues
          /\ VariablesGo(LocalBase(Depth + 1))
          /\ raised' = raised \cup {"closing"}

(* An error in the running function: error(), a failed operation, an
   exhausted registry. *)
RaiseError ==
  /\ InCall
  /\ \E panic \in {"error", "overflow"} : Raise(hasErrorFunc, panic)
  /\ UNCHANGED <<frames, pcalls, hasErrorFunc, Panic>>

(* A Go panic that is not an ApiError closes nothing. *)
GoPanic ==
  /\ InCall
  /\ raising' = "gopanic"
  /\ raised' = raised \cup {"keeping"}
  /\ UNCHANGED <<frames, pcalls, hasErrorFunc, Panic>>
  /\ UNCHANGED upvalueVars

-----------------------------------------------------------------------------
(* Calls and returns. *)

IsFull == Depth = CallStackSize

(* pushCallFrame, when hasErrorFunc is flag. *)
PushCallFrame(kind, flag) ==
  IF IsFull
  THEN Raise(flag, "error") /\ UNCHANGED frames
  ELSE /\ frames' = Append(frames, kind)
       /\ UNCHANGED <<raising, raised>>
       /\ UNCHANGED upvalueVars

(* OP_CALL, or L.Call in a Go function. *)
Call ==
  /\ InCall
  /\ \E kind \in {"lua", "go"} : PushCallFrame(kind, hasErrorFunc)
  /\ UNCHANGED <<pcalls, hasErrorFunc, Panic>>

(* PCall until its function has been called. *)
PCall(e, kind) ==
  /\ pcalls' = Append(pcalls, [sp |-> Depth, base |-> Depth, errfunc |-> e,
                               stage |-> "body", oldpanic |-> Panic])
  /\ hasErrorFunc' = (hasErrorFunc \/ e)
  /\ Panic' = "plain"
  /\ PushCallFrame(kind, hasErrorFunc')

(* The host calls a function, or a Go function does: pcall, xpcall,
   CallByParam with Protect. *)
ProtectedCall ==
  /\ InGo \/ (Depth = 0 /\ pcalls = << >> /\ raising = "none")
  /\ \E e \in BOOLEAN, kind \in {"lua", "go"} : PCall(e, kind)

MutantTailCall ==
  /\ InLua
  /\ UNCHANGED <<uvcache, opened>>
  /\ VariablesGo(LocalBase(Depth))
  /\ UNCHANGED stackVars
  /\ UNCHANGED raised

(* OP_TAILCALL of a Lua function: it takes over the frame, whose variables
   are given up before. *)
TailCall ==
  /\ InLua
  /\ closeUpvalues(LocalBase(Depth))
  /\ VariablesGo(LocalBase(Depth))
  /\ UNCHANGED stackVars
  /\ UNCHANGED raised

(* OP_TAILCALL of a Go function, which gets a frame of its own.  The frame
   that calls it is not there for its upvalues any more when that fails. *)
TailCallGo ==
  /\ InLua
  /\ IF IsFull
     THEN /\ closeUpvalues(IF hasErrorFunc THEN LocalBase(Depth) ELSE LowestLocalBase)
          /\ raised' = raised \cup {IF hasErrorFunc THEN "keeping" ELSE "closing"}
          /\ raising' = "error"
          /\ UNCHANGED frames
     ELSE /\ closeUpvalues(LocalBase(Depth))
          /\ frames' = Append(frames, "gotail")
          /\ UNCHANGED <<raising, raised>>
  /\ VariablesGo(LocalBase(Depth))
  /\ UNCHANGED <<pcalls, hasErrorFunc, Panic>>

(* The depth after the running function has returned: RemoveCallerFrame
   takes away the Lua frame that made a tail call. *)
DepthAfterReturn == IF frames[Depth] = "gotail" THEN Depth - 2 ELSE Depth - 1

MutantEndPCallKeepsPanic ==
  /\ frames' = SubSeq(frames, 1, Current.sp)
  /\ pcalls' = OtherPCalls
  /\ hasErrorFunc' = FALSE
  /\ UNCHANGED Panic

MutantEndPCallDropsCaller ==
  /\ frames' = SubSeq(frames, 1, Current.sp - 1)
  /\ pcalls' = OtherPCalls
  /\ Panic' = Current.oldpanic
  /\ hasErrorFunc' = FALSE

(* The end of PCall: SetSp(sp), and the flags. *)
EndPCall ==
  /\ frames' = SubSeq(frames, 1, Current.sp)
  /\ pcalls' = OtherPCalls
  /\ Panic' = Current.oldpanic
  /\ hasErrorFunc' = FALSE

MutantReturn ==
  /\ InCall
  /\ closeUpvalues(LocalBase(DepthAfterReturn))
  /\ VariablesGo(LocalBase(DepthAfterReturn + 1))
  /\ IF DepthAfterReturn = Current.base
     THEN EndPCall
     ELSE /\ frames' = SubSeq(frames, 1, DepthAfterReturn)
          /\ UNCHANGED <<pcalls, Panic, hasErrorFunc>>
  /\ UNCHANGED <<raising, raised>>

(* OP_RETURN, or the end of a Go function.  When it was the function that a
   PCall called, or its handler, PCall returns too. *)
Return ==
  /\ InCall
  /\ IF InLua THEN closeUpvalues(LocalBase(Depth)) ELSE UNCHANGED <<uvcache, opened>>
  /\ IF DepthAfterReturn = Current.base
     THEN EndPCall /\ VariablesGo(LocalBase(Current.sp + 1))
     ELSE /\ frames' = SubSeq(frames, 1, DepthAfterReturn)
          /\ VariablesGo(LocalBase(DepthAfterReturn + 1))
          /\ UNCHANGED <<pcalls, Panic, hasErrorFunc>>
  /\ UNCHANGED <<raising, raised>>

(* OP_CLOSURE: a closure captures a local variable of the running frame. *)
Capture ==
  /\ InLua
  /\ \E idx \in Window(Depth) : findUpvalue(idx)
  /\ UNCHANGED stackVars
  /\ UNCHANGED <<detached, orphans, raised>>

(* OP_CLOSE: a block with captured variables, from register idx on, ends. *)
EndBlock ==
  /\ InLua
  /\ \E idx \in Window(Depth) :
       closeUpvalues(idx) /\ VariablesGo(idx)
  /\ UNCHANGED stackVars
  /\ UNCHANGED raised

-----------------------------------------------------------------------------
(* The recover of PCall. *)

(* No error function, or it has failed itself: PCall returns the error.  The
   frames above are dropped as they are. *)
Unwind ==
  /\ EndPCall
  /\ UNCHANGED <<uvcache, opened, raised>>
  /\ VariablesGo(LocalBase(Current.sp + 1))
  /\ raising' = "none"

MutantRunHandler ==
  /\ pcalls' = [pcalls EXCEPT ![Len(pcalls)] =
                  [sp |-> Current.sp, base |-> Depth, errfunc |-> Current.errfunc,
                   stage |-> "handler", oldpanic |-> Current.oldpanic]]
  /\ hasErrorFunc' = hasErrorFunc
  /\ Panic' = "plain"
  /\ \E kind \in {"lua", "go"} : frames' = Append(frames, kind)
  /\ raising' = "none"
  /\ UNCHANGED upvalueVars
  /\ UNCHANGED raised

(* The error function is called on top of the frames that failed. *)
RunHandler ==
  /\ pcalls' = [pcalls EXCEPT ![Len(pcalls)] =
                  [sp |-> Current.sp, base |-> Depth, errfunc |-> Current.errfunc,
                   stage |-> "handler", oldpanic |-> Current.oldpanic]]
  /\ hasErrorFunc' = FALSE
  /\ Panic' = "plain"
  /\ \E kind \in {"lua", "go"} : frames' = Append(frames, kind)
  /\ raising' = "none"
  /\ UNCHANGED upvalueVars
  /\ UNCHANGED raised

(* There is no frame left for the error function: the stack overflow that
   calling it raises, which closes the upvalues, becomes the error. *)
HandlerOverflow ==
  /\ EndPCall
  /\ closeAllUpvalues
  /\ VariablesGo(LocalBase(Current.sp + 1))
  /\ raising' = "none"
  /\ raised' = raised \cup {"closing"}

(* There is no register left to push the error function: that raises again
   out of the deferred function, before it has unwound the frames. *)
HandlerDoesNotFit ==
  /\ pcalls' = OtherPCalls
  /\ Panic' = Current.oldpanic
  /\ hasErrorFunc' = FALSE
  /\ Raise(FALSE, "overflow")
  /\ UNCHANGED frames

HandlerDue == Current.stage = "body" /\ Current.errfunc

Recover ==
  /\ raising # "none"
  /\ pcalls # << >>
  /\ \/ ~HandlerDue /\ Unwind
     \/ HandlerDue /\ raising # "overflow" /\ ~IsFull /\ RunHandler
     \/ HandlerDue /\ raising # "overflow" /\ IsFull /\ HandlerOverflow
     \/ HandlerDue /\ raising = "overflow" /\ HandlerDoesNotFit

Next ==
  \/ RaiseError
  \/ GoPanic
  \/ Call
  \/ ProtectedCall
  \/ TailCall
  \/ TailCallGo
  \/ Return
  \/ Capture
  \/ EndBlock
  \/ Recover

Spec == Init /\ [][Next]_vars
-----------------------------------------------------------------------------
(* The list holds all open upvalues, each once and in the order of their
   registers: findUpvalue and closeUpvalues, which stop or cut the list at
   the first upvalue from a register on, miss none. *)
OpenListed ==
  /\ \A i, j \in 1 .. Len(uvcache) : i < j => uvcache[i] < uvcache[j]
  /\ opened = {uvcache[i] : i \in 1 .. Len(uvcache)}

(* An open upvalue belongs to a variable that exists: a closure never reads
   or writes a register that another frame has taken over.  So it is as long
   as every error was raised with hasErrorFunc reset and none was a plain Go
   panic. *)
NoDangling == "keeping" \notin raised => orphans = {}

(* The same whatever errors there were. *)
NeverDangling == orphans = {}

(* A live variable and the closures that captured it stay one variable until
   an error is raised; then those of all frames are separated, the ones that
   the error does not reach included. *)
SharedUntilError == "closing" \notin raised => detached = {}

(* ls.Panic is a PCall's exactly while one is running, on every way out of
   its body and of its handler: the host's is not left behind by one that
   failed, nor lost under one that goes on. *)
PanicOfPCall == Panic = "plain" <=> pcalls # << >>

(* Some PCall with an error function still runs its body, and no error
   function runs above it: it waits for an error that reaches it. *)
ErrorFuncWaits ==
  \E i \in 1 .. Len(pcalls) :
    /\ pcalls[i].errfunc
    /\ \A j \in i .. Len(pcalls) : pcalls[j].stage = "body"

(* An error that raiseError or Error throws leaves upvalues of existing
   variables open only if an error function still waits below: the flag of an
   error function that runs, has failed or was not needed lives on nowhere.
   The PCall that catches the error need not be the one that waits, see
   KeptForHandler. *)
KeptForErrorFunc ==
  raising \in {"error", "overflow"} /\ opened # orphans => ErrorFuncWaits

(* The same of the PCall that is to catch the error.  A PCall without an error
   function in the body of one that has one is not told apart by
   hasErrorFunc: it drops the frames and runs no function for the error. *)
KeptForHandler == raising = "error" /\ opened # orphans => HandlerDue

(* The PCalls in progress are nested, each called from a Go function whose
   frame is still there (or, the first, from the host), so that unwinding one
   drops no frame of an outer one and leaves its own caller on top. *)
PCallsNested ==
  /\ \A i \in 1 .. Len(pcalls) :
       /\ pcalls[i].sp <= pcalls[i].base /\ pcalls[i].base <= Depth
       /\ pcalls[i].sp = 0 <=> i = 1
       /\ pcalls[i].sp # 0 => frames[pcalls[i].sp] # "lua"
  /\ \A i, j \in 1 .. Len(pcalls) : i < j => pcalls[i].base < pcalls[j].sp

(* An error does not travel past the last PCall into the host. *)
NoPanicPastPCall == pcalls = << >> => raising = "none"
=============================================================================
