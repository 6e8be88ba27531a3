----------------------------- MODULE Coroutines -----------------------------
(***************************************************************************)
(* Coroutines: coroutinelib.go, and switchToParentThread, callGFunction    *)
(* and threadRun of vm.go.                                                 *)
(*                                                                         *)
(* A resume is a Go call: coResume calls threadRun, which runs the main    *)
(* loop of the resumed thread until a yield, the end of the body or an     *)
(* error makes it return.  So what really runs is decided by the Go stack  *)
(* (variable stack), while the interpreter keeps its own account of it in  *)
(* G.CurrentThread, LState.Parent and LState.Dead.  The module models both *)
(* and the properties compare them.                                        *)
(***************************************************************************)
EXTENDS Naturals, Sequences

CONSTANTS
  Coroutines, \* the threads programs create
  Main,       \* G.MainThread
  None,       \* the nil *LState
  Wrapped,    \* the coroutines made by coroutine.wrap
  GoBodies,   \* the coroutines whose body is a Go function that calls no Lua
              \* function, like print, error or coroutine.yield itself
  Habits,     \* which of AllHabits the programs have
  MaxDepth    \* bound on nested resumes: the Go stack of one interpreter

Threads == Coroutines \cup {Main}

AllHabits ==
  { "wrapped_error",  \* an error escapes the body of a wrapped coroutine
    "yield_in_pcall", \* yield is called under pcall, a metamethod or sort
    "resume_active"   \* a coroutine that is resuming another one is resumed
  }

ASSUME ThreadAssumption ==
  /\ Main \notin Coroutines
  /\ None \notin Threads
  /\ Wrapped \subseteq Coroutines
  /\ GoBodies \subseteq Coroutines
  /\ Habits \subseteq AllHabits
  /\ MaxDepth \in Nat \ {0}

VARIABLES
  CurrentThread, \* G.CurrentThread
  Parent,        \* LState.Parent: the thread to switch back to
  Dead,          \* LState.Dead
  phase,         \* what a thread has come to: see Phases
  stack,         \* the Go stack of thread activations, the running one last
  protected,     \* the thread's code runs under a pcall (one level per thread)
  control        \* what the last activation does: see Controls

vars == <<CurrentThread, Parent, Dead, phase, stack, protected, control>>

Phases ==
  { "none",     \* not created
    "fresh",    \* created: its first frame is pushed, currentFrame is nil
    "started",  \* its body has begun
    "finished", \* its body returned, or was a Go function that yielded: the
                \* frame stack is empty
    "failed"    \* an error left its body
  }

Controls ==
  { "running",  \* it executes Lua code, or a Go function called from it
    "raising",  \* an error is travelling up from it
    "entangled" \* two activations share its frame stack: see RunAgain
  }

TypeOK ==
  /\ CurrentThread \in Threads
  /\ Parent \in [Threads -> Threads \cup {None}]
  /\ Dead \in [Threads -> BOOLEAN]
  /\ phase \in [Threads -> Phases]
  /\ stack \in Seq(Threads) /\ Len(stack) \in 1 .. MaxDepth
  /\ protected \in [Threads -> BOOLEAN]
  /\ control \in Controls

Depth == Len(stack)
Running == stack[Depth]
ActiveThreads == {stack[i] : i \in 1 .. Depth}
Executing == control = "running"

(* The running activation has a recover below it that is not threadRun's:
   a pcall's, or for the main thread that of the host's call. *)
Protected == Running = Main \/ protected[Running]

(* An error that starts here does not escape a wrapped coroutine, or the
   programs have that habit. *)
MayRaise == Running \in Wrapped => Protected \/ "wrapped_error" \in Habits

Init ==
  /\ CurrentThread = Main
  /\ Parent = [t \in Threads |-> None]
  /\ Dead = [t \in Threads |-> FALSE]
  /\ phase = [t \in Threads |-> IF t = Main THEN "started" ELSE "none"]
  /\ stack = <<Main>>
  /\ protected = [t \in Threads |-> FALSE]
  /\ control = "running"

-----------------------------------------------------------------------------
(* threadRun returns: control is back in the coResume of the activation
   below, which has nothing more to do. *)
Leave == stack' = SubSeq(stack, 1, Depth - 1)

(* The definitions whose names begin with "Mutant" are each a later one with
   a plausible bug; they show that the properties notice. *)
MutantSwitchForgetsCurrent(t, kill) ==
  /\ CurrentThread' = CurrentThread
  /\ Parent' = [Parent EXCEPT ![t] = None]
  /\ Dead' = [Dead EXCEPT ![t] = @ \/ kill]

MutantSwitchNeverKills(t, kill) ==
  /\ CurrentThread' = Parent[t]
  /\ Parent' = [Parent EXCEPT ![t] = None]
  /\ UNCHANGED Dead

(* switchToParentThread: the account of who runs goes back to the parent;
   the Go call that was made returns, or not, after that. *)
SwitchToParent(t, kill) ==
  /\ CurrentThread' = Parent[t]
  /\ Parent' = [Parent EXCEPT ![t] = None]
  /\ Dead' = [Dead EXCEPT ![t] = @ \/ kill]

(* An error starts in the running activation. *)
StartRaising ==
  /\ control' = "raising"
  /\ UNCHANGED <<CurrentThread, Parent, Dead, phase, stack, protected>>

(* coCreate and coWrap. *)
Create(t) ==
  /\ Executing
  /\ phase[t] = "none"
  /\ phase' = [phase EXCEPT ![t] = "fresh"]
  /\ UNCHANGED <<CurrentThread, Parent, Dead, stack, protected, control>>

(* pcall: a call that is made under a recover. *)
EnterPCall ==
  /\ Executing
  /\ ~protected[Running]
  /\ protected' = [protected EXCEPT ![Running] = TRUE]
  /\ UNCHANGED <<CurrentThread, Parent, Dead, phase, stack, control>>

LeavePCall ==
  /\ Executing
  /\ protected[Running]
  /\ protected' = [protected EXCEPT ![Running] = FALSE]
  /\ UNCHANGED <<CurrentThread, Parent, Dead, phase, stack, control>>

-----------------------------------------------------------------------------
(* coResume of thread t in thread r. *)

MutantRefusal(t) == IF CurrentThread = t THEN "running" ELSE ""

(* The two refusals: a wrapped coroutine's are raised in the resumer, the
   others are returned. *)
Refusal(t) ==
  IF CurrentThread = t THEN "running" ELSE IF Dead[t] THEN "dead" ELSE ""

Refuse(t) ==
  /\ Refusal(t) # ""
  /\ IF t \in Wrapped THEN MayRaise /\ StartRaising ELSE UNCHANGED vars

MutantTakeOverNoParent(r, t) ==
  /\ Refusal(t) = ""
  /\ CurrentThread' = t
  /\ UNCHANGED Parent

(* What coResume does first when it does not refuse. *)
TakeOver(r, t) ==
  /\ Refusal(t) = ""
  /\ Parent' = [Parent EXCEPT ![t] = r]
  /\ CurrentThread' = t

(* threadRun of a thread with a frame to run: its body, or what follows the
   yield it was suspended in.  A thread that an error has left is not
   refused unless it is Dead: it goes on after the instruction that failed. *)
RunThread(r, t) ==
  /\ TakeOver(r, t)
  /\ t \notin ActiveThreads
  /\ t \notin GoBodies
  /\ phase[t] \in {"fresh", "started", "failed"}
  /\ Depth < MaxDepth
  /\ stack' = Append(stack, t)
  /\ phase' = [phase EXCEPT ![t] = IF @ = "fresh" THEN "started" ELSE @]
  /\ UNCHANGED <<Dead, protected, control>>

(* A Go body that returns: the main loop returns too, switching to nobody. *)
GoBodyReturns(r, t) ==
  /\ TakeOver(r, t)
  /\ phase' = [phase EXCEPT ![t] = "finished"]
  /\ UNCHANGED <<Dead, control>>

(* The resumer's account after a switch back within the resume. *)
SwitchedBack(r, t) ==
  /\ CurrentThread' = r
  /\ Parent' = [Parent EXCEPT ![t] = None]

(* One that yields: the frame that is popped is the only one. *)
GoBodyYields(r, t) ==
  /\ SwitchedBack(r, t)
  /\ phase' = [phase EXCEPT ![t] = "finished"]
  /\ UNCHANGED <<Dead, control>>

(* One that fails: what Escape does after a Lua body, in the same call. *)
GoBodyFails(r, t) ==
  /\ phase' = [phase EXCEPT ![t] = "failed"]
  /\ \/ /\ t \notin Wrapped
        /\ SwitchedBack(r, t)
        /\ Dead' = [Dead EXCEPT ![t] = TRUE]
        /\ UNCHANGED control
     \/ /\ t \in Wrapped
        /\ "wrapped_error" \in Habits
        /\ TakeOver(r, t)
        /\ control' = "raising"
        /\ UNCHANGED Dead

(* threadRun of a Go body: callGFunction calls it, for a second time when
   it has failed and was not killed. *)
RunGoBody(r, t) ==
  /\ Refusal(t) = ""
  /\ t \notin ActiveThreads
  /\ t \in GoBodies
  /\ phase[t] \in {"fresh", "failed"}
  /\ GoBodyReturns(r, t) \/ GoBodyYields(r, t) \/ GoBodyFails(r, t)
  /\ UNCHANGED <<stack, protected>>

(* A thread that is neither dead nor has a frame: cf is nil when coResume
   stores NArgs in it, a Go panic in the resumer. *)
RunNothing(r, t) ==
  /\ TakeOver(r, t)
  /\ phase[t] = "finished"
  /\ MayRaise
  /\ control' = "raising"
  /\ UNCHANGED <<Dead, phase, stack, protected>>

(* A thread that is active already.  Its last frame is the Go frame of the
   coResume it is in; the new main loop calls that function a second time
   with the same argument, and both calls pop the frame.  What follows, most
   often a recursion until the Go stack overflows, is not modelled. *)
RunAgain(r, t) ==
  /\ "resume_active" \in Habits
  /\ TakeOver(r, t)
  /\ t \in ActiveThreads
  /\ Depth < MaxDepth
  /\ stack' = Append(stack, t)
  /\ control' = "entangled"
  /\ UNCHANGED <<Dead, phase, protected>>

coResume(r, t) ==
  \/ Refuse(t)
  \/ RunThread(r, t)
  \/ RunGoBody(r, t)
  \/ RunNothing(r, t)
  \/ RunAgain(r, t)

(* coroutine.resume, or a call of the function that coroutine.wrap made. *)
Resume(t) ==
  /\ Executing
  /\ phase[t] # "none"
  /\ coResume(Running, t)

-----------------------------------------------------------------------------
(* coroutine.yield. *)

YieldOutside ==
  /\ Parent[Running] = None
  /\ MayRaise
  /\ StartRaising

(* Called from the Lua code that threadRun runs: threadRun returns. *)
YieldDirect ==
  /\ Parent[Running] # None
  /\ ~protected[Running]
  /\ SwitchToParent(Running, FALSE)
  /\ Leave
  /\ UNCHANGED <<phase, protected, control>>

(* Called under pcall: only the main loop that pcall started returns, the
   call it made is dropped, and the thread goes on after the pcall. *)
YieldInPCall ==
  /\ "yield_in_pcall" \in Habits
  /\ Parent[Running] # None
  /\ protected[Running]
  /\ SwitchToParent(Running, FALSE)
  /\ protected' = [protected EXCEPT ![Running] = FALSE]
  /\ UNCHANGED <<phase, stack, control>>

Yield == Executing /\ (YieldOutside \/ YieldDirect \/ YieldInPCall)

(* OP_RETURN of the body: with a parent the thread switches to it and is
   killed; without one it just runs out of frames. *)
Return ==
  /\ Executing
  /\ Running # Main
  /\ ~protected[Running]
  /\ phase' = [phase EXCEPT ![Running] = "finished"]
  /\ IF Parent[Running] # None
     THEN SwitchToParent(Running, TRUE)
     ELSE UNCHANGED <<CurrentThread, Parent, Dead>>
  /\ Leave
  /\ UNCHANGED <<protected, control>>

(* An error raised by Lua code. *)
Raise ==
  /\ Executing
  /\ MayRaise
  /\ StartRaising

(* The recover of PCall.  The host calls the main thread under one, too. *)
Caught ==
  /\ control = "raising"
  /\ Protected
  /\ protected' = [protected EXCEPT ![Running] = FALSE]
  /\ control' = "running"
  /\ UNCHANGED <<CurrentThread, Parent, Dead, phase, stack>>

(* The recover of threadRun: the error becomes the result of the resume, or
   is raised again in the resumer when the coroutine is a wrapped one or has
   no parent. *)
Escape ==
  /\ control = "raising"
  /\ ~Protected
  /\ phase' = [phase EXCEPT ![Running] = "failed"]
  /\ Leave
  /\ IF Parent[Running] # None /\ Running \notin Wrapped
     THEN SwitchToParent(Running, TRUE) /\ control' = "running"
     ELSE UNCHANGED <<CurrentThread, Parent, Dead, control>>
  /\ UNCHANGED protected

Next ==
  \/ \E t \in Coroutines : Create(t)
  \/ EnterPCall
  \/ LeavePCall
  \/ \E t \in Coroutines : Resume(t)
  \/ Yield
  \/ Return
  \/ Raise
  \/ Caught
  \/ Escape

Spec == Init /\ [][Next]_vars

-----------------------------------------------------------------------------
(* Properties. *)

(* coroutine.running, coroutine.status and the self-resume check all believe
   G.CurrentThread: it is the thread whose code runs, through every resume,
   yield, error and pcall. *)
CurrentIsRunning == CurrentThread = Running

(* Parent of an active coroutine is the thread that resumed it, so that a
   yield, a return or an error hands control to the code that waits for it. *)
ParentIsResumer ==
  \A i \in 2 .. Depth : Parent[stack[i]] = stack[i - 1]

(* A suspended, new or dead coroutine has no parent: a later yield from a
   place that nobody resumed cannot switch anywhere. *)
NoStaleParent == \A t \in Threads \ ActiveThreads : Parent[t] = None

(* A coroutine whose body has returned or failed is refused as a dead
   thread when it is resumed. *)
EndedRefusedAsDead ==
  \A t \in Coroutines : phase[t] \in {"finished", "failed"} => Refusal(t) = "dead"

MutantStatus(t) ==
  CASE CurrentThread = t -> "running"
    [] CurrentThread # t /\ Parent[Running] = t -> "normal"
    [] OTHER -> "suspended"

(* coroutine.status, seen from the running thread. *)
Status(t) ==
  CASE Dead[t] -> "dead"
    [] ~Dead[t] /\ CurrentThread = t -> "running"
    [] ~Dead[t] /\ CurrentThread # t /\ Parent[Running] = t -> "normal"
    [] OTHER -> "suspended"

(* status tells the truth about the coroutines programs branch on: running
   is the one that runs, dead the ones whose body ended, normal only one
   that waits for the running one. *)
StatusIsTrue ==
  \A t \in Coroutines :
    /\ Status(t) = "running" <=> t = Running
    /\ Status(t) = "dead" <=> phase[t] \in {"finished", "failed"}
    /\ Status(t) = "normal" => t \in ActiveThreads

(* An error that leaves the body of a coroutine made by coroutine.create
   becomes the result of its resume: it does not travel on. *)
ErrorStopsAtResume ==
  [][Escape /\ Running \notin Wrapped => control' # "raising"]_vars

(* A dead coroutine is never given control again, whatever programs do. *)
DeadNeverResumed ==
  [][\A t \in Coroutines :
       Dead[t] => Dead'[t] /\ (Depth' > Depth => Running' # t)]_vars

(* A body that returned or failed never runs again. *)
EndedNeverRuns ==
  [][\A t \in Coroutines :
       phase[t] \in {"finished", "failed"} => t \notin ActiveThreads']_vars
=============================================================================
