--------------------------- MODULE CoroutinesProofs ---------------------------
(***************************************************************************)
(* For every set of coroutines: what holds of all programs, what holds as  *)
(* long as no coroutine yields under pcall or resumes an active one, and   *)
(* what holds when also no error escapes a wrapped coroutine and no        *)
(* coroutine has a Go body.  Each part has its inductive invariant.        *)
(***************************************************************************)
EXTENDS Coroutines, SequenceTheorems, TLAPS

(* Of all programs.  The main thread is at the bottom of the Go stack and
   is never resumed. *)
AnyInv ==
  /\ TypeOK
  /\ stack[1] = Main
  /\ Parent[Main] = None

USE ThreadAssumption

LEMMA StackFacts ==
  ASSUME TypeOK
  PROVE  /\ Depth \in 1 .. MaxDepth
         /\ Running \in Threads
         /\ \A i \in 1 .. Depth : stack[i] \in Threads
         /\ ActiveThreads \subseteq Threads
  BY DEF TypeOK, Depth, Running, ActiveThreads

(* What a resume that starts an activation does to the Go stack. *)
LEMMA PushFacts ==
  ASSUME TypeOK, NEW t \in Threads, stack' = Append(stack, t)
  PROVE  /\ stack' \in Seq(Threads)
         /\ Depth' = Depth + 1
         /\ Running' = t
         /\ \A i \in 1 .. Depth : stack'[i] = stack[i]
         /\ stack'[Depth + 1] = t
         /\ ActiveThreads' = ActiveThreads \cup {t}
  <1>1. stack \in Seq(Threads) /\ Len(stack) \in Nat
    BY DEF TypeOK
  <1>2. /\ stack' \in Seq(Threads)
        /\ Len(stack') = Len(stack) + 1
        /\ \A i \in 1 .. Len(stack) : stack'[i] = stack[i]
        /\ stack'[Len(stack) + 1] = t
    BY <1>1, AppendProperties
  <1>3. Depth' = Depth + 1 /\ Running' = t
    BY <1>1, <1>2 DEF Depth, Running
  <1>4. ActiveThreads' = {stack'[i] : i \in 1 .. Len(stack) + 1}
    BY <1>2 DEF ActiveThreads, Depth
  <1>5. \A i \in 1 .. Len(stack) + 1 : i \in 1 .. Len(stack) \/ i = Len(stack) + 1
    BY <1>1
  <1>6. ActiveThreads' = ActiveThreads \cup {t}
    BY <1>1, <1>2, <1>4, <1>5 DEF ActiveThreads, Depth
  <1> QED
    BY <1>1, <1>2, <1>3, <1>6 DEF Depth

(* What the end of an activation above the main thread's does to it. *)
LEMMA LeaveFacts ==
  ASSUME TypeOK, Leave, Depth >= 2
  PROVE  /\ stack' \in Seq(Threads)
         /\ Depth' = Depth - 1 /\ Len(stack') \in 1 .. MaxDepth
         /\ Running' = stack[Depth - 1]
         /\ \A i \in 1 .. Depth' : stack'[i] = stack[i]
  <1>1. stack \in Seq(Threads) /\ Len(stack) \in 1 .. MaxDepth /\ Len(stack) >= 2
    BY DEF TypeOK, Depth
  <1>2. /\ Len(stack) - 1 \in Nat
        /\ stack' = SubSeq(stack, 1, Len(stack) - 1)
    BY <1>1 DEF Leave, Depth
  <1>3. /\ stack' = [i \in 1 .. Len(stack) - 1 |-> stack[i]]
        /\ Len(stack') = Len(stack) - 1
    BY <1>1, <1>2
  <1>4. stack' \in Seq(Threads)
    BY <1>1, <1>3
  <1> QED
    BY <1>1, <1>3, <1>4 DEF Depth, Running

LEMMA BottomIsMain ==
  ASSUME AnyInv, Running # Main
  PROVE  Depth >= 2
  BY StackFacts DEF AnyInv, Depth, Running

LEMMA InitAny == Init => AnyInv
  BY DEF Init, AnyInv, TypeOK, Phases, Controls, Threads

(* A switch to the parent keeps the types. *)
LEMMA SwitchFacts ==
  ASSUME TypeOK, NEW t \in Threads, NEW kill \in BOOLEAN,
         Parent[t] # None, SwitchToParent(t, kill)
  PROVE  /\ CurrentThread' \in Threads
         /\ Parent' \in [Threads -> Threads \cup {None}]
         /\ Parent'[t] = None
         /\ \A u \in Threads : u # t => Parent'[u] = Parent[u]
         /\ Dead' \in [Threads -> BOOLEAN]
         /\ \A u \in Threads : Dead[u] => Dead'[u]
         /\ \A u \in Threads : u # t => Dead'[u] = Dead[u]
         /\ Dead'[t] = (Dead[t] \/ kill)
  <1>1. /\ CurrentThread' = Parent[t]
        /\ Parent' = [Parent EXCEPT ![t] = None]
        /\ Dead' = [Dead EXCEPT ![t] = Dead[t] \/ kill]
    BY DEF SwitchToParent
  <1>2. /\ CurrentThread' \in Threads
        /\ Parent' \in [Threads -> Threads \cup {None}]
        /\ Parent'[t] = None
        /\ \A u \in Threads : u # t => Parent'[u] = Parent[u]
    BY <1>1 DEF TypeOK
  <1>3. Dead' \in [Threads -> BOOLEAN]
    BY <1>1, Zenon DEF TypeOK
  <1>4. Dead'[t] = (Dead[t] \/ kill)
    BY <1>1, Zenon DEF TypeOK
  <1>5. \A u \in Threads : u # t => Dead'[u] = Dead[u]
    BY <1>1, Zenon DEF TypeOK
  <1>6. \A u \in Threads : Dead[u] => Dead'[u]
    BY <1>3, <1>4, <1>5, Zenon
  <1> QED
    BY <1>2, <1>3, <1>4, <1>5, <1>6

(* A Go body leaves the account of everyone else alone. *)
LEMMA GoBodyFacts ==
  ASSUME TypeOK, NEW t \in Coroutines, RunGoBody(Running, t)
  PROVE  /\ t \notin ActiveThreads
         /\ UNCHANGED <<stack, protected>>
         /\ CurrentThread' \in Threads
         /\ Parent' \in [Threads -> Threads \cup {None}]
         /\ \A u \in Threads : u # t => Parent'[u] = Parent[u]
         /\ phase' \in [Threads -> Phases]
         /\ \A u \in Threads : u # t => phase'[u] = phase[u]
         /\ Dead' \in [Threads -> BOOLEAN]
         /\ \A u \in Threads : Dead[u] => Dead'[u]
         /\ control' = control \/ control' = "raising"
  <1>1. Running \in Threads /\ t \in Threads
    BY StackFacts DEF Threads
  <1>2. /\ t \notin ActiveThreads
        /\ UNCHANGED <<stack, protected>>
        /\ GoBodyReturns(Running, t) \/ GoBodyYields(Running, t) \/ GoBodyFails(Running, t)
    BY DEF RunGoBody
  <1>3. /\ CurrentThread' \in {Running, t}
        /\ \E p \in {Running, None} : Parent' = [Parent EXCEPT ![t] = p]
    BY <1>2 DEF GoBodyReturns, GoBodyYields, GoBodyFails, SwitchedBack, TakeOver
  <1>4. \E p \in {"finished", "failed"} : phase' = [phase EXCEPT ![t] = p]
    BY <1>2 DEF GoBodyReturns, GoBodyYields, GoBodyFails
  <1>5. Dead' = Dead \/ Dead' = [Dead EXCEPT ![t] = TRUE]
    BY <1>2 DEF GoBodyReturns, GoBodyYields, GoBodyFails
  <1>6. control' = control \/ control' = "raising"
    BY <1>2 DEF GoBodyReturns, GoBodyYields, GoBodyFails
  <1>7. /\ Parent' \in [Threads -> Threads \cup {None}]
        /\ \A u \in Threads : u # t => Parent'[u] = Parent[u]
    BY <1>1, <1>3 DEF TypeOK
  <1>8. /\ phase' \in [Threads -> Phases]
        /\ \A u \in Threads : u # t => phase'[u] = phase[u]
    BY <1>1, <1>4 DEF TypeOK, Phases
  <1>9. /\ Dead' \in [Threads -> BOOLEAN]
        /\ \A u \in Threads : Dead[u] => Dead'[u]
    BY <1>1, <1>5, Zenon DEF TypeOK
  <1> QED
    BY <1>1, <1>2, <1>3, <1>6, <1>7, <1>8, <1>9

LEMMA NextAny == AnyInv /\ [Next]_vars => AnyInv'
  <1> SUFFICES ASSUME AnyInv, [Next]_vars PROVE AnyInv'
    OBVIOUS
  <1> USE DEF AnyInv
  <1>1. TypeOK /\ Running \in Threads /\ Depth \in 1 .. MaxDepth
    BY StackFacts
  <1>2. ASSUME NEW t \in Coroutines, Create(t) PROVE AnyInv'
    BY <1>2 DEF Create, TypeOK, Threads, Phases, Depth
  <1>3. CASE EnterPCall
    BY <1>1, <1>3 DEF EnterPCall, TypeOK, Threads
  <1>4. CASE LeavePCall
    BY <1>1, <1>4 DEF LeavePCall, TypeOK, Threads
  <1>5. CASE StartRaising
    BY <1>5 DEF StartRaising, TypeOK, Controls
  <1>6. ASSUME NEW t \in Coroutines, Resume(t) PROVE AnyInv'
    <2>1. t \in Threads /\ t # Main
      BY DEF Threads
    <2>2. CASE Refuse(t)
      BY <1>5, <2>2 DEF Refuse, TypeOK, vars
    <2>3. ASSUME TakeOver(Running, t)
          PROVE  /\ Parent' \in [Threads -> Threads \cup {None}]
                 /\ Parent'[Main] = None
                 /\ CurrentThread' \in Threads
      <3>1. Main \in Threads /\ Parent' = [Parent EXCEPT ![t] = Running] /\ CurrentThread' = t
        BY <2>3 DEF TakeOver, Threads
      <3>2. Parent \in [Threads -> Threads \cup {None}]
        BY DEF TypeOK
      <3> QED
        BY <1>1, <2>1, <3>1, <3>2
    <2>4. CASE RunThread(Running, t)
      <3>1. TakeOver(Running, t) /\ stack' = Append(stack, t) /\ Depth < MaxDepth
        BY <2>4 DEF RunThread
      <3>2. stack' \in Seq(Threads) /\ Len(stack') \in 1 .. MaxDepth /\ stack'[1] = Main
        BY <1>1, <2>1, <3>1, PushFacts DEF Depth
      <3>3. /\ phase' \in [Threads -> Phases]
            /\ UNCHANGED <<Dead, protected, control>>
        BY <2>1, <2>4 DEF RunThread, TypeOK, Phases
      <3> QED
        BY <2>3, <3>1, <3>2, <3>3 DEF TypeOK
    <2>5. CASE RunGoBody(Running, t)
      BY <2>1, <2>5, GoBodyFacts DEF TypeOK, Controls, Threads
    <2>6. CASE RunNothing(Running, t)
      BY <2>1, <2>3, <2>6 DEF RunNothing, TypeOK, Controls
    <2>7. CASE RunAgain(Running, t)
      <3>1. TakeOver(Running, t) /\ stack' = Append(stack, t) /\ Depth < MaxDepth
        BY <2>7 DEF RunAgain
      <3>2. stack' \in Seq(Threads) /\ Len(stack') \in 1 .. MaxDepth /\ stack'[1] = Main
        BY <1>1, <2>1, <3>1, PushFacts DEF Depth
      <3>3. control' \in Controls /\ UNCHANGED <<Dead, phase, protected>>
        BY <2>7 DEF RunAgain, Controls
      <3> QED
        BY <2>3, <3>1, <3>2, <3>3 DEF TypeOK
    <2> QED
      BY <1>6, <2>2, <2>4, <2>5, <2>6, <2>7 DEF Resume, coResume
  <1>7. ASSUME Leave, Running # Main
        PROVE  stack' \in Seq(Threads) /\ Len(stack') \in 1 .. MaxDepth /\ stack'[1] = Main
    BY <1>1, <1>7, LeaveFacts, BottomIsMain DEF Depth
  <1>8. ASSUME NEW kill \in BOOLEAN, Parent[Running] # None, SwitchToParent(Running, kill)
        PROVE  /\ CurrentThread' \in Threads
               /\ Parent' \in [Threads -> Threads \cup {None}]
               /\ Parent'[Main] = None
               /\ Dead' \in [Threads -> BOOLEAN]
    <2>1. Running # Main /\ Main \in Threads
      BY <1>8 DEF Threads
    <2> QED
      BY <1>1, <1>8, <2>1, SwitchFacts
  <1>9. CASE Yield
    <2>1. CASE YieldOutside
      BY <1>5, <2>1 DEF YieldOutside
    <2>2. CASE YieldDirect
      BY <1>1, <1>7, <1>8, <2>2 DEF YieldDirect, TypeOK
    <2>3. CASE YieldInPCall
      BY <1>1, <1>8, <2>3 DEF YieldInPCall, TypeOK
    <2> QED
      BY <1>9, <2>1, <2>2, <2>3 DEF Yield
  <1>10. CASE Return
    <2>1. phase' \in [Threads -> Phases] /\ UNCHANGED <<protected, control>>
      BY <1>1, <1>10 DEF Return, TypeOK, Phases
    <2>2. CASE Parent[Running] # None
      BY <1>7, <1>8, <1>10, <2>1, <2>2 DEF Return, TypeOK
    <2>3. CASE Parent[Running] = None
      BY <1>7, <1>10, <2>1, <2>3 DEF Return, TypeOK
    <2> QED
      BY <2>2, <2>3
  <1>11. CASE Raise
    BY <1>5, <1>11 DEF Raise
  <1>12. CASE Caught
    BY <1>1, <1>12 DEF Caught, TypeOK, Controls
  <1>13. CASE Escape
    <2>1. /\ phase' \in [Threads -> Phases]
          /\ Running # Main
          /\ Leave
          /\ UNCHANGED protected
      BY <1>1, <1>13 DEF Escape, Protected, TypeOK, Phases
    <2>2. CASE Parent[Running] # None /\ Running \notin Wrapped
      <3>1. SwitchToParent(Running, TRUE) /\ control' \in Controls
        BY <1>13, <2>2 DEF Escape, Controls
      <3> QED
        BY <1>7, <1>8, <2>1, <2>2, <3>1 DEF TypeOK
    <2>3. CASE ~(Parent[Running] # None /\ Running \notin Wrapped)
      <3>1. UNCHANGED <<CurrentThread, Parent, Dead, control>>
        BY <1>13, <2>3 DEF Escape
      <3> QED
        BY <1>7, <2>1, <3>1 DEF TypeOK
    <2> QED
      BY <2>2, <2>3
  <1>14. CASE UNCHANGED vars
    BY <1>14 DEF vars, TypeOK
  <1> QED
    BY <1>2, <1>3, <1>4, <1>6, <1>9, <1>10, <1>11, <1>12, <1>13, <1>14 DEF Next

(* Whatever programs do, the main thread is at the bottom of the Go stack and
   has no parent. *)
THEOREM AnyInvariant == Spec => []AnyInv
  BY InitAny, NextAny, PTL DEF Spec

(* Of all programs: the variables keep their types; in particular control
   never goes to the nil thread and the Go stack is never empty. *)
THEOREM CoroutinesTypeOK == Spec => []TypeOK
  BY AnyInvariant, PTL DEF AnyInv

LEMMA DeadStep ==
  ASSUME AnyInv, Next, NEW t \in Coroutines, Dead[t]
  PROVE  Dead'[t] /\ (Depth' > Depth => Running' # t)
  <1>1. TypeOK /\ Running \in Threads /\ Depth \in 1 .. MaxDepth /\ t \in Threads
    BY StackFacts DEF AnyInv, Threads
  <1>2. CASE UNCHANGED <<Dead, stack>>
    BY <1>1, <1>2 DEF Depth
  <1>3. ASSUME NEW u \in Coroutines, Resume(u) PROVE Dead'[t] /\ (Depth' > Depth => Running' # t)
    <2>1. CASE Refuse(u)
      BY <1>2, <2>1 DEF Refuse, StartRaising, vars
    <2>2. ASSUME TakeOver(Running, u), UNCHANGED Dead, stack' = Append(stack, u)
          PROVE  Dead'[t] /\ (Depth' > Depth => Running' # t)
      <3>1. ~Dead[u]
        BY <2>2 DEF TakeOver, Refusal
      <3>2. Running' = u
        BY <1>1, <2>2, PushFacts DEF Threads
      <3> QED
        BY <2>2, <3>1, <3>2
    <2>3. CASE RunGoBody(Running, u)
      <3>1. Dead'[t] /\ UNCHANGED stack
        BY <1>1, <2>3, GoBodyFacts
      <3> QED
        BY <1>1, <3>1 DEF Depth
    <2> QED
      BY <1>2, <1>3, <2>1, <2>2, <2>3
      DEF Resume, coResume, RunThread, RunNothing, RunAgain
  <1>4. ASSUME Leave, Running # Main PROVE ~(Depth' > Depth)
    BY <1>1, <1>4, LeaveFacts, BottomIsMain
  <1>5. ASSUME NEW kill \in BOOLEAN, Parent[Running] # None, SwitchToParent(Running, kill)
        PROVE  Dead'[t] /\ Running # Main
    BY <1>1, <1>5, SwitchFacts DEF AnyInv
  <1>6. CASE Yield
    <2>1. CASE YieldOutside
      BY <1>2, <2>1 DEF YieldOutside, StartRaising
    <2>2. CASE YieldDirect
      BY <1>4, <1>5, <2>2 DEF YieldDirect
    <2>3. CASE YieldInPCall
      <3>1. Dead'[t] /\ UNCHANGED stack
        BY <1>5, <2>3 DEF YieldInPCall
      <3> QED
        BY <1>1, <3>1 DEF Depth
    <2> QED
      BY <1>6, <2>1, <2>2, <2>3 DEF Yield
  <1>7. CASE Return
    <2>1. Leave /\ Running # Main
      BY <1>7 DEF Return
    <2>2. Dead'[t]
      BY <1>5, <1>7 DEF Return
    <2> QED
      BY <1>4, <2>1, <2>2
  <1>8. CASE Escape
    <2>1. Leave /\ Running # Main
      BY <1>8 DEF Escape, Protected
    <2>2. Dead'[t]
      BY <1>5, <1>8 DEF Escape
    <2> QED
      BY <1>4, <2>1, <2>2
  <1> QED
    BY <1>2, <1>3, <1>6, <1>7, <1>8
    DEF Next, Create, EnterPCall, LeavePCall, Raise, StartRaising, Caught

(* Of all programs: a dead coroutine stays dead and never runs again. *)
THEOREM CoroutinesDeadNeverResumed == Spec => DeadNeverResumed
  <1>1. AnyInv /\ [Next]_vars =>
          [\A t \in Coroutines :
             Dead[t] => Dead'[t] /\ (Depth' > Depth => Running' # t)]_vars
    BY DeadStep
  <1> QED
    BY <1>1, AnyInvariant, PTL DEF Spec, DeadNeverResumed

-----------------------------------------------------------------------------
(* Of programs that neither yield under pcall nor resume an active coroutine:
   the active threads are distinct and linked by Parent. *)
Untangled == {"yield_in_pcall", "resume_active"} \cap Habits = {}

TreeInv ==
  /\ AnyInv
  /\ control # "entangled"
  /\ \A i, j \in 1 .. Depth : stack[i] = stack[j] => i = j
  /\ \A i \in 1 .. Depth : phase[stack[i]] \in {"started", "failed"}
  /\ ParentIsResumer

LEMMA InitTree == Init => TreeInv
  <1> SUFFICES ASSUME Init PROVE TreeInv
    OBVIOUS
  <1>1. Depth = 1 /\ stack[1] = Main /\ phase[Main] = "started" /\ control = "running"
    BY DEF Init, Depth, Threads
  <1> QED
    BY <1>1, InitAny DEF TreeInv, ParentIsResumer

(* The conjuncts of TreeInv after a step that leaves the stack alone. *)
LEMMA TreeSameStack ==
  ASSUME TreeInv, AnyInv', UNCHANGED stack, control' # "entangled",
         \A i \in 1 .. Depth : phase'[stack[i]] = phase[stack[i]],
         \A i \in 2 .. Depth : Parent'[stack[i]] = Parent[stack[i]]
  PROVE  TreeInv'
  BY DEF TreeInv, ParentIsResumer, Depth

(* The same after the last activation has left. *)
LEMMA TreeLeave ==
  ASSUME TreeInv, AnyInv', Running # Main, Leave, control' # "entangled",
         \A t \in Threads : t # Running => phase'[t] = phase[t] /\ Parent'[t] = Parent[t]
  PROVE  TreeInv'
  <1>1. /\ TypeOK /\ Depth \in 1 .. MaxDepth /\ Depth >= 2
        /\ \A i \in 1 .. Depth : stack[i] \in Threads
    BY StackFacts, BottomIsMain DEF TreeInv, AnyInv
  <1>2. Depth' = Depth - 1 /\ \A i \in 1 .. Depth - 1 : stack'[i] = stack[i]
    BY <1>1, LeaveFacts
  <1>3. \A i \in 1 .. Depth - 1 : stack[i] \in Threads /\ stack[i] # Running
    BY <1>1 DEF TreeInv, Running
  <1>4. \A i, j \in 1 .. Depth' : stack'[i] = stack'[j] => i = j
    BY <1>1, <1>2 DEF TreeInv
  <1>5. \A i \in 1 .. Depth' : phase'[stack'[i]] \in {"started", "failed"}
    BY <1>1, <1>2, <1>3 DEF TreeInv
  <1>6. \A i \in 2 .. Depth' : Parent'[stack'[i]] = stack'[i - 1]
    <2> SUFFICES ASSUME NEW i \in 2 .. Depth - 1 PROVE Parent'[stack'[i]] = stack'[i - 1]
      BY <1>2
    <2>1. i \in 1 .. Depth - 1 /\ i - 1 \in 1 .. Depth - 1 /\ i \in 2 .. Depth
      BY <1>1
    <2> QED
      BY <1>2, <1>3, <2>1 DEF TreeInv, ParentIsResumer
  <1> QED
    BY <1>4, <1>5, <1>6 DEF TreeInv, ParentIsResumer

LEMMA NextTree ==
  ASSUME Untangled
  PROVE  TreeInv /\ [Next]_vars => TreeInv'
  <1> SUFFICES ASSUME TreeInv, [Next]_vars PROVE TreeInv'
    OBVIOUS
  <1>1. /\ AnyInv /\ AnyInv' /\ TypeOK
        /\ Running \in Threads /\ Depth \in 1 .. MaxDepth
        /\ \A i \in 1 .. Depth : stack[i] \in Threads
        /\ control # "entangled"
    BY NextAny, StackFacts DEF TreeInv, AnyInv
  <1>2. \A i \in 1 .. Depth : stack[i] \in ActiveThreads
    BY DEF ActiveThreads
  <1>3. CASE UNCHANGED <<stack, phase, Parent>> /\ control' # "entangled"
    BY <1>1, <1>3, TreeSameStack
  <1>4. ASSUME NEW t \in Coroutines, Create(t) PROVE TreeInv'
    <2>1. \A i \in 1 .. Depth : stack[i] # t
      BY <1>4 DEF Create, TreeInv
    <2>2. \A u \in Threads : u # t => phase'[u] = phase[u]
      BY <1>1, <1>4 DEF Create, TypeOK
    <2> QED
      BY <1>1, <1>4, <2>1, <2>2, TreeSameStack DEF Create
  <1>5. ASSUME NEW t \in Coroutines, Resume(t) PROVE TreeInv'
    <2>1. t \in Threads
      BY DEF Threads
    <2>2. CASE Refuse(t)
      BY <1>1, <1>3, <2>2 DEF Refuse, StartRaising, vars
    <2>3. ASSUME TakeOver(Running, t)
          PROVE  /\ Parent'[t] = Running
                 /\ \A u \in Threads : u # t => Parent'[u] = Parent[u]
      <3>1. Parent' = [Parent EXCEPT ![t] = Running]
        BY <2>3 DEF TakeOver
      <3> QED
        BY <1>1, <2>1, <3>1 DEF TypeOK
    <2>4. CASE RunThread(Running, t)
      <3>1. /\ TakeOver(Running, t) /\ stack' = Append(stack, t)
            /\ control' = control
        BY <2>4 DEF RunThread
      <3>2. /\ Depth' = Depth + 1
            /\ \A i \in 1 .. Depth : stack'[i] = stack[i]
            /\ stack'[Depth + 1] = t
        BY <1>1, <2>1, <3>1, PushFacts
      <3>3. \A i \in 1 .. Depth : stack[i] \in Threads /\ stack[i] # t
        BY <1>1, <1>2, <2>4 DEF RunThread
      <3>4. /\ phase'[t] \in {"started", "failed"}
            /\ \A u \in Threads : u # t => phase'[u] = phase[u]
        BY <1>1, <2>1, <2>4 DEF RunThread, TypeOK
      <3>5. \A i \in 1 .. Depth + 1 : i \in 1 .. Depth \/ i = Depth + 1
        BY <1>1
      <3>6. \A i, j \in 1 .. Depth' : stack'[i] = stack'[j] => i = j
        BY <1>1, <3>2, <3>3, <3>5 DEF TreeInv
      <3>7. \A i \in 1 .. Depth' : phase'[stack'[i]] \in {"started", "failed"}
        BY <1>1, <3>2, <3>3, <3>4, <3>5 DEF TreeInv
      <3>8. \A i \in 2 .. Depth' : Parent'[stack'[i]] = stack'[i - 1]
        <4> SUFFICES ASSUME NEW i \in 2 .. Depth + 1 PROVE Parent'[stack'[i]] = stack'[i - 1]
          BY <3>2
        <4>1. CASE i = Depth + 1
          <5>1. i - 1 = Depth /\ stack'[Depth] = stack[Depth]
            BY <1>1, <3>2, <4>1
          <5> QED
            BY <2>3, <3>1, <3>2, <4>1, <5>1 DEF Running
        <4>2. CASE i # Depth + 1
          <5>1. i \in 2 .. Depth /\ i \in 1 .. Depth /\ i - 1 \in 1 .. Depth
            BY <1>1, <4>2
          <5> QED
            BY <2>3, <3>1, <3>2, <3>3, <5>1 DEF TreeInv, ParentIsResumer
        <4> QED
          BY <4>1, <4>2
      <3> QED
        BY <1>1, <3>1, <3>6, <3>7, <3>8 DEF TreeInv, ParentIsResumer
    <2>5. CASE RunNothing(Running, t)
      <3>1. \A i \in 1 .. Depth : stack[i] # t
        BY <2>5 DEF RunNothing, TreeInv
      <3>2. /\ TakeOver(Running, t) /\ UNCHANGED stack /\ control' # "entangled"
            /\ \A u \in Threads : u # t => phase'[u] = phase[u]
        BY <1>1, <2>1, <2>5 DEF RunNothing, TypeOK
      <3>3. \A i \in 2 .. Depth : i \in 1 .. Depth
        BY <1>1
      <3> QED
        BY <1>1, <2>3, <3>1, <3>2, <3>3, TreeSameStack
    <2>6. CASE RunGoBody(Running, t)
      <3>1. \A i \in 1 .. Depth : stack[i] # t
        BY <2>6, GoBodyFacts, <1>1 DEF ActiveThreads
      <3>2. \A i \in 2 .. Depth : i \in 1 .. Depth
        BY <1>1
      <3>3. UNCHANGED stack /\ control' # "entangled"
        BY <1>1, <2>6, GoBodyFacts DEF TreeInv
      <3>4. \A i \in 1 .. Depth : phase'[stack[i]] = phase[stack[i]]
        BY <1>1, <2>6, <3>1, GoBodyFacts
      <3>5. \A i \in 2 .. Depth : Parent'[stack[i]] = Parent[stack[i]]
        BY <1>1, <2>6, <3>1, <3>2, GoBodyFacts
      <3> QED
        BY <1>1, <3>3, <3>4, <3>5, TreeSameStack
    <2>7. ~RunAgain(Running, t)
      BY DEF Untangled, RunAgain
    <2> QED
      BY <1>5, <2>2, <2>4, <2>5, <2>6, <2>7 DEF Resume, coResume
  <1>6. ASSUME NEW kill \in BOOLEAN, Parent[Running] # None, SwitchToParent(Running, kill)
        PROVE  Running # Main /\ \A t \in Threads : t # Running => Parent'[t] = Parent[t]
    BY <1>1, <1>6, SwitchFacts DEF AnyInv
  <1>7. CASE Yield
    <2>1. CASE YieldOutside
      BY <1>3, <2>1 DEF YieldOutside, StartRaising
    <2>2. CASE YieldDirect
      BY <1>1, <1>6, <2>2, TreeLeave DEF YieldDirect
    <2>3. ~YieldInPCall
      BY DEF Untangled, YieldInPCall
    <2> QED
      BY <1>7, <2>1, <2>2, <2>3 DEF Yield
  <1>8. ASSUME phase' = [phase EXCEPT ![Running] = "finished"] \/
               phase' = [phase EXCEPT ![Running] = "failed"]
        PROVE  \A t \in Threads : t # Running => phase'[t] = phase[t]
    BY <1>1, <1>8 DEF TypeOK
  <1>9. CASE Return
    <2>1. Running # Main /\ Leave /\ control' = control
      BY <1>9 DEF Return
    <2>2. \A t \in Threads : t # Running => Parent'[t] = Parent[t]
      BY <1>6, <1>9 DEF Return
    <2>3. \A t \in Threads : t # Running => phase'[t] = phase[t]
      BY <1>8, <1>9 DEF Return
    <2> QED
      BY <1>1, <2>1, <2>2, <2>3, TreeLeave
  <1>10. CASE Escape
    <2>1. Running # Main /\ Leave /\ control' # "entangled"
      BY <1>10 DEF Escape, Protected
    <2>2. \A t \in Threads : t # Running => Parent'[t] = Parent[t]
      BY <1>6, <1>10 DEF Escape
    <2>3. \A t \in Threads : t # Running => phase'[t] = phase[t]
      BY <1>8, <1>10 DEF Escape
    <2> QED
      BY <1>1, <2>1, <2>2, <2>3, TreeLeave
  <1>11. CASE EnterPCall \/ LeavePCall \/ Raise \/ Caught \/ UNCHANGED vars
    BY <1>1, <1>3, <1>11 DEF EnterPCall, LeavePCall, Raise, StartRaising, Caught, vars
  <1> QED
    BY <1>4, <1>5, <1>7, <1>9, <1>10, <1>11 DEF Next

(* Control is handed to the code that waits for it: in such programs the
   Parent of every active coroutine is the thread that resumed it. *)
THEOREM CoroutinesParentIsResumer ==
  ASSUME Untangled
  PROVE  Spec => []ParentIsResumer
  <1>1. TreeInv => ParentIsResumer
    BY DEF TreeInv
  <1> QED
    BY <1>1, InitTree, NextTree, PTL DEF Spec

(* The recover of threadRun always finds a parent to hand the error to: in
   such programs, even when errors escape wrapped coroutines, an error that
   leaves the body of another coroutine ends at its resume. *)
THEOREM CoroutinesErrorStopsAtResume ==
  ASSUME Untangled
  PROVE  Spec => ErrorStopsAtResume
  <1>1. TreeInv => [Escape /\ Running \notin Wrapped => control' # "raising"]_vars
    <2> SUFFICES ASSUME TreeInv, Escape, Running \notin Wrapped PROVE control' # "raising"
      OBVIOUS
    <2>1. AnyInv /\ TypeOK /\ ParentIsResumer
      BY DEF TreeInv, AnyInv
    <2>2. Running # Main
      BY DEF Escape, Protected
    <2>3. Depth \in 2 .. MaxDepth
      BY <2>1, <2>2, BottomIsMain, StackFacts
    <2>4. Parent[Running] = stack[Depth - 1] /\ stack[Depth - 1] \in Threads
      BY <2>1, <2>3, StackFacts DEF ParentIsResumer, Running
    <2>5. Parent[Running] # None
      BY <2>4
    <2> QED
      BY <2>5 DEF Escape
  <1> QED
    BY <1>1, InitTree, NextTree, PTL DEF Spec, ErrorStopsAtResume

-----------------------------------------------------------------------------
(* Of programs that have none of the habits and no Go bodies: the account of
   who runs is the truth. *)
Disciplined == Habits = {} /\ GoBodies = {}

DInv ==
  /\ TreeInv
  /\ CurrentIsRunning
  /\ NoStaleParent
  /\ \A i \in 1 .. Depth : phase[stack[i]] = "started"
  /\ \A t \in Threads : Dead[t] <=> phase[t] \in {"finished", "failed"}
  /\ control = "raising" => Protected \/ Running \notin Wrapped

LEMMA InitD == Init => DInv
  <1> SUFFICES ASSUME Init PROVE DInv
    OBVIOUS
  <1>1. Depth = 1 /\ stack[1] = Main /\ phase[Main] = "started" /\ control = "running"
    BY DEF Init, Depth, Threads
  <1>2. CurrentIsRunning
    BY <1>1 DEF Init, CurrentIsRunning, Running
  <1>3. NoStaleParent
    BY DEF Init, NoStaleParent
  <1>4. \A t \in Threads : Dead[t] <=> phase[t] \in {"finished", "failed"}
    BY DEF Init
  <1> QED
    BY <1>1, <1>2, <1>3, <1>4, InitTree DEF DInv

(* In such programs a thread that yields, returns or fails hands the account
   over together with the control. *)
LEMMA HandOver ==
  ASSUME DInv, Running # Main, Leave, NEW kill \in BOOLEAN,
         SwitchToParent(Running, kill)
  PROVE  /\ CurrentThread' = Running'
         /\ Parent'[Running] = None
         /\ \A t \in Threads : t # Running => Parent'[t] = Parent[t] /\ Dead'[t] = Dead[t]
         /\ Dead'[Running] = (Dead[Running] \/ kill)
         /\ ActiveThreads \ {Running} \subseteq ActiveThreads'
         /\ Running \notin ActiveThreads'
         /\ \A i \in 1 .. Depth' : stack'[i] \in Threads /\ stack'[i] # Running
                                   /\ phase[stack'[i]] = "started"
  <1>1. /\ TypeOK /\ Depth \in 1 .. MaxDepth /\ Depth >= 2
        /\ Running \in Threads
        /\ \A i \in 1 .. Depth : stack[i] \in Threads
    BY StackFacts, BottomIsMain DEF DInv, TreeInv, AnyInv
  <1>2. /\ Depth' = Depth - 1 /\ Running' = stack[Depth - 1]
        /\ \A i \in 1 .. Depth - 1 : stack'[i] = stack[i]
    BY <1>1, LeaveFacts
  <1>3. Parent[Running] = stack[Depth - 1]
    BY <1>1 DEF DInv, TreeInv, ParentIsResumer, Running
  <1>4. Parent[Running] # None
    BY <1>1, <1>3 DEF Threads
  <1>5. CurrentThread' = Running'
    BY <1>2, <1>3 DEF SwitchToParent
  <1>6. \A i \in 1 .. Depth - 1 : stack[i] # Running
    BY <1>1 DEF DInv, TreeInv, Running
  <1>7. ActiveThreads' = {stack[i] : i \in 1 .. Depth - 1}
    BY <1>1, <1>2 DEF ActiveThreads
  <1>8. Running \notin ActiveThreads'
    BY <1>6, <1>7
  <1>9. ActiveThreads \ {Running} \subseteq ActiveThreads'
    <2>1. \A i \in 1 .. Depth : i = Depth \/ i \in 1 .. Depth - 1
      BY <1>1
    <2> QED
      BY <1>7, <2>1 DEF ActiveThreads, Running
  <1>10. \A i \in 1 .. Depth' : stack'[i] \in Threads /\ stack'[i] # Running
                                /\ phase[stack'[i]] = "started"
    BY <1>1, <1>2, <1>6 DEF DInv
  <1>11. /\ Parent'[Running] = None
         /\ \A t \in Threads : t # Running => Parent'[t] = Parent[t] /\ Dead'[t] = Dead[t]
         /\ Dead'[Running] = (Dead[Running] \/ kill)
    BY <1>1, <1>4, SwitchFacts
  <1> QED
    BY <1>5, <1>8, <1>9, <1>10, <1>11

(* DInv after such a step, which makes phase what it should be. *)
LEMMA DLeave ==
  ASSUME DInv, TreeInv', Running # Main, Leave, NEW kill \in BOOLEAN,
         SwitchToParent(Running, kill), control' = "running",
         \A t \in Threads : t # Running => phase'[t] = phase[t],
         phase'[Running] \in {"finished", "failed"} <=> (Dead[Running] \/ kill)
  PROVE  DInv'
  <1>1. CurrentIsRunning'
    BY HandOver DEF CurrentIsRunning
  <1>2. NoStaleParent'
    <2> SUFFICES ASSUME NEW t \in Threads, t \notin ActiveThreads' PROVE Parent'[t] = None
      BY DEF NoStaleParent, Threads
    <2>1. CASE t = Running
      BY <2>1, HandOver
    <2>2. CASE t # Running
      <3>1. t \notin ActiveThreads
        BY <2>2, HandOver
      <3> QED
        BY <2>2, <3>1, HandOver DEF DInv, NoStaleParent
    <2> QED
      BY <2>1, <2>2
  <1>3. \A i \in 1 .. Depth' : phase'[stack'[i]] = "started"
    BY HandOver
  <1>4. \A t \in Threads : Dead'[t] <=> phase'[t] \in {"finished", "failed"}
    <2> SUFFICES ASSUME NEW t \in Threads
                 PROVE  Dead'[t] <=> phase'[t] \in {"finished", "failed"}
      OBVIOUS
    <2>1. CASE t = Running
      BY <2>1, HandOver
    <2>2. CASE t # Running
      BY <2>2, HandOver DEF DInv
    <2> QED
      BY <2>1, <2>2
  <1> QED
    BY <1>1, <1>2, <1>3, <1>4 DEF DInv, Threads

LEMMA NextD ==
  ASSUME Disciplined
  PROVE  DInv /\ [Next]_vars => DInv'
  <1> SUFFICES ASSUME DInv, [Next]_vars PROVE DInv'
    OBVIOUS
  <1>1. /\ TreeInv /\ TreeInv' /\ TypeOK
        /\ Running \in Threads /\ Depth \in 1 .. MaxDepth
        /\ \A i \in 1 .. Depth : stack[i] \in Threads
        /\ Running \in ActiveThreads
    <2>1. Untangled
      BY DEF Disciplined, Untangled
    <2>2. Depth \in 1 .. Depth
      BY StackFacts DEF DInv, TreeInv, AnyInv
    <2> QED
      BY <2>1, <2>2, NextTree, StackFacts DEF DInv, TreeInv, AnyInv, ActiveThreads, Running
  <1>2. CASE UNCHANGED <<CurrentThread, Parent, Dead, phase, stack>> /\ control' = "running"
    <2>1. UNCHANGED <<Depth, Running, ActiveThreads>>
      BY <1>2 DEF Depth, Running, ActiveThreads
    <2> QED
      BY <1>1, <1>2, <2>1 DEF DInv, CurrentIsRunning, NoStaleParent
  <1>3. CASE MayRaise /\ StartRaising
    <2>1. UNCHANGED <<Depth, Running, ActiveThreads, Protected>>
      BY <1>3 DEF StartRaising, Depth, Running, ActiveThreads, Protected
    <2>2. Protected' \/ Running' \notin Wrapped
      BY <1>3, <2>1 DEF MayRaise, Disciplined
    <2> QED
      BY <1>1, <1>3, <2>1, <2>2 DEF DInv, CurrentIsRunning, NoStaleParent, StartRaising
  <1>4. CASE UNCHANGED vars
    <2>1. UNCHANGED <<Depth, Running, ActiveThreads, Protected>>
      BY <1>4 DEF vars, Depth, Running, ActiveThreads, Protected
    <2> QED
      BY <1>1, <1>4, <2>1 DEF DInv, CurrentIsRunning, NoStaleParent, vars
  <1>5. ASSUME NEW t \in Coroutines, Create(t) PROVE DInv'
    <2>1. UNCHANGED <<Depth, Running, ActiveThreads, CurrentThread, Parent, Dead, stack>>
      BY <1>5 DEF Create, Depth, Running, ActiveThreads
    <2>2. /\ phase'[t] = "fresh" /\ phase[t] = "none"
          /\ \A u \in Threads : u # t => phase'[u] = phase[u]
      BY <1>1, <1>5 DEF Create, TypeOK, Threads
    <2>3. \A i \in 1 .. Depth : phase'[stack[i]] = "started"
      BY <1>1, <2>2 DEF DInv
    <2>4. \A u \in Threads : Dead'[u] <=> phase'[u] \in {"finished", "failed"}
      BY <2>1, <2>2 DEF DInv
    <2>5. control' = "running"
      BY <1>5 DEF Create, Executing
    <2> QED
      BY <1>1, <2>1, <2>3, <2>4, <2>5 DEF DInv, CurrentIsRunning, NoStaleParent
  <1>6. ASSUME NEW t \in Coroutines, Resume(t) PROVE DInv'
    <2>1. t \in Threads
      BY DEF Threads
    <2>2. CASE Refuse(t)
      BY <1>3, <1>4, <2>2 DEF Refuse
    <2>3. CASE RunThread(Running, t)
      <3>1. /\ TakeOver(Running, t) /\ stack' = Append(stack, t)
            /\ t \notin ActiveThreads
            /\ UNCHANGED <<Dead, protected, control>>
        BY <2>3 DEF RunThread
      <3>2. /\ ~Dead[t] /\ CurrentThread' = t
            /\ Parent' = [Parent EXCEPT ![t] = Running]
        BY <3>1 DEF TakeOver, Refusal
      <3>3. /\ phase[t] \in {"fresh", "started"} /\ phase'[t] = "started"
            /\ \A u \in Threads : u # t => phase'[u] = phase[u]
        BY <1>1, <2>1, <2>3, <3>2 DEF RunThread, TypeOK, DInv
      <3>4. /\ Depth' = Depth + 1 /\ Running' = t
            /\ \A i \in 1 .. Depth : stack'[i] = stack[i]
            /\ stack'[Depth + 1] = t
            /\ ActiveThreads' = ActiveThreads \cup {t}
        BY <1>1, <2>1, <3>1, PushFacts
      <3>5. CurrentIsRunning'
        BY <3>2, <3>4 DEF CurrentIsRunning
      <3>6. NoStaleParent'
        <4>1. \A u \in Threads : u # t => Parent'[u] = Parent[u]
          BY <1>1, <3>2 DEF TypeOK
        <4> QED
          BY <3>4, <4>1 DEF DInv, NoStaleParent, Threads
      <3>7. \A i \in 1 .. Depth' : phase'[stack'[i]] = "started"
        <4>1. \A i \in 1 .. Depth + 1 : i \in 1 .. Depth \/ i = Depth + 1
          BY <1>1
        <4>2. \A i \in 1 .. Depth : phase'[stack[i]] = "started"
          BY <1>1, <3>3 DEF DInv
        <4> QED
          BY <3>3, <3>4, <4>1, <4>2
      <3>8. \A u \in Threads : Dead'[u] <=> phase'[u] \in {"finished", "failed"}
        BY <3>1, <3>2, <3>3 DEF DInv
      <3>9. control' = "running"
        BY <1>6, <3>1 DEF Resume, Executing
      <3> QED
        BY <1>1, <3>5, <3>6, <3>7, <3>8, <3>9 DEF DInv, Threads
    <2>4. ~RunGoBody(Running, t)
      BY DEF Disciplined, RunGoBody
    <2>5. ~RunNothing(Running, t)
      BY <2>1 DEF RunNothing, TakeOver, Refusal, DInv
    <2>6. ~RunAgain(Running, t)
      BY DEF Disciplined, RunAgain
    <2> QED
      BY <1>6, <2>2, <2>3, <2>4, <2>5, <2>6 DEF Resume, coResume
  <1>7. CASE Yield
    <2>1. CASE YieldOutside
      BY <1>3, <2>1 DEF YieldOutside
    <2>2. CASE YieldDirect
      <3>1. /\ SwitchToParent(Running, FALSE) /\ Leave /\ UNCHANGED phase
            /\ control' = "running" /\ Running # Main
        BY <1>1, <1>7, <2>2 DEF YieldDirect, Yield, Executing, TreeInv, AnyInv
      <3>2. phase'[Running] \in {"finished", "failed"} <=> (Dead[Running] \/ FALSE)
        BY <1>1, <3>1 DEF DInv
      <3> QED
        BY <1>1, <3>1, <3>2, DLeave
    <2>3. ~YieldInPCall
      BY DEF Disciplined, YieldInPCall
    <2> QED
      BY <1>7, <2>1, <2>2, <2>3 DEF Yield
  <1>8. Running # Main => Parent[Running] # None
    <2> SUFFICES ASSUME Running # Main PROVE Parent[Running] # None
      OBVIOUS
    <2>1. Depth \in 2 .. Depth /\ Depth - 1 \in 1 .. Depth
      BY <1>1, BottomIsMain DEF TreeInv
    <2>2. Parent[Running] = stack[Depth - 1] /\ stack[Depth - 1] \in Threads
      BY <1>1, <2>1 DEF TreeInv, ParentIsResumer, Running
    <2> QED
      BY <2>2
  <1>9. CASE Return
    <2>1. /\ SwitchToParent(Running, TRUE) /\ Leave /\ Running # Main
          /\ control' = "running"
      BY <1>8, <1>9 DEF Return, Executing
    <2>2. /\ phase'[Running] = "finished"
          /\ \A t \in Threads : t # Running => phase'[t] = phase[t]
      BY <1>1, <1>9 DEF Return, TypeOK
    <2> QED
      BY <1>1, <2>1, <2>2, DLeave
  <1>10. CASE Escape
    <2>1. Running # Main /\ Leave /\ Running \notin Wrapped
      BY <1>10 DEF Escape, Protected, DInv
    <2>2. SwitchToParent(Running, TRUE) /\ control' = "running"
      BY <1>8, <1>10, <2>1 DEF Escape
    <2>3. /\ phase'[Running] = "failed"
          /\ \A t \in Threads : t # Running => phase'[t] = phase[t]
      BY <1>1, <1>10 DEF Escape, TypeOK
    <2> QED
      BY <1>1, <2>1, <2>2, <2>3, DLeave
  <1>11. CASE EnterPCall \/ LeavePCall \/ Caught
    BY <1>2, <1>11 DEF EnterPCall, LeavePCall, Caught, Executing
  <1>12. CASE Raise
    BY <1>3, <1>12 DEF Raise
  <1> QED
    BY <1>4, <1>5, <1>6, <1>7, <1>9, <1>10, <1>11, <1>12 DEF Next

(* The invariant of disciplined programs: what the interpreter knows of its
   coroutines is true. *)
THEOREM DisciplinedInvariant ==
  ASSUME Disciplined
  PROVE  Spec => []DInv
  BY InitD, NextD, PTL DEF Spec

(* G.CurrentThread is the thread whose code runs. *)
THEOREM DisciplinedCurrentIsRunning ==
  ASSUME Disciplined
  PROVE  Spec => []CurrentIsRunning
  BY DisciplinedInvariant, PTL DEF DInv

(* Only active coroutines have a parent to switch to. *)
THEOREM DisciplinedNoStaleParent ==
  ASSUME Disciplined
  PROVE  Spec => []NoStaleParent
  BY DisciplinedInvariant, PTL DEF DInv

(* A coroutine whose body ended is refused as dead. *)
THEOREM DisciplinedEndedRefusedAsDead ==
  ASSUME Disciplined
  PROVE  Spec => []EndedRefusedAsDead
  <1>1. DInv => EndedRefusedAsDead
    <2> SUFFICES ASSUME DInv, NEW t \in Coroutines, phase[t] \in {"finished", "failed"}
                 PROVE  Refusal(t) = "dead"
      BY DEF EndedRefusedAsDead
    <2>1. t \in Threads /\ Dead[t]
      BY DEF DInv, Threads
    <2>2. CurrentThread # t
      <3>1. Depth \in 1 .. Depth
        BY StackFacts DEF DInv, TreeInv, AnyInv
      <3> QED
        BY <3>1 DEF DInv, CurrentIsRunning, Running
    <2> QED
      BY <2>1, <2>2 DEF Refusal
  <1> QED
    BY <1>1, DisciplinedInvariant, PTL

(* What coroutine.status says of a coroutine is true. *)
THEOREM DisciplinedStatusIsTrue ==
  ASSUME Disciplined
  PROVE  Spec => []StatusIsTrue
  <1>1. DInv => StatusIsTrue
    <2> SUFFICES ASSUME DInv, NEW t \in Coroutines
                 PROVE  /\ Status(t) = "running" <=> t = Running
                        /\ Status(t) = "dead" <=> phase[t] \in {"finished", "failed"}
                        /\ Status(t) = "normal" => t \in ActiveThreads
      BY DEF StatusIsTrue
    <2>1. /\ TypeOK /\ Depth \in 1 .. MaxDepth /\ Running \in Threads /\ t \in Threads
      BY StackFacts DEF DInv, TreeInv, AnyInv, Threads
    <2>2. /\ CurrentThread = Running
          /\ ~Dead[Running]
          /\ Dead[t] <=> phase[t] \in {"finished", "failed"}
      BY <2>1 DEF DInv, CurrentIsRunning, Running
    <2>3. ASSUME Parent[Running] = t PROVE t \in ActiveThreads
      <3>1. Running # Main
        BY <2>1, <2>3 DEF DInv, TreeInv, AnyInv
      <3>2. Depth \in 2 .. Depth /\ Depth - 1 \in 1 .. Depth
        BY <2>1, <3>1, BottomIsMain DEF DInv, TreeInv
      <3>3. Parent[Running] = stack[Depth - 1]
        BY <3>2 DEF DInv, TreeInv, ParentIsResumer, Running
      <3> QED
        BY <2>3, <3>2, <3>3 DEF ActiveThreads
    <2>4. CASE Dead[t]
      BY <2>2, <2>4 DEF Status
    <2>5. CASE ~Dead[t] /\ CurrentThread = t
      BY <2>2, <2>5 DEF Status
    <2>6. CASE ~Dead[t] /\ CurrentThread # t /\ Parent[Running] = t
      BY <2>2, <2>3, <2>6 DEF Status
    <2>7. CASE ~Dead[t] /\ CurrentThread # t /\ Parent[Running] # t
      <3>1. Status(t) = "suspended"
        BY <2>7 DEF Status
      <3> QED
        BY <2>2, <2>7, <3>1
    <2> QED
      BY <2>4, <2>5, <2>6, <2>7
  <1> QED
    BY <1>1, DisciplinedInvariant, PTL

(* A body that ended never runs again. *)
THEOREM DisciplinedEndedNeverRuns ==
  ASSUME Disciplined
  PROVE  Spec => EndedNeverRuns
  <1>1. DInv /\ DInv' /\ [Next]_vars =>
          [\A t \in Coroutines :
             phase[t] \in {"finished", "failed"} => t \notin ActiveThreads']_vars
    <2> SUFFICES ASSUME DInv, DInv', Next, NEW t \in Coroutines,
                        phase[t] \in {"finished", "failed"}
                 PROVE  t \notin ActiveThreads'
      OBVIOUS
    <2>1. t \in Threads /\ Dead[t]
      BY DEF DInv, Threads
    <2>2. Dead'[t]
      BY <2>1, DeadStep DEF DInv, TreeInv
    <2>3. phase'[t] # "started"
      BY <2>1, <2>2 DEF DInv, Threads
    <2> QED
      BY <2>3 DEF DInv, ActiveThreads
  <1> QED
    BY <1>1, DisciplinedInvariant, NextD, PTL DEF Spec, EndedNeverRuns
=============================================================================
