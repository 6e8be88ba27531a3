------------------------------- MODULE Channels -------------------------------
(***************************************************************************)
(* Lua states in goroutines of their own that share channels, and contexts *)
(* that stop them: channellib.go, mainLoopWithContext in vm.go, NewThread, *)
(* SetContext and RemoveContext in state.go.  Go's channels and            *)
(* reflect.Select are external: which of the goroutines that wait for a    *)
(* channel is served is left open.  Each state has a main thread and one   *)
(* coroutine; the host runs script after script in it.                     *)
(***************************************************************************)
EXTENDS Integers, Sequences, FiniteSets

CONSTANTS
  State,        \* Lua states, one goroutine each
  Chan,         \* channels, which channel.make has made and the host handed out
  Capacity,     \* the size of a channel's buffer
  Value,        \* values that are sent
  Unsafe,       \* those of them that isGoroutineSafe refuses
  MaxCalls,     \* bounds on the instructions that each state executes
  MaxContexts,  \* bounds on the contexts that each state is given
  MaxPCalls,    \* bounds on nested pcalls
  Tables        \* the lists of tables that scripts call select with

Thread == {"main", "co"}
NoContext == 0
NoAnswer == [call |-> "none"]
NoCall == [name |-> "none", cases |-> << >>, handler |-> FALSE]
NoCase == [pos |-> 0, v |-> "nil", ok |-> FALSE]
Nothing == [dir |-> "none"]

ASSUME ChannelsAssumption ==
  /\ Capacity \in [Chan -> Nat]
  /\ Unsafe \subseteq Value
  /\ {MaxCalls, MaxContexts, MaxPCalls} \subseteq [State -> Nat]
  /\ Tables \subseteq Seq([dir : {"recv"}, ch : Chan] \cup [dir : {"send"}, ch : Chan, v : Value] \cup [dir : {"default"}])

VARIABLES
  buffer, closed,   \* of each channel
  pc,               \* of each goroutine: idle, run, wait, woken, handler or failed
  thread,           \* of each state: the thread that runs
  co,               \* of each state: none, suspended, running or dead
  ctx,              \* of each thread: its context, or the one it is a child of
  contexts, done,   \* of each state: how many contexts it was given, those that are done
  pcalls,           \* of each thread: PCalls around what it runs
  call,             \* of each state: the call of the library that it is in
  chosen,           \* of each state: what reflect.Select returned
  answer,           \* of each state: what the last call gave its script
  calls,            \* of each state: instructions executed
  happened          \* ghost: what the runtime did for a state last

channels == <<buffer, closed>>
threads == <<thread, co, ctx, pcalls>>
hosts == <<contexts, done>>
vars == <<buffer, closed, pc, thread, co, ctx, contexts, done, pcalls, call, chosen, answer, calls, happened>>

-----------------------------------------------------------------------------
(* Contexts and errors. *)

ctxOf(s) == ctx[s][thread[s]]
Done(s) == ctxOf(s) \in done[s]

(* mainLoopWithContext looks at the context of its own thread before each
   instruction; mainLoop, which threads without one use, does not. *)
MutantInterrupted(s) == pc[s] \in {"run", "handler"} /\ thread[s] = "main" /\ Done(s)
Interrupted(s) == pc[s] \in {"run", "handler"} /\ Done(s)
Runs(s) == pc[s] \in {"run", "handler"} /\ ~Interrupted(s)

(* What the call before this step left behind. *)
Forget(s) ==
  /\ call' = [call EXCEPT ![s] = NoCall]
  /\ chosen' = [chosen EXCEPT ![s] = NoCase]
  /\ answer' = [answer EXCEPT ![s] = NoAnswer]
  /\ happened' = [happened EXCEPT ![s] = Nothing]

(* An error ends the innermost PCall, or its coroutine, or the script. *)
Raise(s) ==
  /\ \/ /\ pcalls[s][thread[s]] > 0
        /\ pcalls' = [pcalls EXCEPT ![s][thread[s]] = @ - 1]
        /\ pc' = [pc EXCEPT ![s] = "run"]
        /\ UNCHANGED <<thread, co>>
     \/ /\ pcalls[s][thread[s]] = 0 /\ thread[s] = "co"
        /\ thread' = [thread EXCEPT ![s] = "main"]
        /\ co' = [co EXCEPT ![s] = "dead"]
        /\ pc' = [pc EXCEPT ![s] = "run"]
        /\ UNCHANGED pcalls
     \/ /\ pcalls[s][thread[s]] = 0 /\ thread[s] = "main"
        /\ pc' = [pc EXCEPT ![s] = "failed"]
        /\ UNCHANGED <<thread, co, pcalls>>
  /\ Forget(s)
  /\ UNCHANGED <<channels, hosts, ctx>>

Interrupt(s) == Interrupted(s) /\ Raise(s) /\ UNCHANGED calls

-----------------------------------------------------------------------------
(* The calls of the library, up to where the goroutine may wait. *)

Case(dir, c, v) == [dir |-> dir, ch |-> c, v |-> v]
DoneCase == [dir |-> "done"]
isGoroutineSafe(v) == v \notin Unsafe

(* The script executes an instruction, which may be a call. *)
Instruction(s) == pc[s] = "run" /\ Runs(s) /\ calls[s] < MaxCalls[s] /\ calls' = [calls EXCEPT ![s] = @ + 1]

(* reflect.Select, or Send or Recv, with these cases. *)
Wait(s, name, cases, handler) ==
  /\ pc' = [pc EXCEPT ![s] = "wait"]
  /\ call' = [call EXCEPT ![s] = [name |-> name, cases |-> cases, handler |-> handler]]
  /\ chosen' = [chosen EXCEPT ![s] = NoCase]
  /\ answer' = [answer EXCEPT ![s] = NoAnswer]
  /\ happened' = [happened EXCEPT ![s] = Nothing]
  /\ UNCHANGED <<channels, threads, hosts>>

(* Sending does not look at the context. *)
channelSend(s) ==
  /\ Instruction(s)
  /\ \E c \in Chan, v \in Value :
       IF isGoroutineSafe(v) THEN Wait(s, "send", <<Case("send", c, v)>>, FALSE) ELSE Raise(s)

MutantReceiveCases(s, c) == <<[dir |-> "recv", ch |-> c]>>
receiveCases(s, c) ==
  (IF ctxOf(s) # NoContext THEN <<DoneCase>> ELSE << >>) \o <<[dir |-> "recv", ch |-> c]>>
channelReceive(s) ==
  /\ Instruction(s)
  /\ \E c \in Chan : Wait(s, "receive", receiveCases(s, c), FALSE)

(* The cases that are made of the tables of a select. *)
MutantSelectCases(s, tables) == (IF ctxOf(s) # NoContext THEN <<DoneCase>> ELSE << >>) \o tables
selectCases(s, tables) == tables \o IF ctxOf(s) # NoContext THEN <<DoneCase>> ELSE << >>
channelSelect(s) ==
  /\ Instruction(s)
  /\ \E tables \in Tables, handler \in BOOLEAN :
       IF \E i \in DOMAIN tables : tables[i].dir = "send" /\ ~isGoroutineSafe(tables[i].v)
       THEN Raise(s)
       ELSE Wait(s, "select", selectCases(s, tables), handler)

(* Closing a closed channel is a Go panic, which ends what an error ends. *)
channelClose(s) ==
  /\ Instruction(s)
  /\ \E c \in Chan :
       \/ closed[c] /\ Raise(s)
       \/ /\ ~closed[c]
          /\ closed' = [closed EXCEPT ![c] = TRUE]
          /\ Forget(s)
          /\ UNCHANGED <<buffer, pc, threads, hosts>>

-----------------------------------------------------------------------------
(* Go's channels. *)

Positions == 1 .. 1 + CHOOSE n \in {Len(t) : t \in Tables} : \A t \in Tables : Len(t) <= n
CaseOf(s, i) == call[s].cases[i]
Waits(s, i, dir) == pc[s] = "wait" /\ i \in DOMAIN call[s].cases /\ CaseOf(s, i).dir = dir

(* Goroutines that could exchange a value without a buffer. *)
Partners(s, i) ==
  {p \in (State \ {s}) \X Positions :
     /\ pc[p[1]] = "wait" /\ p[2] \in DOMAIN call[p[1]].cases
     /\ {CaseOf(s, i).dir, CaseOf(p[1], p[2]).dir} = {"send", "recv"}
     /\ CaseOf(s, i).ch = CaseOf(p[1], p[2]).ch
     /\ Capacity[CaseOf(s, i).ch] = 0 /\ ~closed[CaseOf(s, i).ch]}

Ready(s, i) ==
  \/ Waits(s, i, "done") /\ Done(s)
  \/ Waits(s, i, "recv") /\ (buffer[CaseOf(s, i).ch] # << >> \/ closed[CaseOf(s, i).ch] \/ Partners(s, i) # {})
  \/ /\ Waits(s, i, "send")
     /\ closed[CaseOf(s, i).ch] \/ Len(buffer[CaseOf(s, i).ch]) < Capacity[CaseOf(s, i).ch] \/ Partners(s, i) # {}

Chosen(i, v, ok) == [pos |-> i, v |-> v, ok |-> ok]
Wake(s, i, v, ok, what) ==
  /\ pc' = [pc EXCEPT ![s] = "woken"]
  /\ chosen' = [chosen EXCEPT ![s] = Chosen(i, v, ok)]
  /\ happened' = [happened EXCEPT ![s] = what]
  /\ UNCHANGED <<threads, hosts, call, answer, calls>>

Take(s, i) ==
  /\ Waits(s, i, "recv") /\ buffer[CaseOf(s, i).ch] # << >>
  /\ buffer' = [buffer EXCEPT ![CaseOf(s, i).ch] = Tail(@)]
  /\ Wake(s, i, Head(buffer[CaseOf(s, i).ch]), TRUE, Case("recv", CaseOf(s, i).ch, Head(buffer[CaseOf(s, i).ch])))
  /\ UNCHANGED closed

Put(s, i) ==
  /\ Waits(s, i, "send") /\ ~closed[CaseOf(s, i).ch]
  /\ Len(buffer[CaseOf(s, i).ch]) < Capacity[CaseOf(s, i).ch]
  /\ buffer' = [buffer EXCEPT ![CaseOf(s, i).ch] = Append(@, CaseOf(s, i).v)]
  /\ Wake(s, i, "nil", FALSE, CaseOf(s, i))
  /\ UNCHANGED closed

(* A sender and a receiver of an unbuffered channel go on together. *)
Meet(s, i) ==
  /\ Waits(s, i, "send")
  /\ \E p \in Partners(s, i) :
       /\ pc' = [pc EXCEPT ![s] = "woken", ![p[1]] = "woken"]
       /\ chosen' = [chosen EXCEPT ![s] = Chosen(i, "nil", FALSE), ![p[1]] = Chosen(p[2], CaseOf(s, i).v, TRUE)]
       /\ happened' = [happened EXCEPT ![s] = CaseOf(s, i), ![p[1]] = Case("recv", CaseOf(s, i).ch, CaseOf(s, i).v)]
  /\ UNCHANGED <<channels, threads, hosts, call, answer, calls>>

FindClosed(s, i) ==
  /\ Waits(s, i, "recv") /\ closed[CaseOf(s, i).ch] /\ buffer[CaseOf(s, i).ch] = << >>
  /\ Wake(s, i, "nil", FALSE, [dir |-> "closed", ch |-> CaseOf(s, i).ch])
  /\ UNCHANGED channels

FindDone(s, i) ==
  /\ Waits(s, i, "done") /\ Done(s)
  /\ Wake(s, i, "nil", FALSE, DoneCase)
  /\ UNCHANGED channels

FindNoneReady(s, i) ==
  /\ Waits(s, i, "default") /\ \A j \in DOMAIN call[s].cases : ~Ready(s, j)
  /\ Wake(s, i, "nil", FALSE, [dir |-> "default"])
  /\ UNCHANGED channels

(* Sending on a closed channel is a Go panic. *)
SendOnClosed(s, i) ==
  /\ Waits(s, i, "send") /\ closed[CaseOf(s, i).ch]
  /\ Raise(s)
  /\ UNCHANGED calls

Exchange(s) ==
  \E i \in Positions :
    \/ Take(s, i) \/ Put(s, i) \/ Meet(s, i) \/ FindClosed(s, i) \/ FindDone(s, i) \/ FindNoneReady(s, i)
    \/ SendOnClosed(s, i)

-----------------------------------------------------------------------------
(* The calls of the library, from where the goroutine has waited. *)

(* receive answers alike when the channel is closed and when the context is
   done; send answers nothing. *)
Received(s) == [call |-> "receive", ok |-> chosen[s].ok, v |-> chosen[s].v]
AnswerReceive(s) ==
  /\ pc[s] = "woken" /\ call[s].name \in {"receive", "send"}
  /\ pc' = [pc EXCEPT ![s] = "run"]
  /\ answer' = [answer EXCEPT ![s] = IF call[s].name = "receive" THEN Received(s) ELSE NoAnswer]
  /\ UNCHANGED <<channels, threads, hosts, call, chosen, calls, happened>>

(* The number of tables, which is the position of the context's case. *)
TableCount(s) == Len(call[s].cases) - (IF ctxOf(s) # NoContext THEN 1 ELSE 0)
Selected(s) == [call |-> "select", pos |-> chosen[s].pos, ok |-> chosen[s].ok, v |-> chosen[s].v]
AnswerSelect(s) ==
  /\ pc[s] = "woken" /\ call[s].name = "select"
  /\ IF ctxOf(s) # NoContext /\ chosen[s].pos = TableCount(s) + 1
     THEN pc' = [pc EXCEPT ![s] = "run"] /\ UNCHANGED answer
     ELSE /\ pc' = [pc EXCEPT ![s] = IF call[s].handler THEN "handler" ELSE "run"]
          /\ answer' = [answer EXCEPT ![s] = Selected(s)]
  /\ UNCHANGED <<channels, threads, hosts, call, chosen, calls, happened>>

(* The handler that the chosen table ends with returns to select. *)
HandlerReturns(s) ==
  /\ pc[s] = "handler" /\ Runs(s)
  /\ pc' = [pc EXCEPT ![s] = "run"]
  /\ UNCHANGED <<channels, threads, hosts, call, chosen, answer, calls, happened>>

-----------------------------------------------------------------------------
(* Coroutines, protected calls and the end of a script. *)

Others(s) == Forget(s) /\ UNCHANGED <<channels, hosts>>

(* A new thread's context is a child of the one its creator has then; it
   gets the main loop that goes with it. *)
NewThread(s) ==
  /\ Instruction(s) /\ thread[s] = "main" /\ co[s] \in {"none", "dead"}
  /\ co' = [co EXCEPT ![s] = "suspended"]
  /\ ctx' = [ctx EXCEPT ![s]["co"] = ctx[s]["main"]]
  /\ pcalls' = [pcalls EXCEPT ![s]["co"] = 0]
  /\ UNCHANGED <<pc, thread>> /\ Others(s)

Resume(s) ==
  /\ Instruction(s) /\ thread[s] = "main" /\ co[s] = "suspended"
  /\ thread' = [thread EXCEPT ![s] = "co"]
  /\ co' = [co EXCEPT ![s] = "running"]
  /\ UNCHANGED <<pc, ctx, pcalls>> /\ Others(s)

Leave(s) ==
  /\ Instruction(s) /\ thread[s] = "co" /\ pcalls[s]["co"] = 0
  /\ thread' = [thread EXCEPT ![s] = "main"]
  /\ \E phase \in {"suspended", "dead"} : co' = [co EXCEPT ![s] = phase]
  /\ UNCHANGED <<pc, ctx, pcalls>> /\ Others(s)

PCall(s) ==
  /\ Instruction(s) /\ pcalls[s][thread[s]] < MaxPCalls[s]
  /\ pcalls' = [pcalls EXCEPT ![s][thread[s]] = @ + 1]
  /\ UNCHANGED <<pc, thread, co, ctx>> /\ Others(s)

(* The body of the innermost PCall returns. *)
PCallReturns(s) ==
  /\ Instruction(s) /\ pcalls[s][thread[s]] > 0
  /\ pcalls' = [pcalls EXCEPT ![s][thread[s]] = @ - 1]
  /\ UNCHANGED <<pc, thread, co, ctx>> /\ Others(s)

EndScript(s) ==
  /\ Instruction(s) /\ thread[s] = "main" /\ pcalls[s]["main"] = 0
  /\ pc' = [pc EXCEPT ![s] = "idle"]
  /\ UNCHANGED threads /\ Others(s)

-----------------------------------------------------------------------------
(* The host. *)

AtHost(s) == pc[s] \in {"idle", "failed"}

DoString(s) ==
  /\ AtHost(s) /\ calls[s] < MaxCalls[s]
  /\ pc' = [pc EXCEPT ![s] = "run"]
  /\ UNCHANGED <<channels, threads, hosts, call, chosen, answer, calls, happened>>

SetContext(s) ==
  /\ AtHost(s) /\ contexts[s] < MaxContexts[s]
  /\ contexts' = [contexts EXCEPT ![s] = @ + 1]
  /\ ctx' = [ctx EXCEPT ![s]["main"] = contexts'[s]]
  /\ UNCHANGED <<channels, pc, thread, co, pcalls, done, call, chosen, answer, calls, happened>>

RemoveContext(s) ==
  /\ AtHost(s) /\ ctx[s]["main"] # NoContext
  /\ ctx' = [ctx EXCEPT ![s]["main"] = NoContext]
  /\ UNCHANGED <<channels, pc, thread, co, pcalls, hosts, call, chosen, answer, calls, happened>>

(* Some other goroutine cancels a context, or its deadline passes. *)
Cancel(s) ==
  /\ \E k \in (1 .. contexts[s]) \ done[s] : done' = [done EXCEPT ![s] = @ \cup {k}]
  /\ UNCHANGED <<channels, pc, threads, contexts, call, chosen, answer, calls, happened>>

-----------------------------------------------------------------------------

Init ==
  /\ buffer = [c \in Chan |-> << >>] /\ closed = [c \in Chan |-> FALSE]
  /\ pc = [s \in State |-> "idle"]
  /\ thread = [s \in State |-> "main"] /\ co = [s \in State |-> "none"]
  /\ ctx = [s \in State |-> [t \in Thread |-> NoContext]]
  /\ contexts = [s \in State |-> 0] /\ done = [s \in State |-> {}]
  /\ pcalls = [s \in State |-> [t \in Thread |-> 0]]
  /\ call = [s \in State |-> NoCall]
  /\ chosen = [s \in State |-> NoCase]
  /\ answer = [s \in State |-> NoAnswer]
  /\ calls = [s \in State |-> 0]
  /\ happened = [s \in State |-> Nothing]

(* What the goroutine of a state does by itself. *)
Run(s) ==
  \/ Interrupt(s) \/ Exchange(s) \/ AnswerReceive(s) \/ AnswerSelect(s) \/ HandlerReturns(s)
  \/ channelSend(s) \/ channelReceive(s) \/ channelSelect(s) \/ channelClose(s)
  \/ NewThread(s) \/ Resume(s) \/ Leave(s) \/ PCall(s) \/ PCallReturns(s) \/ EndScript(s)

Next == \E s \in State : Run(s) \/ DoString(s) \/ SetContext(s) \/ RemoveContext(s) \/ Cancel(s)

(* Goroutines are scheduled fairly; the host and contexts do as they like. *)
Spec == Init /\ [][Next]_vars /\ \A s \in State : WF_vars(Run(s))

-----------------------------------------------------------------------------
(* Properties. *)

(* A script that goes on after receive or select answered "no value" was not
   cancelled: either its channel is closed and empty, or it selected a case
   that gives none.  (receive answers alike in both cases; the main loop
   stops the script before it can mistake one for the other.) *)
CancelNotClosed ==
  \A s \in State :
    Runs(s) /\ answer[s].call # "none" /\ ~answer[s].ok => happened[s] # DoneCase

(* The position of case i among the tables that the script passed. *)
TablePosition(s, i) == Cardinality({j \in 1 .. i : CaseOf(s, j).dir # "done"})

(* What select and receive tell the script, and the handler that select
   calls, are about the table whose case took place. *)
AnswerIsOfCase ==
  \A s \in State :
    answer[s].call # "none" /\ Runs(s) =>
      /\ answer[s].ok <=> happened[s].dir = "recv"
      /\ answer[s].ok => answer[s].v = happened[s].v
      /\ answer[s].call = "select" =>
           \E i \in DOMAIN call[s].cases :
             /\ answer[s].pos = TablePosition(s, i)
             /\ CaseOf(s, i).dir = IF happened[s].dir = "closed" THEN "recv" ELSE happened[s].dir
             /\ CaseOf(s, i).dir # "done"
             /\ CaseOf(s, i).dir # "default" => CaseOf(s, i).ch = happened[s].ch

Cancelled(s) == ctx[s]["main"] \in done[s]
Sending(s) == pc[s] = "wait" /\ call[s].name = "send"
OlderCoroutine(s) == thread[s] = "co" /\ ctx[s]["co"] # ctx[s]["main"]

(* A script whose context is done ends, whatever it waits for and however
   many pcalls it is in, unless it is in a send, which nothing but another
   goroutine ends, or in a coroutine made before the context was set. *)
CancelEnds == \A s \in State : Cancelled(s) ~> (AtHost(s) \/ Sending(s) \/ OlderCoroutine(s))
===============================================================================
