---------------------------- MODULE ChannelsProofs ----------------------------
(***************************************************************************)
(* For any number of states and channels, every capacity and every list of *)
(* tables: what receive and select tell a script is what took place, and a *)
(* script that goes on was not cancelled.                                  *)
(***************************************************************************)
EXTENDS Channels, FiniteSetTheorems, SequenceTheorems, TLAPS

RecvCases == [dir : {"recv"}, ch : Chan]
SendCases == [dir : {"send"}, ch : Chan, v : Value]
DefaultCases == [dir : {"default"}]
TableCases == RecvCases \cup SendCases \cup DefaultCases

Phases == {"idle", "run", "wait", "woken", "handler", "failed"}
CallSet == [name : {"none", "send", "receive", "select"},
            cases : Seq(TableCases \cup {DoneCase}), handler : BOOLEAN]
ChosenSet == [pos : Nat, v : Value \cup {"nil"}, ok : BOOLEAN]
AnswerSet ==
  {NoAnswer} \cup [call : {"receive"}, ok : BOOLEAN, v : Value \cup {"nil"}]
    \cup [call : {"select"}, pos : Nat, ok : BOOLEAN, v : Value \cup {"nil"}]
EventSet ==
  {Nothing, DoneCase} \cup SendCases \cup DefaultCases
    \cup [dir : {"recv"}, ch : Chan, v : Value] \cup [dir : {"closed"}, ch : Chan]

TypeOK ==
  /\ buffer \in [Chan -> Seq(Value)]
  /\ closed \in [Chan -> BOOLEAN]
  /\ pc \in [State -> Phases]
  /\ thread \in [State -> Thread]
  /\ ctx \in [State -> [Thread -> Nat]]
  /\ contexts \in [State -> Nat]
  /\ done \in [State -> SUBSET (Nat \ {NoContext})]
  /\ call \in [State -> CallSet]
  /\ chosen \in [State -> ChosenSet]
  /\ answer \in [State -> AnswerSet]
  /\ happened \in [State -> EventSet]

(* What Select returned is about the case that took place. *)
Matches(s) ==
  LET i == chosen[s].pos
      event == happened[s]
  IN  /\ i \in DOMAIN call[s].cases
      /\ chosen[s].ok <=> event.dir = "recv"
      /\ chosen[s].ok => chosen[s].v = event.v
      /\ CaseOf(s, i).dir = IF event.dir = "closed" THEN "recv" ELSE event.dir
      /\ CaseOf(s, i).dir \notin {"default", "done"} => CaseOf(s, i).ch = event.ch

(* The tables of a select come first, and then the context's case, if the
   thread has a context: what TableCount relies on when it has waited. *)
TablesFirst(s) ==
  /\ TableCount(s) \in 0 .. Len(call[s].cases)
  /\ \A i \in 1 .. TableCount(s) : CaseOf(s, i).dir # "done"

(* What a select that has answered told its script. *)
Told(s) ==
  LET i == answer[s].pos
  IN  /\ i \in DOMAIN call[s].cases
      /\ \A j \in 1 .. i : CaseOf(s, j).dir # "done"
      /\ CaseOf(s, i).dir = IF happened[s].dir = "closed" THEN "recv" ELSE happened[s].dir
      /\ CaseOf(s, i).dir # "default" => CaseOf(s, i).ch = happened[s].ch

Calling(s) == pc[s] \in {"wait", "woken"}

(* Nothing of a call is left when the host gets control, which is when it may
   change the context; and a context that ended a wait stays done. *)
Local(s) ==
  /\ AtHost(s) => answer[s] = NoAnswer /\ happened[s] = Nothing
  /\ happened[s].dir = "done" => Done(s)
  /\ Calling(s) => answer[s] = NoAnswer
  /\ Calling(s) /\ call[s].name = "select" => TablesFirst(s)
  /\ pc[s] = "woken" => Matches(s)
  /\ answer[s].call # "none" =>
       /\ answer[s].ok <=> happened[s].dir = "recv"
       /\ answer[s].ok => answer[s].v = happened[s].v
  /\ answer[s].call = "select" => Told(s)

Inv == TypeOK /\ \A s \in State : Local(s)

-----------------------------------------------------------------------------
(* Steps of one state. *)

Same(q) ==
  /\ pc'[q] = pc[q] /\ thread'[q] = thread[q] /\ ctx'[q] = ctx[q] /\ done'[q] = done[q]
  /\ call'[q] = call[q] /\ chosen'[q] = chosen[q]
  /\ answer'[q] = answer[q] /\ happened'[q] = happened[q]

LEMMA SameLocal ==
  ASSUME NEW q \in State, Same(q), Local(q)
  PROVE  Local(q)'
  BY DEF Same, Local, AtHost, Done, ctxOf, Calling, TablesFirst, TableCount, CaseOf, Matches, Told

(* A state in which nothing of a call is left. *)
LEMMA CleanLocal ==
  ASSUME NEW s \in State, answer'[s] = NoAnswer, happened'[s] = Nothing,
         pc'[s] \notin {"wait", "woken"}
  PROVE  Local(s)'
  <1>1. NoAnswer.call = "none" /\ Nothing.dir = "none"
    BY DEF NoAnswer, Nothing
  <1> QED
    BY <1>1 DEF Local, Calling

LEMMA OneState ==
  ASSUME Inv, NEW s \in State, \A q \in State \ {s} : Same(q), Local(s)', TypeOK'
  PROVE  Inv'
  <1>1. ASSUME NEW q \in State PROVE Local(q)'
    <2>1. CASE q = s
      BY <2>1
    <2>2. CASE q # s
      BY <2>2, SameLocal DEF Inv
    <2> QED
      BY <2>1, <2>2
  <1> QED
    BY <1>1 DEF Inv

LEMMA Constants ==
  /\ NoCall \in CallSet /\ NoCase \in ChosenSet /\ NoAnswer \in AnswerSet
  /\ Nothing \in EventSet /\ DoneCase \in EventSet
  <1>1. << >> \in Seq(TableCases \cup {DoneCase})
    BY EmptySeq
  <1>2. NoCall \in CallSet
    BY <1>1 DEF NoCall, CallSet
  <1>3. NoCase \in ChosenSet
    BY DEF NoCase, ChosenSet
  <1> QED
    BY <1>2, <1>3 DEF AnswerSet, EventSet

LEMMA ForgetFacts ==
  ASSUME TypeOK, NEW s \in State, Forget(s)
  PROVE  /\ call' \in [State -> CallSet] /\ chosen' \in [State -> ChosenSet]
         /\ answer' \in [State -> AnswerSet] /\ happened' \in [State -> EventSet]
         /\ answer'[s] = NoAnswer /\ happened'[s] = Nothing
         /\ \A q \in State \ {s} :
              /\ call'[q] = call[q] /\ chosen'[q] = chosen[q]
              /\ answer'[q] = answer[q] /\ happened'[q] = happened[q]
  <1>1. /\ call \in [State -> CallSet] /\ chosen \in [State -> ChosenSet]
        /\ answer \in [State -> AnswerSet] /\ happened \in [State -> EventSet]
    BY DEF TypeOK
  <1>2. /\ call' = [call EXCEPT ![s] = NoCall]
        /\ chosen' = [chosen EXCEPT ![s] = NoCase]
        /\ answer' = [answer EXCEPT ![s] = NoAnswer]
        /\ happened' = [happened EXCEPT ![s] = Nothing]
    BY DEF Forget
  <1>3. call' \in [State -> CallSet] /\ \A q \in State \ {s} : call'[q] = call[q]
    BY <1>1, <1>2, Constants
  <1>4. chosen' \in [State -> ChosenSet] /\ \A q \in State \ {s} : chosen'[q] = chosen[q]
    BY <1>1, <1>2, Constants
  <1>5. /\ answer' \in [State -> AnswerSet] /\ answer'[s] = NoAnswer
        /\ \A q \in State \ {s} : answer'[q] = answer[q]
    BY <1>1, <1>2, Constants
  <1>6. /\ happened' \in [State -> EventSet] /\ happened'[s] = Nothing
        /\ \A q \in State \ {s} : happened'[q] = happened[q]
    BY <1>1, <1>2, Constants
  <1> QED
    BY <1>3, <1>4, <1>5, <1>6

(* A state leaves its call behind and goes on, or is back at the host. *)
LEMMA ForgetInv ==
  ASSUME Inv, NEW s \in State, Forget(s),
         pc' \in [State -> Phases], pc'[s] \notin {"wait", "woken"},
         thread' \in [State -> Thread], ctx' \in [State -> [Thread -> Nat]],
         \A q \in State \ {s} : pc'[q] = pc[q] /\ thread'[q] = thread[q] /\ ctx'[q] = ctx[q],
         buffer' = buffer, closed' \in [Chan -> BOOLEAN], UNCHANGED hosts
  PROVE  Inv'
  <1>1. TypeOK /\ contexts' = contexts /\ done' = done
    BY DEF Inv, hosts
  <1>2. /\ call' \in [State -> CallSet] /\ chosen' \in [State -> ChosenSet]
        /\ answer' \in [State -> AnswerSet] /\ happened' \in [State -> EventSet]
        /\ answer'[s] = NoAnswer /\ happened'[s] = Nothing
        /\ \A q \in State \ {s} :
             /\ call'[q] = call[q] /\ chosen'[q] = chosen[q]
             /\ answer'[q] = answer[q] /\ happened'[q] = happened[q]
    BY <1>1, ForgetFacts
  <1>3. TypeOK'
    BY <1>1, <1>2 DEF TypeOK
  <1>4. Local(s)'
    BY <1>2, CleanLocal
  <1>5. \A q \in State \ {s} : Same(q)
    BY <1>1, <1>2 DEF Same
  <1> QED
    BY <1>3, <1>4, <1>5, OneState

LEMMA RaiseInv ==
  ASSUME Inv, NEW s \in State, Raise(s)
  PROVE  Inv'
  <1>1. /\ pc \in [State -> Phases] /\ thread \in [State -> Thread]
        /\ ctx \in [State -> [Thread -> Nat]] /\ closed \in [Chan -> BOOLEAN]
    BY DEF Inv, TypeOK
  <1>2. /\ Forget(s) /\ buffer' = buffer /\ closed' = closed /\ UNCHANGED hosts /\ ctx' = ctx
    BY DEF Raise, channels
  <1>3. /\ pc' = [pc EXCEPT ![s] = "run"] \/ pc' = [pc EXCEPT ![s] = "failed"]
        /\ thread' = thread \/ thread' = [thread EXCEPT ![s] = "main"]
    BY DEF Raise
  <1>4. /\ pc' \in [State -> Phases] /\ pc'[s] \notin {"wait", "woken"}
        /\ \A q \in State \ {s} : pc'[q] = pc[q]
    BY <1>1, <1>3 DEF Phases
  <1>5. thread' \in [State -> Thread] /\ \A q \in State \ {s} : thread'[q] = thread[q]
    BY <1>1, <1>3 DEF Thread
  <1> QED
    BY <1>1, <1>2, <1>4, <1>5, ForgetInv

-----------------------------------------------------------------------------
(* Calls up to where the goroutine waits. *)

LEMMA InstructionFacts ==
  ASSUME NEW s, Instruction(s)
  PROVE  pc[s] = "run"
  BY DEF Instruction

LEMMA WaitInv ==
  ASSUME Inv, NEW s \in State, NEW name \in {"send", "receive", "select"},
         NEW cases \in Seq(TableCases \cup {DoneCase}), NEW handler \in BOOLEAN,
         Wait(s, name, cases, handler),
         name = "select" =>
           LET n == Len(cases) - (IF ctxOf(s) # NoContext THEN 1 ELSE 0)
           IN  n \in 0 .. Len(cases) /\ \A i \in 1 .. n : cases[i].dir # "done"
  PROVE  Inv'
  <1> DEFINE new == [name |-> name, cases |-> cases, handler |-> handler]
  <1>1. TypeOK
    BY DEF Inv
  <1>2. /\ pc' = [pc EXCEPT ![s] = "wait"]
        /\ call' = [call EXCEPT ![s] = new]
        /\ chosen' = [chosen EXCEPT ![s] = NoCase]
        /\ answer' = [answer EXCEPT ![s] = NoAnswer]
        /\ happened' = [happened EXCEPT ![s] = Nothing]
        /\ UNCHANGED <<buffer, closed, thread, ctx, contexts, done>>
    BY DEF Wait, channels, threads, hosts
  <1>3. new \in CallSet /\ new.name = name /\ new.cases = cases
    BY DEF CallSet
  <1> HIDE DEF new
  <1>4. /\ pc' \in [State -> Phases] /\ pc'[s] = "wait" /\ \A q \in State \ {s} : pc'[q] = pc[q]
    BY <1>1, <1>2 DEF TypeOK, Phases
  <1>5. /\ call' \in [State -> CallSet] /\ call'[s] = new /\ \A q \in State \ {s} : call'[q] = call[q]
    BY <1>1, <1>2, <1>3 DEF TypeOK
  <1>6. chosen' \in [State -> ChosenSet] /\ \A q \in State \ {s} : chosen'[q] = chosen[q]
    BY <1>1, <1>2, Constants DEF TypeOK
  <1>7. /\ answer' \in [State -> AnswerSet] /\ answer'[s] = NoAnswer
        /\ \A q \in State \ {s} : answer'[q] = answer[q]
    BY <1>1, <1>2, Constants DEF TypeOK
  <1>8. /\ happened' \in [State -> EventSet] /\ happened'[s] = Nothing
        /\ \A q \in State \ {s} : happened'[q] = happened[q]
    BY <1>1, <1>2, Constants DEF TypeOK
  <1>9. TypeOK'
    BY <1>1, <1>2, <1>4, <1>5, <1>6, <1>7, <1>8 DEF TypeOK
  <1>10. \A q \in State \ {s} : Same(q)
    BY <1>2, <1>4, <1>5, <1>6, <1>7, <1>8 DEF Same
  <1>11. Local(s)'
    <2>1. NoAnswer.call = "none" /\ Nothing.dir = "none"
      BY DEF NoAnswer, Nothing
    <2>2. call'[s].name = "select" => TablesFirst(s)'
      BY <1>2, <1>3, <1>5 DEF TablesFirst, TableCount, CaseOf, ctxOf
    <2>3. ~AtHost(s)' /\ pc'[s] # "woken"
      BY <1>4 DEF AtHost
    <2> QED
      BY <1>7, <1>8, <2>1, <2>2, <2>3 DEF Local
  <1> QED
    BY <1>9, <1>10, <1>11, OneState

LEMMA ChannelSendInv ==
  ASSUME Inv, NEW s \in State, channelSend(s)
  PROVE  Inv'
  <1>1. PICK c \in Chan, v \in Value :
          IF isGoroutineSafe(v) THEN Wait(s, "send", <<Case("send", c, v)>>, FALSE) ELSE Raise(s)
    BY DEF channelSend
  <1>2. Case("send", c, v) \in TableCases \cup {DoneCase}
    BY DEF Case, TableCases, SendCases
  <1>3. <<Case("send", c, v)>> \in Seq(TableCases \cup {DoneCase})
    BY <1>2
  <1>4. CASE Wait(s, "send", <<Case("send", c, v)>>, FALSE)
    BY <1>3, <1>4, WaitInv
  <1>5. CASE Raise(s)
    BY <1>5, RaiseInv
  <1> QED
    BY <1>1, <1>4, <1>5

LEMMA ChannelReceiveInv ==
  ASSUME Inv, NEW s \in State, channelReceive(s)
  PROVE  Inv'
  <1>1. PICK c \in Chan : Wait(s, "receive", receiveCases(s, c), FALSE)
    BY DEF channelReceive
  <1>2. [dir |-> "recv", ch |-> c] \in TableCases \cup {DoneCase}
    BY DEF TableCases, RecvCases
  <1> DEFINE case == [dir |-> "recv", ch |-> c]
             S == TableCases \cup {DoneCase}
  <1> HIDE DEF case
  <1>3. receiveCases(s, c) = (IF ctxOf(s) # NoContext THEN <<DoneCase>> ELSE << >>) \o <<case>>
    BY DEF receiveCases, case
  <1>4. case \in S /\ DoneCase \in S
    BY <1>2 DEF case
  <1> HIDE DEF S
  <1>5. receiveCases(s, c) \in Seq(S)
    BY <1>3, <1>4
  <1> QED
    BY <1>1, <1>5, WaitInv DEF S

LEMMA ChannelSelectInv ==
  ASSUME Inv, NEW s \in State, channelSelect(s)
  PROVE  Inv'
  <1> DEFINE S == TableCases \cup {DoneCase}
  <1>1. PICK tables \in Tables, handler \in BOOLEAN :
          Raise(s) \/ Wait(s, "select", selectCases(s, tables), handler)
    BY DEF channelSelect
  <1> DEFINE last == IF ctxOf(s) # NoContext THEN <<DoneCase>> ELSE << >>
             cases == tables \o last
             extra == IF ctxOf(s) # NoContext THEN 1 ELSE 0
  <1>2. tables \in Seq(TableCases)
    BY ChannelsAssumption DEF TableCases, RecvCases, SendCases, DefaultCases
  <1>3. Len(tables) \in Nat /\ \A i \in 1 .. Len(tables) : tables[i] \in TableCases
    BY <1>2
  <1>4. \A k \in TableCases : k.dir # "done"
    BY DEF TableCases, RecvCases, SendCases, DefaultCases
  <1>5. tables \in Seq(S) /\ DoneCase \in S
    BY <1>2, SeqMonotonic
  <1>6. selectCases(s, tables) = cases
    BY DEF selectCases
  <1> HIDE DEF S
  <1>7. last \in Seq(S) /\ Len(last) = extra
    BY <1>5
  <1> HIDE DEF last
  <1>8. /\ cases \in Seq(S) /\ Len(cases) = Len(tables) + extra
        /\ \A i \in 1 .. Len(tables) : cases[i] = tables[i]
    <2>1. /\ cases \in Seq(S) /\ Len(cases) = Len(tables) + Len(last)
          /\ \A i \in 1 .. Len(tables) + Len(last) :
               cases[i] = IF i <= Len(tables) THEN tables[i] ELSE last[i - Len(tables)]
      BY <1>5, <1>7, ConcatProperties
    <2>2. extra \in Nat
      OBVIOUS
    <2> HIDE DEF extra
    <2> QED
      BY <1>3, <1>7, <2>1, <2>2
  <1> HIDE DEF cases
  <1>9. Len(cases) - extra = Len(tables) /\ Len(tables) <= Len(cases) /\ Len(cases) \in Nat
    BY <1>3, <1>8
  <1>10. \A i \in 1 .. Len(tables) : cases[i].dir # "done"
    BY <1>3, <1>4, <1>8
  <1>11. /\ Len(cases) - extra \in 0 .. Len(cases)
         /\ \A i \in 1 .. Len(cases) - extra : cases[i].dir # "done"
    BY <1>3, <1>9, <1>10
  <1>12. CASE Wait(s, "select", selectCases(s, tables), handler)
    BY <1>6, <1>8, <1>11, <1>12, WaitInv DEF S
  <1>13. CASE Raise(s)
    BY <1>13, RaiseInv
  <1> QED
    BY <1>1, <1>12, <1>13

LEMMA ChannelCloseInv ==
  ASSUME Inv, NEW s \in State, channelClose(s)
  PROVE  Inv'
  <1>1. pc[s] = "run" /\ TypeOK
    BY InstructionFacts DEF channelClose, Inv
  <1>2. PICK c \in Chan :
          \/ closed[c] /\ Raise(s)
          \/ /\ ~closed[c]
             /\ closed' = [closed EXCEPT ![c] = TRUE]
             /\ Forget(s)
             /\ UNCHANGED <<buffer, pc, threads, hosts>>
    BY DEF channelClose
  <1>3. CASE Raise(s)
    BY <1>3, RaiseInv
  <1>4. CASE /\ closed' = [closed EXCEPT ![c] = TRUE]
             /\ Forget(s)
             /\ UNCHANGED <<buffer, pc, threads, hosts>>
    <2>1. closed' \in [Chan -> BOOLEAN]
      BY <1>1, <1>4 DEF TypeOK
    <2>2. UNCHANGED <<buffer, pc, thread, ctx>> /\ UNCHANGED hosts
      BY <1>4 DEF threads
    <2> QED
      BY <1>1, <1>4, <2>1, <2>2, ForgetInv DEF TypeOK
  <1> QED
    BY <1>2, <1>3, <1>4

-----------------------------------------------------------------------------
(* Go's channels. *)

LEMMA CaseFacts ==
  ASSUME TypeOK, NEW s \in State, NEW i \in DOMAIN call[s].cases
  PROVE  /\ i \in Nat
         /\ CaseOf(s, i) \in TableCases \cup {DoneCase}
         /\ CaseOf(s, i).dir = "recv" => CaseOf(s, i).ch \in Chan
         /\ CaseOf(s, i).dir = "send" =>
              /\ CaseOf(s, i) \in SendCases
              /\ CaseOf(s, i).ch \in Chan /\ CaseOf(s, i).v \in Value
  <1> DEFINE S == TableCases \cup {DoneCase}
             cases == call[s].cases
  <1>1. call[s] \in CallSet
    BY DEF TypeOK
  <1>2. cases \in Seq(S)
    BY <1>1 DEF CallSet
  <1>3. CaseOf(s, i) = cases[i] /\ i \in DOMAIN cases
    BY DEF CaseOf
  <1> HIDE DEF cases, S
  <1>4. i \in Nat /\ CaseOf(s, i) \in S
    BY <1>2, <1>3
  <1> QED
    BY <1>4 DEF S, TableCases, RecvCases, SendCases, DefaultCases, DoneCase

(* The case at i of a call that waits took place. *)
Fits(s, i, v, ok, what) ==
  /\ i \in DOMAIN call[s].cases
  /\ v \in Value \cup {"nil"} /\ ok \in BOOLEAN /\ what \in EventSet
  /\ ok <=> what.dir = "recv"
  /\ ok => v = what.v
  /\ CaseOf(s, i).dir = IF what.dir = "closed" THEN "recv" ELSE what.dir
  /\ CaseOf(s, i).dir \notin {"default", "done"} => CaseOf(s, i).ch = what.ch
  /\ what.dir = "done" => Done(s)

LEMMA WokenLocal ==
  ASSUME TypeOK, NEW s \in State, Local(s), pc[s] = "wait", pc'[s] = "woken",
         NEW i, NEW v, NEW ok, NEW what, Fits(s, i, v, ok, what),
         chosen'[s] = Chosen(i, v, ok), happened'[s] = what,
         thread'[s] = thread[s], ctx'[s] = ctx[s], done'[s] = done[s],
         call'[s] = call[s], answer'[s] = answer[s]
  PROVE  Local(s)' /\ chosen'[s] \in ChosenSet
  <1>1. chosen'[s].pos = i /\ chosen'[s].v = v /\ chosen'[s].ok = ok
    BY DEF Chosen
  <1>2. answer'[s] = NoAnswer /\ NoAnswer.call = "none"
    BY DEF Local, Calling, NoAnswer
  <1>3. Matches(s)'
    BY <1>1 DEF Matches, Fits, CaseOf
  <1>4. call'[s].name = "select" => TablesFirst(s)'
    BY DEF Local, Calling, TablesFirst, TableCount, CaseOf, ctxOf
  <1>5. happened'[s].dir = "done" => Done(s)'
    BY DEF Fits, Done, ctxOf
  <1>6. Local(s)'
    BY <1>2, <1>3, <1>4, <1>5 DEF Local, AtHost
  <1>7. chosen'[s] \in ChosenSet
    BY CaseFacts DEF Fits, Chosen, ChosenSet
  <1> QED
    BY <1>6, <1>7

LEMMA WakeInv ==
  ASSUME Inv, NEW s \in State, pc[s] = "wait",
         NEW i, NEW v, NEW ok, NEW what, Fits(s, i, v, ok, what),
         Wake(s, i, v, ok, what), buffer' \in [Chan -> Seq(Value)], closed' = closed
  PROVE  Inv'
  <1>1. TypeOK /\ Local(s)
    BY DEF Inv
  <1>2. /\ pc' = [pc EXCEPT ![s] = "woken"]
        /\ chosen' = [chosen EXCEPT ![s] = Chosen(i, v, ok)]
        /\ happened' = [happened EXCEPT ![s] = what]
        /\ UNCHANGED <<thread, ctx, contexts, done, call, answer>>
    BY DEF Wake, threads, hosts
  <1>3. /\ pc' \in [State -> Phases] /\ pc'[s] = "woken" /\ \A q \in State \ {s} : pc'[q] = pc[q]
    BY <1>1, <1>2 DEF TypeOK, Phases
  <1>4. chosen'[s] = Chosen(i, v, ok) /\ \A q \in State \ {s} : chosen'[q] = chosen[q]
    BY <1>1, <1>2 DEF TypeOK
  <1>5. /\ happened' \in [State -> EventSet] /\ happened'[s] = what
        /\ \A q \in State \ {s} : happened'[q] = happened[q]
    BY <1>1, <1>2 DEF TypeOK, Fits
  <1>6. Local(s)' /\ chosen'[s] \in ChosenSet
    BY <1>1, <1>2, <1>3, <1>4, <1>5, WokenLocal
  <1>7. chosen' \in [State -> ChosenSet]
    BY <1>1, <1>2, <1>4, <1>6 DEF TypeOK
  <1>8. TypeOK'
    BY <1>1, <1>2, <1>3, <1>5, <1>7 DEF TypeOK
  <1>9. \A q \in State \ {s} : Same(q)
    BY <1>2, <1>3, <1>4, <1>5 DEF Same
  <1> QED
    BY <1>6, <1>8, <1>9, OneState

LEMMA TakeInv ==
  ASSUME Inv, NEW s \in State, NEW i, Take(s, i)
  PROVE  Inv'
  <1> DEFINE c == CaseOf(s, i).ch
             v == Head(buffer[c])
             what == Case("recv", c, v)
  <1>1. /\ pc[s] = "wait" /\ i \in DOMAIN call[s].cases /\ CaseOf(s, i).dir = "recv"
        /\ buffer[c] # << >>
        /\ buffer' = [buffer EXCEPT ![c] = Tail(@)]
        /\ Wake(s, i, v, TRUE, what) /\ closed' = closed
    BY DEF Take, Waits
  <1>2. TypeOK
    BY DEF Inv
  <1>3. c \in Chan
    BY <1>1, <1>2, CaseFacts
  <1> HIDE DEF c
  <1>4. buffer \in [Chan -> Seq(Value)] /\ buffer[c] \in Seq(Value)
    BY <1>2, <1>3 DEF TypeOK
  <1>5. v \in Value /\ Tail(buffer[c]) \in Seq(Value)
    BY <1>1, <1>4
  <1>6. buffer' \in [Chan -> Seq(Value)]
    BY <1>1, <1>3, <1>4, <1>5
  <1> HIDE DEF v
  <1>7. what \in EventSet /\ what.dir = "recv" /\ what.v = v /\ what.ch = c
    BY <1>3, <1>5 DEF Case, EventSet
  <1> HIDE DEF what
  <1>8. Fits(s, i, v, TRUE, what)
    BY <1>1, <1>5, <1>7 DEF Fits, c
  <1> QED
    BY <1>1, <1>6, <1>8, WakeInv

LEMMA PutInv ==
  ASSUME Inv, NEW s \in State, NEW i, Put(s, i)
  PROVE  Inv'
  <1> DEFINE c == CaseOf(s, i).ch
             v == CaseOf(s, i).v
  <1>1. /\ pc[s] = "wait" /\ i \in DOMAIN call[s].cases /\ CaseOf(s, i).dir = "send"
        /\ buffer' = [buffer EXCEPT ![c] = Append(@, v)]
        /\ Wake(s, i, "nil", FALSE, CaseOf(s, i)) /\ closed' = closed
    BY DEF Put, Waits
  <1>2. TypeOK
    BY DEF Inv
  <1>3. c \in Chan /\ v \in Value /\ CaseOf(s, i) \in EventSet
    BY <1>1, <1>2, CaseFacts DEF EventSet
  <1>4. Fits(s, i, "nil", FALSE, CaseOf(s, i))
    BY <1>1, <1>3 DEF Fits
  <1> HIDE DEF c, v
  <1>5. buffer' \in [Chan -> Seq(Value)]
    BY <1>1, <1>2, <1>3 DEF TypeOK
  <1> QED
    BY <1>1, <1>4, <1>5, WakeInv

LEMMA FindInv ==
  ASSUME Inv, NEW s \in State, NEW i,
         FindClosed(s, i) \/ FindDone(s, i) \/ FindNoneReady(s, i)
  PROVE  Inv'
  <1>1. TypeOK /\ buffer \in [Chan -> Seq(Value)]
    BY DEF Inv, TypeOK
  <1>2. CASE FindClosed(s, i)
    <2> DEFINE what == [dir |-> "closed", ch |-> CaseOf(s, i).ch]
    <2>1. /\ pc[s] = "wait" /\ i \in DOMAIN call[s].cases /\ CaseOf(s, i).dir = "recv"
          /\ Wake(s, i, "nil", FALSE, what) /\ buffer' = buffer /\ closed' = closed
      BY <1>2 DEF FindClosed, Waits, channels
    <2>2. what \in EventSet /\ what.dir = "closed" /\ what.ch = CaseOf(s, i).ch
      BY <1>1, <2>1, CaseFacts DEF EventSet
    <2> HIDE DEF what
    <2>3. Fits(s, i, "nil", FALSE, what)
      BY <2>1, <2>2 DEF Fits
    <2> QED
      BY <1>1, <2>1, <2>3, WakeInv
  <1>3. CASE FindDone(s, i)
    <2>1. /\ pc[s] = "wait" /\ i \in DOMAIN call[s].cases /\ CaseOf(s, i).dir = "done" /\ Done(s)
          /\ Wake(s, i, "nil", FALSE, DoneCase) /\ buffer' = buffer /\ closed' = closed
      BY <1>3 DEF FindDone, Waits, channels
    <2>2. DoneCase \in EventSet /\ DoneCase.dir = "done"
      BY DEF EventSet, DoneCase
    <2>3. Fits(s, i, "nil", FALSE, DoneCase)
      BY <2>1, <2>2 DEF Fits
    <2> QED
      BY <1>1, <2>1, <2>3, WakeInv
  <1>4. CASE FindNoneReady(s, i)
    <2> DEFINE what == [dir |-> "default"]
    <2>1. /\ pc[s] = "wait" /\ i \in DOMAIN call[s].cases /\ CaseOf(s, i).dir = "default"
          /\ Wake(s, i, "nil", FALSE, what) /\ buffer' = buffer /\ closed' = closed
      BY <1>4 DEF FindNoneReady, Waits, channels
    <2>2. what \in EventSet /\ what.dir = "default"
      BY DEF EventSet, DefaultCases
    <2> HIDE DEF what
    <2>3. Fits(s, i, "nil", FALSE, what)
      BY <2>1, <2>2 DEF Fits
    <2> QED
      BY <1>1, <2>1, <2>3, WakeInv
  <1> QED
    BY <1>2, <1>3, <1>4

LEMMA MeetInv ==
  ASSUME Inv, NEW s \in State, NEW i, Meet(s, i)
  PROVE  Inv'
  <1> DEFINE c == CaseOf(s, i).ch
             v == CaseOf(s, i).v
             what == Case("recv", c, v)
  <1>1. TypeOK /\ Local(s)
    BY DEF Inv
  <1>2. pc[s] = "wait" /\ i \in DOMAIN call[s].cases /\ CaseOf(s, i).dir = "send"
    BY DEF Meet, Waits
  <1>3. PICK p \in Partners(s, i) :
          /\ pc' = [pc EXCEPT ![s] = "woken", ![p[1]] = "woken"]
          /\ chosen' = [chosen EXCEPT ![s] = Chosen(i, "nil", FALSE), ![p[1]] = Chosen(p[2], v, TRUE)]
          /\ happened' = [happened EXCEPT ![s] = CaseOf(s, i), ![p[1]] = what]
    BY DEF Meet
  <1> DEFINE r == p[1]
             k == p[2]
  <1>4. /\ r \in State \ {s} /\ pc[r] = "wait" /\ k \in DOMAIN call[r].cases
        /\ {CaseOf(s, i).dir, CaseOf(r, k).dir} = {"send", "recv"}
        /\ c = CaseOf(r, k).ch
    BY DEF Partners
  <1>5. CaseOf(r, k).dir = "recv"
    BY <1>2, <1>4
  <1>6. c \in Chan /\ v \in Value /\ CaseOf(s, i) \in EventSet
    BY <1>1, <1>2, CaseFacts DEF EventSet
  <1>7. /\ UNCHANGED <<buffer, closed, thread, ctx, contexts, done, call, answer>>
    BY DEF Meet, channels, threads, hosts
  <1>8. Fits(s, i, "nil", FALSE, CaseOf(s, i))
    BY <1>2, <1>6 DEF Fits
  <1>9. Local(r)
    BY <1>4 DEF Inv
  <1> HIDE DEF r, k, c, v
  <1>10. what \in EventSet /\ what.dir = "recv" /\ what.v = v /\ what.ch = c
    BY <1>6 DEF Case, EventSet
  <1> HIDE DEF what
  <1>11. Fits(r, k, v, TRUE, what)
    BY <1>4, <1>5, <1>6, <1>10 DEF Fits
  <1>12. /\ pc' = [pc EXCEPT ![s] = "woken", ![r] = "woken"]
         /\ chosen' = [chosen EXCEPT ![s] = Chosen(i, "nil", FALSE), ![r] = Chosen(k, v, TRUE)]
         /\ happened' = [happened EXCEPT ![s] = CaseOf(s, i), ![r] = what]
    BY <1>3 DEF r, k
  <1>13. /\ pc' \in [State -> Phases] /\ pc'[s] = "woken" /\ pc'[r] = "woken"
         /\ \A q \in State \ {s, r} : pc'[q] = pc[q]
    BY <1>1, <1>4, <1>12 DEF TypeOK, Phases
  <1> DEFINE first == Chosen(i, "nil", FALSE)
             second == Chosen(k, v, TRUE)
  <1> HIDE DEF first, second
  <1>14. chosen' = [chosen EXCEPT ![s] = first, ![r] = second]
    BY <1>12 DEF first, second
  <1>15. /\ chosen'[s] = first /\ chosen'[r] = second
         /\ \A q \in State \ {s, r} : chosen'[q] = chosen[q]
    BY <1>1, <1>4, <1>14 DEF TypeOK
  <1>16. /\ happened' \in [State -> EventSet] /\ happened'[s] = CaseOf(s, i) /\ happened'[r] = what
         /\ \A q \in State \ {s, r} : happened'[q] = happened[q]
    BY <1>1, <1>4, <1>6, <1>10, <1>12 DEF TypeOK
  <1>17. Local(s)' /\ chosen'[s] \in ChosenSet
    BY <1>1, <1>2, <1>7, <1>8, <1>13, <1>15, <1>16, WokenLocal DEF first
  <1>18. Local(r)' /\ chosen'[r] \in ChosenSet
    <2>1. r \in State /\ pc[r] = "wait" /\ pc'[r] = "woken" /\ happened'[r] = what
      BY <1>4, <1>13, <1>16
    <2>2. chosen'[r] = Chosen(k, v, TRUE)
      BY <1>15 DEF second
    <2>3. /\ thread'[r] = thread[r] /\ ctx'[r] = ctx[r] /\ done'[r] = done[r]
          /\ call'[r] = call[r] /\ answer'[r] = answer[r]
      BY <1>7
    <2> QED
      BY <1>1, <1>9, <1>11, <2>1, <2>2, <2>3, WokenLocal
  <1>19. chosen' \in [State -> ChosenSet]
    BY <1>1, <1>4, <1>14, <1>15, <1>17, <1>18 DEF TypeOK
  <1>20. TypeOK'
    BY <1>1, <1>7, <1>13, <1>16, <1>19 DEF TypeOK
  <1>21. \A q \in State \ {s, r} : Same(q)
    BY <1>7, <1>13, <1>15, <1>16 DEF Same
  <1>22. ASSUME NEW q \in State PROVE Local(q)'
    <2>1. CASE q \in {s, r}
      BY <2>1, <1>17, <1>18
    <2>2. CASE q \notin {s, r}
      BY <2>2, <1>21, SameLocal DEF Inv
    <2> QED
      BY <2>1, <2>2
  <1> QED
    BY <1>20, <1>22 DEF Inv

LEMMA ExchangeInv ==
  ASSUME Inv, NEW s \in State, Exchange(s)
  PROVE  Inv'
  <1>1. PICK i \in Positions :
          \/ Take(s, i) \/ Put(s, i) \/ Meet(s, i) \/ FindClosed(s, i) \/ FindDone(s, i)
          \/ FindNoneReady(s, i) \/ SendOnClosed(s, i)
    BY DEF Exchange
  <1>2. CASE Take(s, i)
    BY <1>2, TakeInv
  <1>3. CASE Put(s, i)
    BY <1>3, PutInv
  <1>4. CASE Meet(s, i)
    BY <1>4, MeetInv
  <1>5. CASE FindClosed(s, i) \/ FindDone(s, i) \/ FindNoneReady(s, i)
    BY <1>5, FindInv
  <1>6. CASE SendOnClosed(s, i)
    BY <1>6, RaiseInv DEF SendOnClosed
  <1> QED
    BY <1>1, <1>2, <1>3, <1>4, <1>5, <1>6

-----------------------------------------------------------------------------
(* Answers. *)

LEMMA AnswerReceiveInv ==
  ASSUME Inv, NEW s \in State, AnswerReceive(s)
  PROVE  Inv'
  <1> DEFINE new == IF call[s].name = "receive" THEN Received(s) ELSE NoAnswer
  <1>1. TypeOK /\ Local(s)
    BY DEF Inv
  <1>2. /\ pc[s] = "woken" /\ call[s].name \in {"receive", "send"}
        /\ pc' = [pc EXCEPT ![s] = "run"]
        /\ answer' = [answer EXCEPT ![s] = new]
        /\ UNCHANGED <<buffer, closed, thread, ctx, contexts, done, call, chosen, happened>>
    BY DEF AnswerReceive, channels, threads, hosts
  <1>3. Matches(s)
    BY <1>1, <1>2 DEF Local
  <1>4. chosen[s] \in ChosenSet
    BY <1>1 DEF TypeOK
  <1>5. new \in AnswerSet
    <2>1. Received(s) \in [call : {"receive"}, ok : BOOLEAN, v : Value \cup {"nil"}]
      BY <1>4 DEF Received, ChosenSet
    <2> QED
      BY <2>1 DEF AnswerSet
  <1>6. /\ new.call # "none" => new.ok = chosen[s].ok /\ new.v = chosen[s].v
        /\ new.call # "select"
    BY DEF Received, NoAnswer
  <1> HIDE DEF new
  <1>7. /\ pc' \in [State -> Phases] /\ pc'[s] = "run" /\ \A q \in State \ {s} : pc'[q] = pc[q]
    BY <1>1, <1>2 DEF TypeOK, Phases
  <1>8. /\ answer' \in [State -> AnswerSet] /\ answer'[s] = new
        /\ \A q \in State \ {s} : answer'[q] = answer[q]
    BY <1>1, <1>2, <1>5 DEF TypeOK
  <1>9. TypeOK'
    BY <1>1, <1>2, <1>7, <1>8 DEF TypeOK
  <1>10. \A q \in State \ {s} : Same(q)
    BY <1>2, <1>7, <1>8 DEF Same
  <1>11. happened'[s].dir = "done" => Done(s)'
    BY <1>1, <1>2 DEF Local, Done, ctxOf
  <1>12. new.call # "none" =>
           (new.ok <=> happened'[s].dir = "recv") /\ (new.ok => new.v = happened'[s].v)
    BY <1>2, <1>3, <1>6 DEF Matches
  <1>13. Local(s)'
    BY <1>6, <1>7, <1>8, <1>11, <1>12 DEF Local, AtHost, Calling
  <1> QED
    BY <1>9, <1>10, <1>13, OneState

LEMMA AnswerSelectInv ==
  ASSUME Inv, NEW s \in State, AnswerSelect(s)
  PROVE  Inv'
  <1>1. TypeOK /\ Local(s)
    BY DEF Inv
  <1>2. /\ pc[s] = "woken" /\ call[s].name = "select"
        /\ UNCHANGED <<buffer, closed, thread, ctx, contexts, done, call, chosen, happened>>
    BY DEF AnswerSelect, channels, threads, hosts
  <1>3. Matches(s) /\ TablesFirst(s) /\ answer[s] = NoAnswer
    BY <1>1, <1>2 DEF Local, Calling
  <1>4. chosen[s] \in ChosenSet /\ call[s] \in CallSet
    BY <1>1 DEF TypeOK
  <1>5. NoAnswer.call = "none"
    BY DEF NoAnswer
  <1>6. happened'[s].dir = "done" => Done(s)'
    BY <1>1, <1>2 DEF Local, Done, ctxOf
  <1>7. CASE ctxOf(s) # NoContext /\ chosen[s].pos = TableCount(s) + 1
    <2>1. pc' = [pc EXCEPT ![s] = "run"] /\ answer' = answer
      BY <1>7 DEF AnswerSelect
    <2>2. /\ pc' \in [State -> Phases] /\ pc'[s] = "run" /\ \A q \in State \ {s} : pc'[q] = pc[q]
      BY <1>1, <2>1 DEF TypeOK, Phases
    <2>3. TypeOK'
      BY <1>1, <1>2, <2>1, <2>2 DEF TypeOK
    <2>4. \A q \in State \ {s} : Same(q)
      BY <1>2, <2>1, <2>2 DEF Same
    <2>5. Local(s)'
      BY <1>3, <1>5, <1>6, <2>1, <2>2 DEF Local, AtHost, Calling
    <2> QED
      BY <2>3, <2>4, <2>5, OneState
  <1>8. CASE ~(ctxOf(s) # NoContext /\ chosen[s].pos = TableCount(s) + 1)
    <2>1. /\ pc' = [pc EXCEPT ![s] = "handler"] \/ pc' = [pc EXCEPT ![s] = "run"]
          /\ answer' = [answer EXCEPT ![s] = Selected(s)]
      BY <1>8 DEF AnswerSelect
    <2>2. /\ pc' \in [State -> Phases] /\ pc'[s] \in {"run", "handler"}
          /\ \A q \in State \ {s} : pc'[q] = pc[q]
      BY <1>1, <2>1 DEF TypeOK, Phases
    <2>3. /\ Selected(s) \in AnswerSet
          /\ Selected(s).call = "select" /\ Selected(s).pos = chosen[s].pos
          /\ Selected(s).ok = chosen[s].ok /\ Selected(s).v = chosen[s].v
      BY <1>4 DEF Selected, AnswerSet, ChosenSet
    <2> DEFINE new == Selected(s)
    <2> HIDE DEF new
    <2>4. answer' = [answer EXCEPT ![s] = new] /\ new \in AnswerSet
      BY <2>1, <2>3 DEF new
    <2>5. /\ answer' \in [State -> AnswerSet] /\ answer'[s] = new
          /\ \A q \in State \ {s} : answer'[q] = answer[q]
      BY <1>1, <2>4 DEF TypeOK
    <2>6. /\ new.call = "select" /\ new.pos = chosen[s].pos
          /\ new.ok = chosen[s].ok /\ new.v = chosen[s].v
      BY <2>3 DEF new
    <2>7. TypeOK'
      BY <1>1, <1>2, <2>2, <2>5 DEF TypeOK
    <2>8. \A q \in State \ {s} : Same(q)
      BY <1>2, <2>2, <2>5 DEF Same
    (* The case that took place is one of the tables. *)
    <2>9. \A j \in 1 .. chosen[s].pos : CaseOf(s, j).dir # "done"
      <3> DEFINE n == TableCount(s)
                 len == Len(call[s].cases)
                 i == chosen[s].pos
                 extra == IF ctxOf(s) # NoContext THEN 1 ELSE 0
      <3>1. call[s].cases \in Seq(TableCases \cup {DoneCase})
        BY <1>4 DEF CallSet
      <3>2. len \in Nat /\ DOMAIN call[s].cases = 1 .. len
        BY <3>1, LenProperties
      <3>3. n = len - extra /\ n \in 0 .. len
        BY <1>3 DEF TablesFirst, TableCount
      <3>4. i \in 1 .. len
        BY <1>3, <3>2 DEF Matches
      <3>5. \A j \in 1 .. n : CaseOf(s, j).dir # "done"
        BY <1>3 DEF TablesFirst
      <3>6. extra = 0 \/ (extra = 1 /\ i # n + 1)
        BY <1>8
      <3> HIDE DEF n, len, i, extra
      <3>7. i <= n
        BY <3>2, <3>3, <3>4, <3>6
      <3>8. \A j \in 1 .. i : j \in 1 .. n
        BY <3>2, <3>3, <3>4, <3>7
      <3> QED
        BY <3>5, <3>8 DEF i
    <2>10. chosen[s].pos \in 1 .. chosen[s].pos
      <3>1. call[s].cases \in Seq(TableCases \cup {DoneCase})
        BY <1>4 DEF CallSet
      <3>2. DOMAIN call[s].cases = 1 .. Len(call[s].cases) /\ Len(call[s].cases) \in Nat
        BY <3>1, LenProperties
      <3> QED
        BY <1>3, <3>2 DEF Matches
    <2>11. CaseOf(s, chosen[s].pos).dir # "done"
      BY <2>9, <2>10
    <2>12. Told(s)'
      BY <1>2, <1>3, <2>5, <2>6, <2>9, <2>11 DEF Told, Matches, CaseOf
    <2>13. (new.ok <=> happened'[s].dir = "recv") /\ (new.ok => new.v = happened'[s].v)
      BY <1>2, <1>3, <2>6 DEF Matches
    <2>14. Local(s)'
      BY <1>6, <2>2, <2>5, <2>12, <2>13 DEF Local, AtHost, Calling
    <2> QED
      BY <2>7, <2>8, <2>14, OneState
  <1> QED
    BY <1>7, <1>8

LEMMA HandlerReturnsInv ==
  ASSUME Inv, NEW s \in State, HandlerReturns(s)
  PROVE  Inv'
  <1>1. TypeOK /\ Local(s)
    BY DEF Inv
  <1>2. /\ pc' = [pc EXCEPT ![s] = "run"]
        /\ UNCHANGED <<buffer, closed, thread, ctx, contexts, done, call, chosen, answer, happened>>
    BY DEF HandlerReturns, channels, threads, hosts
  <1>3. /\ pc' \in [State -> Phases] /\ pc'[s] = "run" /\ \A q \in State \ {s} : pc'[q] = pc[q]
    BY <1>1, <1>2 DEF TypeOK, Phases
  <1>4. TypeOK'
    BY <1>1, <1>2, <1>3 DEF TypeOK
  <1>5. \A q \in State \ {s} : Same(q)
    BY <1>2, <1>3 DEF Same
  <1>6. Local(s)'
    BY <1>1, <1>2, <1>3 DEF Local, AtHost, Calling, Told, CaseOf, Done, ctxOf
  <1> QED
    BY <1>4, <1>5, <1>6, OneState

-----------------------------------------------------------------------------
(* Coroutines, protected calls, the end of a script and the host. *)

LEMMA OthersInv ==
  ASSUME Inv, NEW s \in State,
         NewThread(s) \/ Resume(s) \/ Leave(s) \/ PCall(s) \/ PCallReturns(s) \/ EndScript(s)
  PROVE  Inv'
  <1>1. TypeOK /\ pc[s] = "run"
    BY InstructionFacts DEF Inv, NewThread, Resume, Leave, PCall, PCallReturns, EndScript
  <1>2. Forget(s) /\ buffer' = buffer /\ closed' = closed /\ UNCHANGED hosts
    BY DEF NewThread, Resume, Leave, PCall, PCallReturns, EndScript, Others, channels
  <1>3. pc' = pc \/ pc' = [pc EXCEPT ![s] = "idle"]
    BY DEF NewThread, Resume, Leave, PCall, PCallReturns, EndScript
  <1>4. /\ thread' = thread \/ thread' = [thread EXCEPT ![s] = "co"]
           \/ thread' = [thread EXCEPT ![s] = "main"]
    BY DEF NewThread, Resume, Leave, PCall, PCallReturns, EndScript, threads
  <1>5. ctx' = ctx \/ ctx' = [ctx EXCEPT ![s]["co"] = ctx[s]["main"]]
    BY DEF NewThread, Resume, Leave, PCall, PCallReturns, EndScript, threads
  <1>6. /\ pc' \in [State -> Phases] /\ pc'[s] \notin {"wait", "woken"}
        /\ \A q \in State \ {s} : pc'[q] = pc[q]
    BY <1>1, <1>3 DEF TypeOK, Phases
  <1>7. thread' \in [State -> Thread] /\ \A q \in State \ {s} : thread'[q] = thread[q]
    BY <1>1, <1>4 DEF TypeOK, Thread
  <1>8. ctx' \in [State -> [Thread -> Nat]] /\ \A q \in State \ {s} : ctx'[q] = ctx[q]
    <2>1. ctx \in [State -> [Thread -> Nat]] /\ "main" \in Thread /\ "co" \in Thread
      BY <1>1 DEF TypeOK, Thread
    <2>2. ctx[s]["main"] \in Nat
      BY <2>1
    <2> QED
      BY <1>5, <2>1, <2>2
  <1>9. closed' \in [Chan -> BOOLEAN]
    BY <1>1, <1>2 DEF TypeOK
  <1> QED
    BY <1>2, <1>6, <1>7, <1>8, <1>9, ForgetInv

LEMMA HostInv ==
  ASSUME Inv, NEW s \in State, DoString(s) \/ SetContext(s) \/ RemoveContext(s)
  PROVE  Inv'
  <1>1. TypeOK /\ Local(s) /\ AtHost(s)
    BY DEF Inv, DoString, SetContext, RemoveContext
  <1>2. answer[s] = NoAnswer /\ happened[s] = Nothing
    BY <1>1 DEF Local
  <1>3. UNCHANGED <<buffer, closed, thread, done, call, chosen, answer, happened>>
    BY DEF DoString, SetContext, RemoveContext, channels, threads, hosts
  <1>4. /\ pc' \in [State -> Phases] /\ pc'[s] \notin {"wait", "woken"}
        /\ \A q \in State \ {s} : pc'[q] = pc[q]
    <2>1. pc' = pc \/ pc' = [pc EXCEPT ![s] = "run"]
      BY DEF DoString, SetContext, RemoveContext
    <2> QED
      BY <1>1, <2>1 DEF TypeOK, Phases, AtHost
  <1>5. contexts' \in [State -> Nat]
    <2>1. contexts' = contexts \/ contexts' = [contexts EXCEPT ![s] = @ + 1]
      BY DEF DoString, SetContext, RemoveContext, hosts
    <2>2. contexts \in [State -> Nat] /\ contexts[s] + 1 \in Nat
      BY <1>1 DEF TypeOK
    <2> DEFINE next == contexts[s] + 1
    <2>3. contexts' = contexts \/ contexts' = [contexts EXCEPT ![s] = next]
      BY <2>1
    <2>4. next \in Nat
      BY <2>2
    <2> HIDE DEF next
    <2> QED
      BY <2>2, <2>3, <2>4
  <1>6. ctx' \in [State -> [Thread -> Nat]] /\ \A q \in State \ {s} : ctx'[q] = ctx[q]
    <2>1. \/ ctx' = ctx \/ ctx' = [ctx EXCEPT ![s]["main"] = contexts'[s]]
          \/ ctx' = [ctx EXCEPT ![s]["main"] = NoContext]
      BY DEF DoString, SetContext, RemoveContext, threads
    <2>2. ctx \in [State -> [Thread -> Nat]] /\ "main" \in Thread
      BY <1>1 DEF TypeOK, Thread
    <2>3. contexts'[s] \in Nat /\ NoContext \in Nat
      BY <1>5 DEF NoContext
    <2> QED
      BY <2>1, <2>2, <2>3
  <1>7. TypeOK'
    BY <1>1, <1>3, <1>4, <1>5, <1>6 DEF TypeOK
  <1>8. \A q \in State \ {s} : Same(q)
    BY <1>3, <1>4, <1>6 DEF Same
  <1>9. Local(s)'
    BY <1>2, <1>3, <1>4, CleanLocal
  <1> QED
    BY <1>7, <1>8, <1>9, OneState

LEMMA CancelInv ==
  ASSUME Inv, NEW s \in State, Cancel(s)
  PROVE  Inv'
  <1>1. TypeOK /\ Local(s)
    BY DEF Inv
  <1>2. PICK k \in (1 .. contexts[s]) \ done[s] : done' = [done EXCEPT ![s] = @ \cup {k}]
    BY DEF Cancel
  <1>3. UNCHANGED <<buffer, closed, pc, thread, ctx, contexts, call, chosen, answer, happened>>
    BY DEF Cancel, channels, threads
  <1>4. k \in Nat \ {NoContext}
    BY <1>1, <1>2 DEF TypeOK, NoContext
  <1>5. /\ done' \in [State -> SUBSET (Nat \ {NoContext})] /\ done[s] \subseteq done'[s]
        /\ \A q \in State \ {s} : done'[q] = done[q]
    BY <1>1, <1>2, <1>4 DEF TypeOK
  <1>6. TypeOK'
    BY <1>1, <1>3, <1>5 DEF TypeOK
  <1>7. \A q \in State \ {s} : Same(q)
    BY <1>3, <1>5 DEF Same
  <1>8. Done(s) => Done(s)'
    BY <1>3, <1>5 DEF Done, ctxOf
  <1>9. Local(s)'
    BY <1>1, <1>3, <1>8 DEF Local, AtHost, Calling, TablesFirst, TableCount, ctxOf, CaseOf, Matches, Told
  <1> QED
    BY <1>6, <1>7, <1>9, OneState

-----------------------------------------------------------------------------

LEMMA InitInv == Init => Inv
  <1> SUFFICES ASSUME Init PROVE Inv
    OBVIOUS
  <1>1. /\ buffer = [c \in Chan |-> << >>] /\ closed = [c \in Chan |-> FALSE]
        /\ pc = [s \in State |-> "idle"] /\ thread = [s \in State |-> "main"]
        /\ ctx = [s \in State |-> [t \in Thread |-> NoContext]]
        /\ contexts = [s \in State |-> 0] /\ done = [s \in State |-> {}]
        /\ call = [s \in State |-> NoCall] /\ chosen = [s \in State |-> NoCase]
        /\ answer = [s \in State |-> NoAnswer] /\ happened = [s \in State |-> Nothing]
    BY DEF Init
  <1>2. buffer \in [Chan -> Seq(Value)] /\ closed \in [Chan -> BOOLEAN]
    BY <1>1, EmptySeq
  <1>3. pc \in [State -> Phases] /\ thread \in [State -> Thread]
    BY <1>1 DEF Phases, Thread
  <1>4. ctx \in [State -> [Thread -> Nat]] /\ contexts \in [State -> Nat]
    BY <1>1 DEF NoContext
  <1>5. done \in [State -> SUBSET (Nat \ {NoContext})]
    BY <1>1
  <1>6. call \in [State -> CallSet] /\ chosen \in [State -> ChosenSet]
    BY <1>1, Constants
  <1>7. answer \in [State -> AnswerSet] /\ happened \in [State -> EventSet]
    BY <1>1, Constants
  <1>8. TypeOK
    BY <1>2, <1>3, <1>4, <1>5, <1>6, <1>7 DEF TypeOK
  <1>9. ASSUME NEW s \in State PROVE Local(s)
    <2>1. pc[s] = "idle" /\ answer[s] = NoAnswer /\ happened[s] = Nothing
      BY <1>1
    <2>2. NoAnswer.call = "none" /\ Nothing.dir = "none"
      BY DEF NoAnswer, Nothing
    <2> QED
      BY <2>1, <2>2 DEF Local, AtHost, Calling
  <1> QED
    BY <1>8, <1>9 DEF Inv

LEMMA NextInv == Inv /\ [Next]_vars => Inv'
  <1> SUFFICES ASSUME Inv, [Next]_vars PROVE Inv'
    OBVIOUS
  <1>1. CASE UNCHANGED vars
    <2>1. /\ UNCHANGED <<buffer, closed, pc, thread, ctx, contexts, done>>
          /\ UNCHANGED <<call, chosen, answer, happened>>
      BY <1>1 DEF vars
    <2>2. TypeOK'
      BY <2>1 DEF Inv, TypeOK
    <2>3. \A s \in State : Same(s)
      BY <2>1 DEF Same
    <2> QED
      BY <2>2, <2>3, SameLocal DEF Inv
  <1>2. ASSUME NEW s \in State, Run(s) PROVE Inv'
    <2>1. CASE Interrupt(s)
      BY <2>1, RaiseInv DEF Interrupt
    <2>2. CASE Exchange(s)
      BY <2>2, ExchangeInv
    <2>3. CASE AnswerReceive(s)
      BY <2>3, AnswerReceiveInv
    <2>4. CASE AnswerSelect(s)
      BY <2>4, AnswerSelectInv
    <2>5. CASE HandlerReturns(s)
      BY <2>5, HandlerReturnsInv
    <2>6. CASE channelSend(s)
      BY <2>6, ChannelSendInv
    <2>7. CASE channelReceive(s)
      BY <2>7, ChannelReceiveInv
    <2>8. CASE channelSelect(s)
      BY <2>8, ChannelSelectInv
    <2>9. CASE channelClose(s)
      BY <2>9, ChannelCloseInv
    <2>10. CASE NewThread(s) \/ Resume(s) \/ Leave(s) \/ PCall(s) \/ PCallReturns(s) \/ EndScript(s)
      BY <2>10, OthersInv
    <2> QED
      BY <1>2, <2>1, <2>2, <2>3, <2>4, <2>5, <2>6, <2>7, <2>8, <2>9, <2>10 DEF Run
  <1>3. ASSUME NEW s \in State, DoString(s) \/ SetContext(s) \/ RemoveContext(s) PROVE Inv'
    BY <1>3, HostInv
  <1>4. ASSUME NEW s \in State, Cancel(s) PROVE Inv'
    BY <1>4, CancelInv
  <1> QED
    BY <1>1, <1>2, <1>3, <1>4 DEF Next

LEMMA SpecInv == Spec => []Inv
  BY InitInv, NextInv, PTL DEF Spec

(* What a goroutine, its call and its answer are made of. *)
THEOREM ChannelsTypeOK == Spec => []TypeOK
  <1>1. Inv => TypeOK
    BY DEF Inv
  <1> QED
    BY <1>1, SpecInv, PTL

(* A script that goes on after receive or select answered "no value" was not
   cancelled, however contexts are set, removed and done meanwhile. *)
THEOREM ChannelsCancelNotClosed == Spec => []CancelNotClosed
  <1>1. Inv => CancelNotClosed
    <2> SUFFICES ASSUME Inv, NEW s \in State, Runs(s) PROVE happened[s] # DoneCase
      BY DEF CancelNotClosed
    <2>1. ~Done(s)
      BY DEF Runs, Interrupted
    <2>2. happened[s].dir = "done" => Done(s)
      BY DEF Inv, Local
    <2>3. DoneCase.dir = "done"
      BY DEF DoneCase
    <2> QED
      BY <2>1, <2>2, <2>3
  <1> QED
    BY <1>1, SpecInv, PTL

(* When none of the first i cases is the context's, table i is case i. *)
LEMMA TableIsCase ==
  ASSUME NEW s, NEW i \in Nat, \A j \in 1 .. i : CaseOf(s, j).dir # "done"
  PROVE  TablePosition(s, i) = i
  <1>1. {j \in 1 .. i : CaseOf(s, j).dir # "done"} = 1 .. i
    OBVIOUS
  <1>2. Cardinality(1 .. i) = i
    <2>1. /\ IsFiniteSet(1 .. i)
          /\ Cardinality(1 .. i) = IF 1 > i THEN 0 ELSE i - 1 + 1
      BY FS_Interval
    <2> QED
      BY <2>1
  <1> QED
    BY <1>1, <1>2 DEF TablePosition

(* What receive and select tell a script, and the handler that select calls,
   are about the table whose case took place. *)
THEOREM ChannelsAnswerIsOfCase == Spec => []AnswerIsOfCase
  <1>1. Inv => AnswerIsOfCase
    <2> SUFFICES ASSUME Inv, NEW s \in State, answer[s].call # "none", Runs(s)
                 PROVE  /\ answer[s].ok <=> happened[s].dir = "recv"
                        /\ answer[s].ok => answer[s].v = happened[s].v
                        /\ answer[s].call = "select" =>
                             \E i \in DOMAIN call[s].cases :
                               /\ answer[s].pos = TablePosition(s, i)
                               /\ CaseOf(s, i).dir = IF happened[s].dir = "closed" THEN "recv" ELSE happened[s].dir
                               /\ CaseOf(s, i).dir # "done"
                               /\ CaseOf(s, i).dir # "default" => CaseOf(s, i).ch = happened[s].ch
      BY DEF AnswerIsOfCase
    <2>1. TypeOK /\ Local(s)
      BY DEF Inv
    <2>2. /\ answer[s].ok <=> happened[s].dir = "recv"
          /\ answer[s].ok => answer[s].v = happened[s].v
      BY <2>1 DEF Local
    <2>3. ASSUME answer[s].call = "select"
          PROVE  \E i \in DOMAIN call[s].cases :
                   /\ answer[s].pos = TablePosition(s, i)
                   /\ CaseOf(s, i).dir = IF happened[s].dir = "closed" THEN "recv" ELSE happened[s].dir
                   /\ CaseOf(s, i).dir # "done"
                   /\ CaseOf(s, i).dir # "default" => CaseOf(s, i).ch = happened[s].ch
      <3> DEFINE i == answer[s].pos
      <3>1. /\ i \in DOMAIN call[s].cases
            /\ \A j \in 1 .. i : CaseOf(s, j).dir # "done"
            /\ CaseOf(s, i).dir = IF happened[s].dir = "closed" THEN "recv" ELSE happened[s].dir
            /\ CaseOf(s, i).dir # "default" => CaseOf(s, i).ch = happened[s].ch
        BY <2>1, <2>3 DEF Local, Told
      <3>2. i \in Nat
        BY <2>1, <3>1, CaseFacts
      <3> HIDE DEF i
      <3>3. TablePosition(s, i) = i
        BY <3>1, <3>2, TableIsCase
      <3>4. i \in 1 .. i
        <4>1. call[s].cases \in Seq(TableCases \cup {DoneCase})
          BY <2>1 DEF TypeOK, CallSet
        <4>2. DOMAIN call[s].cases = 1 .. Len(call[s].cases) /\ Len(call[s].cases) \in Nat
          BY <4>1, LenProperties
        <4> QED
          BY <3>1, <4>2
      <3>5. CaseOf(s, i).dir # "done"
        BY <3>1, <3>4
      <3> QED
        BY <3>1, <3>3, <3>5 DEF i
    <2> QED
      BY <2>2, <2>3
  <1> QED
    BY <1>1, SpecInv, PTL
===============================================================================
