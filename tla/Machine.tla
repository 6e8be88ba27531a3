------------------------------- MODULE Machine -------------------------------
(***************************************************************************)
(* The virtual machine (vm.go): one action for each instruction.  It runs  *)
(* the code of a program, an element of Programs.                          *)
(*                                                                         *)
(* The registers are those of Registry; growth is left out here.  Register *)
(* r of the frame with local base lb is element lb + r + 1.  A metamethod  *)
(* runs in a main loop of its own; a frame says what is done with its      *)
(* results when it returns to the instruction that called it.              *)
(***************************************************************************)
EXTENDS Compiler

CONSTANTS
  Programs,        \* a set of programs, each a list of statements
  CodeOf(_),       \* what the compiler makes of a program
  MaxTableGetLoop  \* tables that one access looks into

Unset == <<"unset">>
MultRet == -1

VARIABLES
  program, \* which program runs
  code,    \* what the compiler has made of it
  thread,  \* its call frames and registers
  heap,    \* tables, closures and upvalues; the first table holds the globals
  out,     \* what the program has shown of its values
  status   \* "running", "done", "error", or "rejected" by the compiler

vars == <<program, code, thread, heap, out, status>>

(* What a program shows of a value: tables and functions only by type. *)
Shown(v) == IF v[1] \in {"table", "function", "gfunction"} THEN <<Type(v)>> ELSE v
ShownAll(vs) == [i \in DOMAIN vs |-> Shown(vs[i])]

GoFunctions == {"emit", "setmetatable", "error"}

RECURSIVE ProtoAt(_, _)
ProtoAt(proto, path) ==
  IF path = << >> THEN proto ELSE ProtoAt(proto.protos[path[1] + 1], Tail(path))

-----------------------------------------------------------------------------
(* Frames and registers. *)

Frame(t) == t.frames[Len(t.frames)]
Closure(t, h) == h.closures[Frame(t).fn]
Proto(t, h) == ProtoAt(code, Closure(t, h).path)

Top1(t) == Len(t.regs)
Lower(t, n) == SubSeq(t.regs, 1, n)
Nils(n) == [i \in 1 .. n |-> LNil]
SetTop(t, n) == [t EXCEPT !.regs = IF n <= Len(@) THEN SubSeq(@, 1, n) ELSE @ \o Nils(n - Len(@))]

GetAt(t, r) == IF r < Len(t.regs) THEN t.regs[r + 1] ELSE Unset
SetAt(t, r, v) ==
  [t EXCEPT !.regs = IF r < Len(@) THEN [@ EXCEPT ![r + 1] = v]
                     ELSE Append(@ \o [i \in 1 .. r - Len(@) |-> Unset], v)]

Get(t, r) == GetAt(t, Frame(t).localBase + r)
Set(t, r, v) == SetAt(t, Frame(t).localBase + r, v)
Push(t, v) == [t EXCEPT !.regs = Append(@, v)]
SetPc(t, pc) == [t EXCEPT !.frames[Len(t.frames)].pc = pc]
Jump(t, d) == SetPc(t, Frame(t).pc + d)
SkipIf(t, skip) == IF skip THEN Jump(t, 1) ELSE t

rkValue(t, x) == IF opIsK(x) THEN Proto(t, heap).constants[x - opBitRk + 1] ELSE Get(t, x)

(* What an instruction makes of the machine. *)
Effect(t, h) == [thread |-> t, heap |-> h, out |-> out, status |-> "running"]
Error(t) == [Effect(t, heap) EXCEPT !.status = "error"]

-----------------------------------------------------------------------------
(* Tables and metatables. *)

NewTable(h) == [h EXCEPT !.tables = Append(@, [fields |-> << >>, mt |-> LNil])]

RawGet(h, tb, key) ==
  LET fields == h.tables[tb[2]].fields
  IN  IF key \in DOMAIN fields THEN fields[key] ELSE LNil

RawSet(h, tb, key, v) ==
  LET fields == h.tables[tb[2]].fields
      keys == IF v = LNil THEN DOMAIN fields \ {key} ELSE DOMAIN fields \cup {key}
  IN  [h EXCEPT !.tables[tb[2]].fields = [k \in keys |-> IF k = key THEN v ELSE fields[k]]]

(* The length of a list; a table with holes is left to TableTraversal. *)
RECURSIVE Border(_, _, _)
Border(h, tb, n) == IF RawGet(h, tb, LNumber(n + 1)) = LNil THEN n ELSE Border(h, tb, n + 1)

metatable(h, v) == IF v[1] = "table" THEN h.tables[v[2]].mt ELSE LNil
metaOp1(h, v, event) ==
  IF metatable(h, v) = LNil THEN LNil ELSE RawGet(h, metatable(h, v), LString(event))
metaOp2(h, v, w, event) ==
  IF metaOp1(h, v, event) # LNil THEN metaOp1(h, v, event) ELSE metaOp1(h, w, event)

(* Where an access to a field ends: with a value or a table to set it in
   ("at"), with a metamethod to call, or in an error. *)
RECURSIVE Lookup(_, _, _, _, _)
Lookup(h, obj, key, event, n) ==
  LET istable == obj[1] = "table"
      mm == metaOp1(h, obj, event)
  IN  IF n = 0 THEN [kind |-> "error", obj |-> obj, fn |-> LNil]
      ELSE IF istable /\ (RawGet(h, obj, key) # LNil \/ mm = LNil)
      THEN [kind |-> "at", obj |-> obj, fn |-> LNil]
      ELSE IF mm = LNil THEN [kind |-> "error", obj |-> obj, fn |-> LNil]
      ELSE IF Type(mm) = "function" THEN [kind |-> "call", obj |-> obj, fn |-> mm]
      ELSE Lookup(h, mm, key, event, n - 1)

-----------------------------------------------------------------------------
(* Upvalues. *)

UpvalueAt(t, h, u) == IF h.upvalues[u].open THEN GetAt(t, h.upvalues[u].index) ELSE h.upvalues[u].value

closeUpvalues(t, h, from) ==
  [h EXCEPT !.upvalues =
     [u \in DOMAIN @ |-> IF @[u].open /\ @[u].index >= from
                         THEN [open |-> FALSE, index |-> 0, value |-> GetAt(t, @[u].index)] ELSE @[u]]]

OpenAt(h, index) == {u \in DOMAIN h.upvalues : h.upvalues[u].open /\ h.upvalues[u].index = index}

findUpvalue(h, index) ==
  IF OpenAt(h, index) # {} THEN h
  ELSE [h EXCEPT !.upvalues = Append(@, [open |-> TRUE, index |-> index, value |-> LNil])]

-----------------------------------------------------------------------------
(* Calls and returns. *)

(* initCallFrame: the registers of a Lua function whose nargs arguments are
   above lb, its local base, and the heap with its table of arguments. *)
initCallFrame(t, h, p, lb, nargs) ==
  LET np == p.numParameters
      given == intMax(nargs, np)
      arg(i) == IF i <= nargs THEN t.regs[lb + i] ELSE LNil
      extra == [i \in 1 .. given - np |-> arg(np + i)]
      tabled == [k \in {LNumber(i) : i \in {j \in DOMAIN extra : extra[j] # LNil}} \cup {LString("n")} |->
                   IF k = LString("n") THEN LNumber(Len(extra)) ELSE extra[k[2]]]
      params == [i \in 1 .. np |-> arg(i)]
      local == IF p.isVarArg THEN lb + given ELSE lb
      below == IF p.isVarArg THEN Nils(np) \o extra ELSE << >>
      argtb == IF p.isVarArg /\ p.needsArg THEN <<LTable(Len(h.tables) + 1)>> ELSE << >>
      first == Lower(t, lb) \o below \o params \o argtb
      all == local + intMax(p.numUsedRegisters, Len(params) + Len(argtb))
  IN  [regs |-> first \o Nils(all - Len(first)), localBase |-> local,
       heap |-> IF argtb = << >> THEN h
                ELSE [h EXCEPT !.tables = Append(@, [fields |-> tabled, mt |-> LNil])]]

(* The first n results, nil for those missing. *)
Adjusted(results, n) == [i \in 1 .. n |-> IF i <= Len(results) THEN results[i] ELSE LNil]

(* What an instruction does with the results of the metamethod, iterator or
   close function it has called. *)
RECURSIVE Concat(_, _, _, _), CallValue(_, _, _, _, _, _, _), CloseWith(_, _, _)

Resume(e, after) ==
  LET t == e.thread
      result == GetAt(t, Top1(t) - 1)
      popped == SetTop(t, Top1(t) - 1)
      control == Get(t, after.a + 3)
      head == Proto(t, e.heap).code[Frame(t).pc + 1]
  IN  CASE after.kind \in {"none", "drop"} -> e
      []   after.kind = "set" -> [e EXCEPT !.thread = Set(popped, after.a, result)]
      []   after.kind = "self" ->
             [e EXCEPT !.thread = Set(Set(popped, after.a, result), after.a + 1, after.obj)]
      []   after.kind = "test" ->
             [e EXCEPT !.thread = SkipIf(popped, (LVAsBool(result) # after.negated) # (after.a = 1))]
      []   after.kind = "close" -> CloseWith([e EXCEPT !.thread = popped], result, after.obj)
      []   after.kind = "concat" -> Concat([e EXCEPT !.thread = popped], after.a, result, after.i)
      []   after.kind = "tfor" ->
             [e EXCEPT !.thread = IF control = LNil THEN Jump(t, 1)
                                  ELSE Jump(Set(t, after.a + 2, control), head.b + 1)]

(* The topmost frame gives up its registers and returns the results. *)
Deliver(e, results) ==
  LET f == Frame(e.thread)
      n == IF f.nret = MultRet THEN Len(results) ELSE f.nret
      t == [frames |-> SubSeq(e.thread.frames, 1, Len(e.thread.frames) - 1),
            regs |-> Lower(e.thread, f.ret) \o Adjusted(results, n)]
  IN  IF t.frames = << >>
      THEN [e EXCEPT !.thread = t, !.out = Append(@, ShownAll(results)), !.status = "done"]
      ELSE Resume([e EXCEPT !.thread = t], f.after)

(* The functions of the host: emit shows its arguments, the others are the
   base library's. *)
CallGFunction(e, name, args) ==
  CASE name = "emit" -> Deliver([e EXCEPT !.out = Append(@, ShownAll(args))], << >>)
  []   name = "setmetatable" ->
         Deliver([e EXCEPT !.heap.tables[args[1][2]].mt = args[2]], <<args[1]>>)
  []   name = "error" -> [e EXCEPT !.status = "error"]

(* callR: the value at register base is called with the nargs values above
   it; a value with a __call metamethod becomes its first argument. *)
CallValue(e, base, nargs, nret, ret, after, caller) ==
  LET t == e.thread
      lv == GetAt(t, base)
      meta == Type(lv) # "function"
      fn == IF meta THEN metaOp1(e.heap, lv, "__call") ELSE lv
      args == IF meta THEN [t EXCEPT !.regs = InsertAt(@, base + 2, lv)] ELSE t
      n == IF meta THEN nargs + 1 ELSE nargs
      frame == [fn |-> fn[2], pc |-> 0, base |-> base, localBase |-> base + 1, ret |-> ret,
                nargs |-> n, nret |-> nret, after |-> after]
      called == [e EXCEPT !.thread = [args EXCEPT !.frames = Append(caller, frame)]]
      p == ProtoAt(code, e.heap.closures[fn[2]].path)
      init == initCallFrame(args, e.heap, p, base + 1, n)
  IN  CASE fn[1] = "gfunction" ->
             CallGFunction(called, fn[2], [i \in 1 .. n |-> args.regs[base + 1 + i]])
      []   fn[1] = "function" ->
             [e EXCEPT !.thread = [frames |-> Append(caller, [frame EXCEPT !.localBase = init.localBase]),
                                   regs |-> init.regs],
                       !.heap = init.heap]
      []   OTHER -> [e EXCEPT !.status = "error"]

(* L.Call with the function and its arguments pushed. *)
CallMeta(e, fn, args, nret, after) ==
  LET t == [e.thread EXCEPT !.regs = @ \o <<fn>> \o args]
  IN  CallValue([e EXCEPT !.thread = t], Top1(e.thread), Len(args), nret, Top1(e.thread), after, t.frames)

After(kind, a) == [kind |-> kind, a |-> a, negated |-> FALSE, i |-> 0, obj |-> LNil]

(* The end of the scope of v, whose __close was found to be fn. *)
CloseWith(e, fn, v) ==
  IF Type(fn) = "function" THEN CallMeta(e, fn, <<v>>, 0, After("drop", 0)) ELSE [e EXCEPT !.status = "error"]

-----------------------------------------------------------------------------
(* Operations on values. *)

ToStr(v) == IF v[1] = "number" THEN ToString(v[2]) ELSE v[2]
LVCanConvToString(v) == v[1] \in {"number", "string"}

(* stringConcat: rhs is the value so far, and register i the next operand;
   the operands below first are not part of it. *)
Concat(e, inst, rhs, i) ==
  LET lhs == Get(e.thread, i)
      mm == metaOp2(e.heap, lhs, rhs, "__concat")
      after == [After("concat", inst) EXCEPT !.i = i - 1]
  IN  IF i < inst.b THEN [e EXCEPT !.thread = Set(@, inst.a, rhs)]
      ELSE IF LVCanConvToString(lhs) /\ LVCanConvToString(rhs)
      THEN Concat(e, inst, LString(ToStr(lhs) \o ToStr(rhs)), i - 1)
      ELSE IF Type(mm) = "function" THEN CallMeta(e, mm, <<lhs, rhs>>, 1, after)
      ELSE [e EXCEPT !.status = "error"]

Arithmetic ==
  ("ADD" :> "+") @@ ("SUB" :> "-") @@ ("MUL" :> "*") @@ ("DIV" :> "/") @@ ("IDIV" :> "//") @@ ("MOD" :> "%")
  @@ ("POW" :> "^") @@ ("SHL" :> "<<") @@ ("SHR" :> ">>") @@ ("BAND" :> "&") @@ ("BOR" :> "|") @@ ("BXOR" :> "~")
Event ==
  ("ADD" :> "__add") @@ ("SUB" :> "__sub") @@ ("MUL" :> "__mul") @@ ("DIV" :> "__div") @@ ("IDIV" :> "__idiv")
  @@ ("MOD" :> "__mod") @@ ("POW" :> "__pow") @@ ("SHL" :> "__shl") @@ ("SHR" :> "__shr") @@ ("BAND" :> "__band")
  @@ ("BOR" :> "__bor") @@ ("BXOR" :> "__bxor")

(* objectArith; no string of a program is a numeral. *)
objectArith(t, inst, lhs, rhs) ==
  LET mm == metaOp2(heap, lhs, rhs, Event[inst.op])
  IN  IF Type(mm) = "function" THEN CallMeta(Effect(t, heap), mm, <<lhs, rhs>>, 1, After("set", inst.a))
      ELSE Error(t)

(* A comparison event: both operands have the same metamethod. *)
Rational(v, w, event) ==
  LET m == metaOp1(heap, v, event)
  IN  IF Type(m) = "function" /\ m = metaOp1(heap, w, event) THEN m ELSE LNil

(* The test of inst on a value that is known, or on a metamethod's result. *)
Tested(t, inst, ret) == Effect(SkipIf(t, ret # (inst.a = 1)), heap)
TestedBy(t, inst, mm, v, w, negated) ==
  CallMeta(Effect(t, heap), mm, <<v, w>>, 1, [After("test", inst.a) EXCEPT !.negated = negated])

-----------------------------------------------------------------------------
(* The instructions.  Each is given the thread after the fetch, and the
   instruction. *)

Become(effect) ==
  /\ \E e \in {effect} :
       /\ thread' = e.thread
       /\ heap' = e.heap
       /\ out' = e.out
       /\ status' = e.status
  /\ UNCHANGED <<program, code>>

Computes(t, inst, v) == Become(Effect(Set(t, inst.a, v), heap))

OpMove(t, i) == i.op = "MOVE" /\ Computes(t, i, Get(t, i.b))

(* The moves that follow are part of it. *)
RECURSIVE Moves(_, _, _)
Moves(t, insts, n) ==
  IF n = 0 THEN t
  ELSE LET i == insts[Frame(t).pc + 1] IN Moves(Jump(Set(t, i.a, Get(t, i.b)), 1), insts, n - 1)

OpMoveN(t, i) ==
  /\ i.op = "MOVEN"
  /\ Become(Effect(Moves(Set(t, i.a, Get(t, i.b)), Proto(t, heap).code, i.c), heap))

OpLoadK(t, i) == i.op = "LOADK" /\ Computes(t, i, Proto(t, heap).constants[i.b + 1])

OpLoadBool(t, i) ==
  /\ i.op = "LOADBOOL"
  /\ Become(Effect(SkipIf(Set(t, i.a, LBool(i.b # 0)), i.c # 0), heap))

RECURSIVE LoadNils(_, _, _)
LoadNils(t, a, b) == IF a > b THEN t ELSE LoadNils(Set(t, a, LNil), a + 1, b)

OpLoadNil(t, i) == i.op = "LOADNIL" /\ Become(Effect(LoadNils(t, i.a, i.b), heap))

OpGetUpval(t, i) ==
  i.op = "GETUPVAL" /\ Computes(t, i, UpvalueAt(t, heap, Closure(t, heap).upvalues[i.b + 1]))

OpSetUpval(t, i) ==
  LET u == Closure(t, heap).upvalues[i.b + 1]
      v == Get(t, i.a)
  IN  /\ i.op = "SETUPVAL"
      /\ Become(IF heap.upvalues[u].open THEN Effect(SetAt(t, heap.upvalues[u].index, v), heap)
                ELSE Effect(t, [heap EXCEPT !.upvalues[u].value = v]))

Globals == LTable(1)
OpGetGlobal(t, i) ==
  i.op = "GETGLOBAL" /\ Computes(t, i, RawGet(heap, Globals, Proto(t, heap).constants[i.b + 1]))
OpSetGlobal(t, i) ==
  /\ i.op = "SETGLOBAL"
  /\ Become(Effect(t, RawSet(heap, Globals, Proto(t, heap).constants[i.b + 1], Get(t, i.a))))

(* getField: what is found, or the metamethod's result, goes to register a. *)
GetField(t, obj, key, a) ==
  LET found == Lookup(heap, obj, key, "__index", MaxTableGetLoop)
  IN  CASE found.kind = "at" -> Effect(Set(t, a, RawGet(heap, found.obj, key)), heap)
      []   found.kind = "call" ->
             CallMeta(Effect(t, heap), found.fn, <<found.obj, key>>, 1, After("set", a))
      []   found.kind = "error" -> Error(t)

(* setField, with a metamethod that gives no result. *)
SetField(t, obj, key, v) ==
  LET found == Lookup(heap, obj, key, "__newindex", MaxTableGetLoop)
  IN  CASE found.kind = "at" -> Effect(t, RawSet(heap, found.obj, key, v))
      []   found.kind = "call" ->
             CallMeta(Effect(t, heap), found.fn, <<found.obj, key, v>>, 0, After("drop", 0))
      []   found.kind = "error" -> Error(t)

OpGetTable(t, i) ==
  i.op \in {"GETTABLE", "GETTABLEKS"} /\ Become(GetField(t, Get(t, i.b), rkValue(t, i.c), i.a))

OpSetTable(t, i) ==
  i.op \in {"SETTABLE", "SETTABLEKS"} /\ Become(SetField(t, Get(t, i.a), rkValue(t, i.b), rkValue(t, i.c)))

OpNewTable(t, i) ==
  i.op = "NEWTABLE" /\ Become(Effect(Set(t, i.a, LTable(Len(heap.tables) + 1)), NewTable(heap)))

(* The method is looked up before the registers change. *)
OpSelf(t, i) ==
  LET obj == Get(t, i.b)
      key == rkValue(t, i.c)
      found == Lookup(heap, obj, key, "__index", MaxTableGetLoop)
      after == [After("self", i.a) EXCEPT !.obj = obj]
  IN  /\ i.op = "SELF"
      /\ Become(CASE found.kind = "at" ->
                       Effect(Set(Set(t, i.a, RawGet(heap, found.obj, key)), i.a + 1, obj), heap)
                []   found.kind = "call" -> CallMeta(Effect(t, heap), found.fn, <<found.obj, key>>, 1, after)
                []   found.kind = "error" -> Error(t))

OpArith(t, i) ==
  LET v == rkValue(t, i.b)
      w == rkValue(t, i.c)
  IN  /\ i.op \in DOMAIN Arithmetic
      /\ Become(IF v[1] = "number" /\ w[1] = "number"
                THEN Effect(Set(t, i.a, LNumber(numberArith(Arithmetic[i.op], v[2], w[2]))), heap)
                ELSE objectArith(t, i, v, w))

(* Unary minus and bitwise not. *)
OpNegate(t, i) ==
  LET v == rkValue(t, i.b)
      mm == metaOp1(heap, v, IF i.op = "UNM" THEN "__unm" ELSE "__bnot")
  IN  /\ i.op \in {"UNM", "BNOT"}
      /\ Become(IF v[1] = "number"
                THEN Effect(Set(t, i.a, LNumber(IF i.op = "UNM" THEN -v[2] ELSE -v[2] - 1)), heap)
                ELSE IF Type(mm) = "function"
                THEN CallMeta(Effect(t, heap), mm, <<v>>, 1, After("set", i.a))
                ELSE Error(t))

OpNot(t, i) == i.op = "NOT" /\ Computes(t, i, LBool(~LVAsBool(Get(t, i.b))))

OpLen(t, i) ==
  LET v == rkValue(t, i.b)
      mm == metaOp1(heap, v, "__len")
  IN  /\ i.op = "LEN"
      /\ Become(IF v[1] = "string" THEN Effect(Set(t, i.a, LNumber(Len(v[2]))), heap)
                ELSE IF Type(mm) = "function"
                THEN CallMeta(Effect(t, heap), mm, <<v>>, 1, After("set", i.a))
                ELSE IF v[1] = "table" THEN Effect(Set(t, i.a, LNumber(Border(heap, v, 0))), heap)
                ELSE Error(t))

OpConcat(t, i) == i.op = "CONCAT" /\ Become(Concat(Effect(t, heap), i, Get(t, i.c), i.c - 1))

OpJmp(t, i) == i.op = "JMP" /\ Become(Effect(Jump(t, i.b), heap))
OpNop(t, i) == i.op = "NOP" /\ Become(Effect(t, heap))

OpEq(t, i) ==
  LET v == rkValue(t, i.b)
      w == rkValue(t, i.c)
      mm == Rational(v, w, "__eq")
  IN  /\ i.op = "EQ"
      /\ Become(IF v # w /\ v[1] = "table" /\ w[1] = "table" /\ mm # LNil
                THEN TestedBy(t, i, mm, v, w, FALSE) ELSE Tested(t, i, v = w))

(* Strings are not compared by the programs. *)
OpLt(t, i) ==
  LET v == rkValue(t, i.b)
      w == rkValue(t, i.c)
      mm == Rational(v, w, "__lt")
  IN  /\ i.op = "LT"
      /\ Become(IF v[1] = "number" /\ w[1] = "number" THEN Tested(t, i, v[2] < w[2])
                ELSE IF v[1] = "table" /\ w[1] = "table" /\ mm # LNil
                THEN TestedBy(t, i, mm, v, w, FALSE) ELSE Error(t))

OpLe(t, i) ==
  LET v == rkValue(t, i.b)
      w == rkValue(t, i.c)
      le == Rational(v, w, "__le")
      lt == Rational(w, v, "__lt")
      objects == v[1] = "table" /\ w[1] = "table"
  IN  /\ i.op = "LE"
      /\ Become(IF v[1] = "number" /\ w[1] = "number" THEN Tested(t, i, v[2] <= w[2])
                ELSE IF objects /\ le # LNil THEN TestedBy(t, i, le, v, w, FALSE)
                ELSE IF objects /\ lt # LNil THEN TestedBy(t, i, lt, w, v, TRUE)
                ELSE Error(t))

OpTest(t, i) ==
  i.op = "TEST" /\ Become(Effect(SkipIf(t, LVAsBool(Get(t, i.a)) = (i.c = 0)), heap))

OpTestSet(t, i) ==
  LET v == Get(t, i.b)
  IN  /\ i.op = "TESTSET"
      /\ Become(Effect(IF LVAsBool(v) # (i.c = 0) THEN Set(t, i.a, v) ELSE Jump(t, 1), heap))

(* The arguments of a call: a fixed number, or all up to the top. *)
ArgCount(t, i) == IF i.b = 0 THEN Top1(t) - (Frame(t).localBase + i.a + 1) ELSE i.b - 1

OpCall(t, i) ==
  LET ra == Frame(t).localBase + i.a
      nret == IF i.c = 0 THEN MultRet ELSE i.c - 1
  IN  /\ i.op = "CALL"
      /\ Become(CallValue(Effect(t, heap), ra, ArgCount(t, i), nret, ra, After("none", 0), t.frames))

(* The frame is replaced; a Lua function's registers, set up where they are,
   are copied down but for the last one. *)
OpTailCall(t, i) ==
  LET f == Frame(t)
      ra == f.localBase + i.a
      callers == SubSeq(t.frames, 1, Len(t.frames) - 1)
      lv == Get(t, i.a)
      callable == IF Type(lv) = "function" THEN lv ELSE metaOp1(heap, lv, "__call")
      closed == closeUpvalues(t, heap, f.localBase)
      e == CallValue(Effect(t, closed), ra, ArgCount(t, i), f.nret, f.ret, f.after, callers)
      g == Frame(e.thread)
      n == Top1(e.thread) - ra - 1
      moved == [frames |-> [e.thread.frames EXCEPT ![Len(t.frames)].base = f.base,
                                                   ![Len(t.frames)].localBase = f.base + g.localBase - ra],
                regs |-> Lower(t, f.base) \o SubSeq(e.thread.regs, ra + 1, ra + n)]
  IN  /\ i.op = "TAILCALL"
      /\ Become(IF e.status = "running" /\ callable[1] # "gfunction" THEN [e EXCEPT !.thread = moved] ELSE e)

MutantOpReturn(t, i) ==
  LET ra == Frame(t).localBase + i.a
      n == IF i.b = 0 THEN Top1(t) - ra ELSE i.b - 1
  IN  /\ i.op = "RETURN"
      /\ Become(Deliver(Effect(t, heap), [j \in 1 .. n |-> GetAt(t, ra + j - 1)]))

OpReturn(t, i) ==
  LET ra == Frame(t).localBase + i.a
      n == IF i.b = 0 THEN Top1(t) - ra ELSE i.b - 1
      closed == closeUpvalues(t, heap, Frame(t).localBase)
  IN  /\ i.op = "RETURN"
      /\ Become(Deliver(Effect(t, closed), [j \in 1 .. n |-> GetAt(t, ra + j - 1)]))

Num(v) == v[1] = "number"

OpForPrep(t, i) ==
  LET init == Get(t, i.a)
      step == Get(t, i.a + 2)
  IN  /\ i.op = "FORPREP"
      /\ Become(IF Num(init) /\ Num(step)
                THEN Effect(Jump(Set(t, i.a, LNumber(init[2] - step[2])), i.b), heap) ELSE Error(t))

OpForLoop(t, i) ==
  LET limit == Get(t, i.a + 1)
      step == Get(t, i.a + 2)
      v == Get(t, i.a)[2] + step[2]
      next == Set(t, i.a, LNumber(v))
      again == IF step[2] > 0 THEN v <= limit[2] ELSE v >= limit[2]
  IN  /\ i.op = "FORLOOP"
      /\ Become(IF ~(Num(limit) /\ Num(step)) THEN Error(t)
                ELSE IF again THEN Effect(Jump(Set(next, i.a + 3, LNumber(v)), i.b), heap)
                ELSE Effect(SetTop(next, Frame(t).localBase + i.a + 1), heap))

OpTForLoop(t, i) ==
  LET ra == Frame(t).localBase + i.a
      call == [t EXCEPT !.regs = SetTop(t, ra + 3).regs \o [j \in 1 .. 3 |-> GetAt(t, ra + j - 1)]]
  IN  /\ i.op = "TFORLOOP"
      /\ Become(CallValue(Effect(call, heap), ra + 3, 2, i.c, ra + 3, After("tfor", i.a), t.frames))

RECURSIVE SetList(_, _, _, _, _)
SetList(t, h, i, j, n) ==
  IF j > n THEN h
  ELSE SetList(t, RawSet(h, Get(t, i.a), LNumber((i.c - 1) * FieldsPerFlush + j), Get(t, i.a + j)),
               i, j + 1, n)

OpSetList(t, i) ==
  LET n == IF i.b = 0 THEN Top1(t) - (Frame(t).localBase + i.a) - 1 ELSE i.b
  IN  i.op = "SETLIST" /\ Become(Effect(t, SetList(t, heap, i, 1, n)))

OpClose(t, i) == i.op = "CLOSE" /\ Become(Effect(t, closeUpvalues(t, heap, Frame(t).localBase + i.a)))

(* The upvalues of a closure, from the instructions that follow. *)
RECURSIVE Captured(_, _, _, _, _)
Captured(t, h, insts, ups, n) ==
  IF n = 0 THEN [heap |-> h, upvalues |-> ups]
  ELSE LET i == insts[Frame(t).pc + Len(ups) + 1]
           index == Frame(t).localBase + i.b
           g == findUpvalue(h, index)
       IN  IF i.op = "GETUPVAL"
           THEN Captured(t, h, insts, Append(ups, Closure(t, h).upvalues[i.b + 1]), n - 1)
           ELSE Captured(t, g, insts, Append(ups, CHOOSE u \in OpenAt(g, index) : TRUE), n - 1)

OpClosure(t, i) ==
  LET n == Len(Proto(t, heap).protos[i.b + 1].upvalues)
      set == Set(t, i.a, LFunction(Len(heap.closures) + 1))
      c == Captured(t, heap, Proto(t, heap).code, << >>, n)
      closure == [path |-> Append(Closure(t, heap).path, i.b), upvalues |-> c.upvalues]
  IN  /\ i.op = "CLOSURE"
      /\ Become(Effect(Jump(set, n), [c.heap EXCEPT !.closures = Append(@, closure)]))

OpVararg(t, i) ==
  LET f == Frame(t)
      np == Proto(t, heap).numParameters
      n == IF i.b = 0 THEN intMax(f.nargs - np, 0) ELSE i.b - 1
      value(j) == IF f.base + np + j < f.localBase THEN GetAt(t, f.base + np + j) ELSE LNil
      wide == IF f.localBase + i.a <= Top1(t) THEN t.regs
              ELSE t.regs \o [j \in 1 .. f.localBase + i.a - Top1(t) |-> Unset]
  IN  /\ i.op = "VARARG"
      /\ Become(Effect([t EXCEPT !.regs = SubSeq(wide, 1, f.localBase + i.a) \o [j \in 1 .. n |-> value(j)]],
                       heap))

(* __close is looked for as a field of the metatable, by its __index too. *)
OpCloseVar(t, i) ==
  LET v == Get(t, i.a)
      key == LString("__close")
      found == Lookup(heap, metatable(heap, v), key, "__index", MaxTableGetLoop)
  IN  /\ i.op = "CLOSEVAR"
      /\ Become(IF v = LNil \/ metatable(heap, v) = LNil THEN Effect(t, heap)
                ELSE CASE found.kind = "at" -> CloseWith(Effect(t, heap), RawGet(heap, found.obj, key), v)
                     []   found.kind = "call" ->
                            CallMeta(Effect(t, heap), found.fn, <<found.obj, key>>, 1, [After("close", 0) EXCEPT !.obj = v])
                     []   found.kind = "error" -> Error(t))

-----------------------------------------------------------------------------

Init ==
  /\ program \in Programs
  /\ code = CodeOf(program)
  /\ heap = [tables |-> <<[fields |-> [k \in {LString(g) : g \in GoFunctions} |-> LGFunction(k[2])],
                           mt |-> LNil]>>,
             closures |-> <<[path |-> << >>, upvalues |-> << >>]>>, upvalues |-> << >>]
  /\ out = << >>
  /\ status = IF code.error = "none" THEN "running" ELSE "rejected"
  /\ thread = [frames |-> <<[fn |-> 1, pc |-> 0, base |-> 0, localBase |-> 1, ret |-> 0, nargs |-> 0,
                             nret |-> MultRet, after |-> After("none", 0)]>>,
               regs |-> <<LFunction(1)>> \o Nils(code.numUsedRegisters)]

(* One round of the main loop: fetch and execute. *)
Next ==
  /\ status = "running"
  /\ \E i \in {Proto(thread, heap).code[Frame(thread).pc + 1]}, t \in {Jump(thread, 1)} :
       \/ OpMove(t, i) \/ OpMoveN(t, i) \/ OpLoadK(t, i) \/ OpLoadBool(t, i) \/ OpLoadNil(t, i)
       \/ OpGetUpval(t, i) \/ OpSetUpval(t, i) \/ OpGetGlobal(t, i) \/ OpSetGlobal(t, i)
       \/ OpGetTable(t, i) \/ OpSetTable(t, i) \/ OpNewTable(t, i) \/ OpSelf(t, i)
       \/ OpArith(t, i) \/ OpNegate(t, i) \/ OpNot(t, i) \/ OpLen(t, i) \/ OpConcat(t, i)
       \/ OpJmp(t, i) \/ OpNop(t, i) \/ OpEq(t, i) \/ OpLt(t, i) \/ OpLe(t, i)
       \/ OpTest(t, i) \/ OpTestSet(t, i)
       \/ OpCall(t, i) \/ OpTailCall(t, i) \/ OpReturn(t, i)
       \/ OpForPrep(t, i) \/ OpForLoop(t, i) \/ OpTForLoop(t, i)
       \/ OpSetList(t, i) \/ OpClose(t, i) \/ OpClosure(t, i) \/ OpVararg(t, i) \/ OpCloseVar(t, i)

Spec == Init /\ [][Next]_vars /\ WF_vars(Next)
=============================================================================
