----------------------------- MODULE LuaSemantics -----------------------------
(***************************************************************************)
(* What a program means, by the Lua reference manual, whatever code is     *)
(* generated for it: an evaluator over the syntax tree.  Every variable    *)
(* has a cell of its own; an environment maps the names in scope to cells. *)
(* Expressions are evaluated from left to right.                           *)
(*                                                                         *)
(* A memory is a record of cells, tables, closures and the output so far;  *)
(* status is "running" until an error ends the program, or until a rule    *)
(* is broken for which a compiler rejects it.                              *)
(***************************************************************************)
EXTENDS Syntax, SequencesExt, FiniteSetsExt

Give(m, vs) == [m |-> m, vs |-> vs]
Fail(m, how) == Give([m EXCEPT !.status = how], <<LNil>>)
First(vs) == IF vs = << >> THEN LNil ELSE vs[1]
Second(vs) == IF Len(vs) < 2 THEN LNil ELSE vs[2]
Nth(vs, i) == IF i <= Len(vs) THEN vs[i] ELSE LNil
Adjust(vs, n) == [i \in 1 .. n |-> Nth(vs, i)]

Globals == LTable(1)
Show(v) == IF v[1] \in {"table", "function", "gfunction"} THEN <<Type(v)>> ELSE v
ShowAll(vs) == [i \in DOMAIN vs |-> Show(vs[i])]

RawField(m, tb, key) ==
  LET fields == m.tables[tb[2]].fields IN IF key \in DOMAIN fields THEN fields[key] ELSE LNil

WithField(m, tb, key, v) ==
  LET fields == m.tables[tb[2]].fields
      keys == IF v = LNil THEN DOMAIN fields \ {key} ELSE DOMAIN fields \cup {key}
  IN  [m EXCEPT !.tables[tb[2]].fields = [k \in keys |-> IF k = key THEN v ELSE fields[k]]]

FreshTable(m) == [m EXCEPT !.tables = Append(@, [fields |-> << >>, mt |-> LNil])]
Newest(m) == LTable(Len(m.tables))

RECURSIVE Length(_, _, _)
Length(m, tb, n) == IF RawField(m, tb, LNumber(n + 1)) = LNil THEN n ELSE Length(m, tb, n + 1)

Meta(m, v, event) ==
  IF v[1] # "table" \/ m.tables[v[2]].mt = LNil THEN LNil
  ELSE RawField(m, m.tables[v[2]].mt, LString(event))
Meta2(m, v, w, event) == IF Meta(m, v, event) # LNil THEN Meta(m, v, event) ELSE Meta(m, w, event)

(* A new variable shadows those of its name. *)
Bind(m, env, name, v, isconst) ==
  [m |-> [m EXCEPT !.cells = Append(@, v)],
   env |-> [env EXCEPT !.cell = (name :> Len(m.cells) + 1) @@ @,
                       !.consts = IF isconst THEN @ \cup {name} ELSE @ \ {name}]]

RECURSIVE BindAll(_, _, _, _, _)
BindAll(m, env, names, vs, isconst) ==
  IF names = << >> THEN [m |-> m, env |-> env]
  ELSE LET b == Bind(m, env, names[1], First(vs), isconst)
       IN  BindAll(b.m, b.env, Tail(names), IF vs = << >> THEN vs ELSE Tail(vs), isconst)

(* The integers whose binary digits, of infinitely many, are 1 in both. *)
RECURSIVE And(_, _)
And(a, b) ==
  IF a = -1 THEN b ELSE IF b = -1 THEN a ELSE IF 0 \in {a, b} THEN 0
  ELSE 2 * And(a \div 2, b \div 2) + (a % 2) * (b % 2)

(* Quotients and powers are whole in the programs, and what is shifted to
   the right is not negative. *)
Arith(op, a, b) ==
  CASE op = "+" -> a + b
  []   op = "-" -> a - b
  []   op = "*" -> a * b
  []   op \in {"//", "/"} -> IF b > 0 THEN a \div b ELSE (-a) \div (-b)
  []   op = "%" -> IF b > 0 THEN a % b ELSE -((-a) % (-b))
  []   op = "^" -> a ^ b
  []   op = "<<" -> IF b >= 0 THEN a * 2 ^ b ELSE a \div 2 ^ (-b)
  []   op = ">>" -> IF b <= 0 THEN a * 2 ^ (-b) ELSE a \div 2 ^ b
  []   op = "&" -> And(a, b)
  []   op = "|" -> -1 - And(-1 - a, -1 - b)
  []   op = "~" -> a + b - 2 * And(a, b)

ArithEvent(op) ==
  CASE op = "+" -> "__add" [] op = "-" -> "__sub" [] op = "*" -> "__mul"
  []   op = "/" -> "__div" [] op = "//" -> "__idiv" [] op = "%" -> "__mod" [] op = "^" -> "__pow"
  []   op = "<<" -> "__shl" [] op = ">>" -> "__shr" [] op = "&" -> "__band" [] op = "|" -> "__bor"
  []   op = "~" -> "__bxor" [] op = ".." -> "__concat"

Text(v) == IF v[1] = "number" THEN ToString(v[2]) ELSE v[2]

RECURSIVE Eval(_, _, _), Apply(_, _, _), Exec(_, _, _), Block(_, _, _)

-----------------------------------------------------------------------------
(* Expressions: the memory after it and the values. *)

(* The first value, as an operand. *)
Eval1(m, env, e) == LET r == Eval(m, env, e) IN Give(r.m, <<First(r.vs)>>)

RECURSIVE EvalList(_, _, _)
EvalList(m, env, exprs) ==
  IF exprs = << >> THEN Give(m, << >>)
  ELSE LET r == IF Len(exprs) = 1 THEN Eval(m, env, exprs[1]) ELSE Eval1(m, env, exprs[1])
           rest == EvalList(r.m, env, Tail(exprs))
       IN  Give(rest.m, r.vs \o rest.vs)

RECURSIVE Index(_, _, _)
Index(m, obj, key) ==
  LET h == Meta(m, obj, "__index")
  IN  IF obj[1] = "table" /\ (RawField(m, obj, key) # LNil \/ h = LNil)
      THEN Give(m, <<RawField(m, obj, key)>>)
      ELSE IF h = LNil THEN Fail(m, "error")
      ELSE IF Type(h) = "function" THEN LET r == Apply(m, h, <<obj, key>>) IN Give(r.m, <<First(r.vs)>>)
      ELSE Index(m, h, key)

RECURSIVE Store(_, _, _, _)
Store(m, obj, key, v) ==
  LET h == Meta(m, obj, "__newindex")
  IN  IF m.status # "running" THEN m
      ELSE IF obj[1] = "table" /\ (RawField(m, obj, key) # LNil \/ h = LNil)
      THEN WithField(m, obj, key, v)
      ELSE IF h = LNil THEN [m EXCEPT !.status = "error"]
      ELSE IF Type(h) = "function" THEN Apply(m, h, <<obj, key, v>>).m
      ELSE Store(m, h, key, v)

(* The first result of a metamethod. *)
ByMeta(m, h, args) ==
  IF Type(h) # "function" THEN Fail(m, "error")
  ELSE LET r == Apply(m, h, args) IN Give(r.m, <<First(r.vs)>>)

Truth(r, negated) == Give(r.m, <<LBool(LVAsBool(First(r.vs)) # negated)>>)

Equal(m, v, w) ==
  LET h == Meta(m, v, "__eq")
  IN  IF v # w /\ v[1] = "table" /\ w[1] = "table" /\ Type(h) = "function" /\ h = Meta(m, w, "__eq")
      THEN Truth(ByMeta(m, h, <<v, w>>), FALSE) ELSE Give(m, <<LBool(v = w)>>)

Less(m, v, w) ==
  LET h == Meta(m, v, "__lt")
  IN  IF v[1] = "number" /\ w[1] = "number" THEN Give(m, <<LBool(v[2] < w[2])>>)
      ELSE IF h = Meta(m, w, "__lt") THEN Truth(ByMeta(m, h, <<v, w>>), FALSE) ELSE Fail(m, "error")

LessEqual(m, v, w) ==
  LET h == Meta(m, v, "__le")
      l == Meta(m, w, "__lt")
  IN  IF v[1] = "number" /\ w[1] = "number" THEN Give(m, <<LBool(v[2] <= w[2])>>)
      ELSE IF Type(h) = "function" /\ h = Meta(m, w, "__le") THEN Truth(ByMeta(m, h, <<v, w>>), FALSE)
      ELSE IF l = Meta(m, v, "__lt") THEN Truth(ByMeta(m, l, <<w, v>>), TRUE) ELSE Fail(m, "error")

Compare(m, op, v, w) ==
  CASE op = "==" -> Equal(m, v, w)
  []   op = "~=" -> Truth(Equal(m, v, w), TRUE)
  []   op = "<" -> Less(m, v, w)
  []   op = ">" -> Less(m, w, v)
  []   op = "<=" -> LessEqual(m, v, w)
  []   op = ">=" -> LessEqual(m, w, v)

Binary(m, op, v, w) ==
  IF op = ".." /\ {v[1], w[1]} \subseteq {"number", "string"}
  THEN Give(m, <<LString(Text(v) \o Text(w))>>)
  ELSE IF op # ".." /\ v[1] = "number" /\ w[1] = "number" THEN Give(m, <<LNumber(Arith(op, v[2], w[2]))>>)
  ELSE ByMeta(m, Meta2(m, v, w, ArithEvent(op)), <<v, w>>)

Unary(m, op, v) ==
  CASE op = "not" -> Give(m, <<LBool(~LVAsBool(v))>>)
  []   op = "-" -> IF v[1] = "number" THEN Give(m, <<LNumber(-v[2])>>) ELSE ByMeta(m, Meta(m, v, "__unm"), <<v>>)
  []   op = "~" -> IF v[1] = "number" THEN Give(m, <<LNumber(-v[2] - 1)>>) ELSE ByMeta(m, Meta(m, v, "__bnot"), <<v>>)
  []   op = "#" -> IF v[1] = "string" THEN Give(m, <<LNumber(Len(v[2]))>>)
                   ELSE IF v[1] = "table" /\ Meta(m, v, "__len") = LNil
                   THEN Give(m, <<LNumber(Length(m, v, 0))>>)
                   ELSE ByMeta(m, Meta(m, v, "__len"), <<v>>)

(* The fields of a constructor; n of them have had no key. *)
RECURSIVE Fill(_, _, _, _, _)
Fill(m, env, tb, fields, n) ==
  IF fields = << >> THEN Give(m, <<tb>>)
  ELSE LET f == fields[1]
           k == IF f.key = NoKey THEN Give(m, <<LNumber(n + 1)>>) ELSE Eval1(m, env, f.key)
           open == f.key = NoKey /\ Len(fields) = 1
           v == IF open THEN Eval(k.m, env, f.value) ELSE Eval1(k.m, env, f.value)
           put(mem, i) == WithField(mem, tb, IF f.key = NoKey THEN LNumber(n + i) ELSE k.vs[1], v.vs[i])
       IN  Fill(FoldLeft(put, v.m, [i \in DOMAIN v.vs |-> i]), env, tb, Tail(fields),
                IF f.key = NoKey THEN n + 1 ELSE n)

Lambda(m, env, names, hasVargs, stmts) ==
  Give([m EXCEPT !.closures = Append(@, [names |-> names, hasVargs |-> hasVargs, stmts |-> stmts, env |-> env])],
       <<LFunction(Len(m.closures) + 1)>>)

Eval(m, env, e) ==
  LET l == Eval1(m, env, e.lhs)
      r == Eval1(l.m, env, e.rhs)
      x == Eval1(m, env, e.expr)
      object == Eval1(m, env, e.object)
      key == Eval1(object.m, env, e.key)
      func == Eval1(m, env, e.func)
      receiver == Eval1(m, env, e.receiver)
      method == Index(receiver.m, receiver.vs[1], LString(e.method))
      args(mem) == EvalList(mem, env, e.args)
      called == LET a == args(func.m) IN Apply(a.m, func.vs[1], a.vs)
      sent == LET a == args(method.m) IN Apply(a.m, method.vs[1], receiver.vs \o a.vs)
      one(res) == IF e.adjust THEN Give(res.m, <<First(res.vs)>>) ELSE res
  IN
  CASE m.status # "running" -> Give(m, <<LNil>>)
  []   e.k = "Nil" -> Give(m, <<LNil>>)
  []   e.k = "True" -> Give(m, <<LBool(TRUE)>>)
  []   e.k = "False" -> Give(m, <<LBool(FALSE)>>)
  []   e.k = "Number" -> Give(m, <<LNumber(e.num)>>)
  []   e.k = "String" -> Give(m, <<LString(e.str)>>)
  []   e.k = "Comma3" -> one(Give(m, env.dots))
  []   e.k = "Ident" ->
         Give(m, <<IF e.name \in DOMAIN env.cell THEN m.cells[env.cell[e.name]]
                   ELSE RawField(m, Globals, LString(e.name))>>)
  []   e.k = "AttrGet" -> IF key.m.status # "running" THEN key ELSE Index(key.m, object.vs[1], key.vs[1])
  []   e.k = "Logical" -> IF LVAsBool(l.vs[1]) = (e.op = "or") THEN l ELSE r
  []   e.k = "Relational" -> IF r.m.status # "running" THEN r ELSE Compare(r.m, e.op, l.vs[1], r.vs[1])
  []   e.k = "Arithmetic" -> IF r.m.status # "running" THEN r ELSE Binary(r.m, e.op, l.vs[1], r.vs[1])
  []   e.k = "Concat" -> IF r.m.status # "running" THEN r ELSE Binary(r.m, "..", l.vs[1], r.vs[1])
  []   e.k = "Unary" -> IF x.m.status # "running" THEN x ELSE Unary(x.m, e.op, x.vs[1])
  []   e.k = "Function" -> Lambda(m, env, e.names, e.hasVargs, e.stmts)
  []   e.k = "Table" -> Fill(FreshTable(m), env, Newest(FreshTable(m)), e.fields, 0)
  []   e.k = "Call" -> one(called)
  []   e.k = "MethodCall" -> one(sent)

(* The value f called with args.  A vararg function other than the main one
   has its extra arguments in the table arg too. *)
Apply(m, f, args) ==
  LET c == m.closures[f[2]]
      extra == SubSeq(args, Len(c.names) + 1, Len(args))
      list == FoldLeft(LAMBDA mem, i : WithField(mem, Newest(mem), LNumber(i), extra[i]), FreshTable(m),
                       [i \in DOMAIN extra |-> i])
      tabled == WithField(list, Newest(list), LString("n"), LNumber(Len(extra)))
      params == BindAll(m, c.env, c.names, args, FALSE)
      vparams == BindAll(tabled, c.env, c.names \o <<"arg">>,
                         Adjust(args, Len(c.names)) \o <<Newest(tabled)>>, FALSE)
      entered == IF c.hasVargs THEN vparams ELSE params
      r == Block(entered.m, [entered.env EXCEPT !.dots = IF c.hasVargs THEN extra ELSE << >>], c.stmts)
      failed == r.m.status # "running"
  IN
  CASE m.status # "running" -> Give(m, <<LNil>>)
  []   f = LGFunction("emit") -> Give([m EXCEPT !.out = Append(@, ShowAll(args))], << >>)
  []   f = LGFunction("error") -> Fail(m, "error")
  []   f = LGFunction("setmetatable") ->
         Give([m EXCEPT !.tables[args[1][2]].mt = args[2]], <<args[1]>>)
  []   f[1] = "function" ->
         IF failed THEN Give(r.m, <<LNil>>)
         ELSE IF r.signal.kind \in {"break", "goto"} THEN Fail(r.m, "rejected")
         ELSE Give(r.m, r.signal.values)
  []   OTHER ->
         IF Type(Meta(m, f, "__call")) # "function" THEN Fail(m, "error")
         ELSE Apply(m, Meta(m, f, "__call"), <<f>> \o args)

-----------------------------------------------------------------------------
(* Statements: the memory and environment after it, and how it ended. *)

Signal(kind, label, values) == [kind |-> kind, label |-> label, values |-> values]
Normal == Signal("normal", "", << >>)
Done(m, env) == [m |-> m, env |-> env, signal |-> Normal]
Ends(m, env, signal) == [m |-> m, env |-> env, signal |-> signal]

(* The variables of a block that are to be closed, last one first. *)
RECURSIVE CloseAll(_, _)
CloseAll(m, closing) ==
  IF closing = << >> \/ m.status # "running" THEN m
  ELSE LET v == m.cells[closing[Len(closing)]]
           mt == IF v[1] = "table" THEN m.tables[v[2]].mt ELSE LNil
           h == Index(m, mt, LString("__close"))
           closed == IF h.m.status # "running" THEN h.m ELSE ByMeta(h.m, First(h.vs), <<v>>).m
       IN  CloseAll(IF mt = LNil THEN m ELSE closed, SubSeq(closing, 1, Len(closing) - 1))

(* The statements from i on; passed maps the labels before i to their
   environments.  A goto continues at a label of the block, with the
   variables in scope there; it may not enter a variable's scope. *)
RECURSIVE Run(_, _, _, _, _)
Run(m, env, stmts, i, passed) ==
  LET r == Exec(m, env, stmts[i])
      labels == {j \in DOMAIN stmts : stmts[j].k = "Label" /\ stmts[j].label = r.signal.label}
      at == CHOOSE j \in labels : TRUE
      enters == /\ \E j \in i .. at : stmts[j].k = "Local"
                /\ \E j \in at .. Len(stmts) : stmts[j].k # "Label"
  IN  IF i > Len(stmts) THEN Done(m, env)
      ELSE IF m.status # "running" THEN Done(m, env)
      ELSE IF stmts[i].k = "Label"
      THEN Run(m, env, stmts, i + 1, (stmts[i].label :> env) @@ passed)
      ELSE IF r.signal.kind = "normal" THEN Run(r.m, r.env, stmts, i + 1, passed)
      ELSE IF r.signal.kind # "goto" \/ labels = {} THEN r
      ELSE IF at < i THEN Run(r.m, [passed[stmts[at].label] EXCEPT !.closing = r.env.closing], stmts, at + 1, passed)
      ELSE IF enters THEN Done([r.m EXCEPT !.status = "rejected"], env)
      ELSE Run(r.m, r.env, stmts, at, passed)

Scoped(m, env, stmts) == Run(m, [env EXCEPT !.closing = << >>], stmts, 1, << >>)
Leave(r) == IF r.m.status # "running" THEN r ELSE [r EXCEPT !.m = CloseAll(@, r.env.closing)]

Block(m, env, stmts) == Leave(Scoped(m, env, stmts))

RECURSIVE While(_, _, _, _)
While(m, env, cond, stmts) ==
  LET c == Eval1(m, env, cond)
      r == Block(c.m, env, stmts)
  IN  IF c.m.status # "running" \/ ~LVAsBool(c.vs[1]) THEN Done(c.m, env)
      ELSE IF r.m.status # "running" \/ r.signal.kind = "break" THEN Done(r.m, env)
      ELSE IF r.signal.kind # "normal" THEN Ends(r.m, env, r.signal)
      ELSE While(r.m, env, cond, stmts)

(* The condition is in the scope of the body's variables. *)
RECURSIVE Repeat(_, _, _, _)
Repeat(m, env, cond, stmts) ==
  LET r == Scoped(m, env, stmts)
      c == Eval1(r.m, r.env, cond)
      left == Leave([r EXCEPT !.m = IF r.signal.kind = "normal" THEN c.m ELSE @])
  IN  IF left.m.status # "running" \/ r.signal.kind = "break" THEN Done(left.m, env)
      ELSE IF r.signal.kind # "normal" THEN Ends(left.m, env, r.signal)
      ELSE IF LVAsBool(c.vs[1]) THEN Done(left.m, env) ELSE Repeat(left.m, env, cond, stmts)

RECURSIVE NumericFor(_, _, _, _, _, _, _)
NumericFor(m, env, name, v, limit, step, stmts) ==
  LET b == Bind(m, env, name, LNumber(v), FALSE)
      r == Block(b.m, b.env, stmts)
  IN  IF (step > 0 /\ v > limit) \/ (step <= 0 /\ v < limit) THEN Done(m, env)
      ELSE IF r.m.status # "running" \/ r.signal.kind = "break" THEN Done(r.m, env)
      ELSE IF r.signal.kind # "normal" THEN Ends(r.m, env, r.signal)
      ELSE NumericFor(r.m, env, name, v + step, limit, step, stmts)

RECURSIVE GenericFor(_, _, _, _, _, _, _)
GenericFor(m, env, names, f, s, control, stmts) ==
  LET call == Apply(m, f, <<s, control>>)
      b == BindAll(call.m, env, names, call.vs, FALSE)
      r == Block(b.m, b.env, stmts)
  IN  IF call.m.status # "running" \/ First(call.vs) = LNil THEN Done(call.m, env)
      ELSE IF r.m.status # "running" \/ r.signal.kind = "break" THEN Done(r.m, env)
      ELSE IF r.signal.kind # "normal" THEN Ends(r.m, env, r.signal)
      ELSE GenericFor(r.m, env, names, f, s, First(call.vs), stmts)

(* The objects and keys of the targets are evaluated before the values. *)
RECURSIVE Targets(_, _, _)
Targets(m, env, lhs) ==
  IF lhs = << >> THEN Give(m, << >>)
  ELSE LET e == lhs[1]
           object == Eval1(m, env, e.object)
           key == Eval1(object.m, env, e.key)
           rest == Targets(IF e.k = "Ident" THEN m ELSE key.m, env, Tail(lhs))
       IN  Give(rest.m, <<IF e.k = "Ident" THEN << >> ELSE object.vs \o key.vs>> \o rest.vs)

AssignTo(m, env, e, target, v) ==
  IF m.status # "running" THEN m
  ELSE IF e.k # "Ident" THEN Store(m, target[1], target[2], v)
  ELSE IF e.name \in env.consts THEN [m EXCEPT !.status = "rejected"]
  ELSE IF e.name \in DOMAIN env.cell THEN [m EXCEPT !.cells[env.cell[e.name]] = v]
  ELSE IF m.strict /\ e.name \notin m.declared THEN [m EXCEPT !.status = "rejected"]
  ELSE WithField(m, Globals, LString(e.name), v)

RECURSIVE AssignAll(_, _, _, _, _)
AssignAll(m, env, lhs, targets, vs) ==
  IF lhs = << >> THEN m
  ELSE LET n == Len(lhs)
       IN  AssignAll(AssignTo(m, env, lhs[n], targets[n], Nth(vs, n)), env,
                     SubSeq(lhs, 1, n - 1), targets, vs)

AssignStmtOf(m, env, lhs, rhs) ==
  LET t == Targets(m, env, lhs)
      v == EvalList(t.m, env, rhs)
  IN  Done(AssignAll(v.m, env, lhs, t.vs, v.vs), env)

Exec(m, env, st) ==
  LET vs == EvalList(m, env, st.exprs)
      cond == Eval1(m, env, st.cond)
      isfunction == Len(st.names) = 1 /\ Len(st.exprs) = 1 /\ st.exprs[1].k = "Function"
      fwd == Bind(m, env, st.names[1], LNil, st.attrib = "const")
      lambda == Eval1(fwd.m, fwd.env, st.exprs[1])
      bound == BindAll(vs.m, env, st.names, vs.vs, st.attrib = "const")
      declared == [m EXCEPT !.declared = @ \cup {st.names[i] : i \in DOMAIN st.names}]
      values == EvalList(declared, env, st.exprs)
      setglobal(mem, i) == WithField(mem, Globals, LString(st.names[i]), Nth(values.vs, i))
      leave(r) == Ends(r.m, env, r.signal)
      control == EvalList(m, env, <<st.init, st.limit, IF st.step = NilExpr THEN NumberExpr(1) ELSE st.step>>)
      methods == Eval1(m, env, st.receiver)
      method == Lambda(methods.m, env, <<"self">> \o st.func.names, st.func.hasVargs, st.func.stmts)
  IN
  CASE m.status # "running" -> Done(m, env)
  []   st.k = "Assign" -> AssignStmtOf(m, env, st.lhs, st.rhs)
  []   st.k = "Local" ->
         IF isfunction THEN Done([lambda.m EXCEPT !.cells[Len(fwd.m.cells)] = lambda.vs[1]], fwd.env)
         ELSE Done(bound.m, IF st.attrib = "close"
                            THEN [bound.env EXCEPT !.closing = Append(@, Len(bound.m.cells))] ELSE bound.env)
  []   st.k = "CallStmt" -> Done(Eval(m, env, st.call).m, env)
  []   st.k = "Do" -> leave(Block(m, env, st.stmts))
  []   st.k = "While" -> While(m, env, st.cond, st.stmts)
  []   st.k = "Repeat" -> Repeat(m, env, st.cond, st.stmts)
  []   st.k = "If" -> leave(Block(cond.m, env, IF LVAsBool(cond.vs[1]) THEN st.then ELSE st.else))
  []   st.k = "NumberFor" ->
         IF control.m.status # "running" THEN Done(control.m, env)
         ELSE IF \E i \in 1 .. 3 : control.vs[i][1] # "number"
         THEN Done([control.m EXCEPT !.status = "error"], env)
         ELSE NumericFor(control.m, env, st.name, control.vs[1][2], control.vs[2][2], control.vs[3][2], st.stmts)
  []   st.k = "GenericFor" ->
         GenericFor(vs.m, env, st.names, First(vs.vs), Second(vs.vs), Nth(vs.vs, 3), st.stmts)
  []   st.k = "MethodDef" ->
         Done(Store(method.m, methods.vs[1], LString(st.method), method.vs[1]), env)
  []   st.k = "FuncDef" -> AssignStmtOf(m, env, <<st.target>>, <<st.func>>)
  []   st.k = "Return" -> Ends(vs.m, env, Signal("return", "", vs.vs))
  []   st.k = "Break" -> Ends(m, env, Signal("break", "", << >>))
  []   st.k = "Goto" -> Ends(m, env, Signal("goto", st.label, << >>))
  []   st.k = "Global" ->
         IF st.isConst THEN Done([m EXCEPT !.strict = TRUE], env)
         ELSE Done(FoldLeft(setglobal, values.m, [i \in DOMAIN st.names |-> i]), env)

(* What the program shows, and how it ends. *)
Meaning(stmts) ==
  LET fields == [k \in {LString(g) : g \in {"emit", "setmetatable", "error"}} |-> LGFunction(k[2])]
      start == [cells |-> << >>, tables |-> <<[fields |-> fields, mt |-> LNil]>>, closures |-> << >>,
                out |-> << >>, status |-> "running", strict |-> FALSE, declared |-> {}]
      r == Block(start, [cell |-> << >>, consts |-> {}, dots |-> << >>, closing |-> << >>], stmts)
  IN  CASE r.m.status = "rejected" \/ r.signal.kind \in {"break", "goto"} -> [out |-> << >>, status |-> "rejected"]
      []   r.m.status = "error" -> [out |-> r.m.out, status |-> "error"]
      []   OTHER -> [out |-> Append(r.m.out, ShowAll(r.signal.values)), status |-> "done"]
=============================================================================
