------------------------------- MODULE Compiler -------------------------------
(***************************************************************************)
(* The compiler (compile.go): from syntax trees to the code of the virtual *)
(* machine.  Each operator is the function of the same name; it takes the  *)
(* context of the function that is being compiled and yields the context   *)
(* after it, with the number of registers used if it compiles expressions. *)
(***************************************************************************)
EXTENDS FuncContext

(* Where the value of an expression is wanted: in the register of a local
   variable, or in the next register; varargopt + 1 results, all of them for
   -2, and none for -1. *)
Ec(ctype, reg, varargopt) == [ctype |-> ctype, reg |-> reg, varargopt |-> varargopt]
ecnone(varargopt) == Ec("none", regNotDefined, varargopt)
ecfuncdef == Ec("method", regNotDefined, 0)

savereg(ec, reg) == IF ec.ctype # "local" \/ ec.reg = regNotDefined THEN reg ELSE ec.reg
shouldmove(ec, reg) == ec.ctype = "local" /\ ec.reg # regNotDefined /\ ec.reg # reg

(* A call or ... whose results are not adjusted to one. *)
isVarArgReturnExpr(e) == e.k \in {"Call", "MethodCall", "Comma3"} /\ ~e.adjust

Used(fc, n) == [fc |-> fc, used |-> n]

RECURSIVE compileExpr(_, _, _, _), compileStmt(_, _, _), compileFunctionExpr(_, _, _),
          compileBranchCondition(_, _, _, _, _, _),
          compileLogicalOpExprAux(_, _, _, _, _, _, _, _)

-----------------------------------------------------------------------------
(* Operands. *)

compileExprWithPropagation(e, reg, r, propagated) ==
  IF e.k = "Logical" THEN Operand(r.fc, reg, reg + r.used) ELSE propagated

compileExprWithKMVPropagation(fc, e, reg) ==
  LET r == compileExpr(fc, reg, e, ecnone(0))
  IN  compileExprWithPropagation(e, reg, r, PropagateKMV(r.fc, r.fc.regTop, reg, r.used))
compileExprWithMVPropagation(fc, e, reg) ==
  LET r == compileExpr(fc, reg, e, ecnone(0))
  IN  compileExprWithPropagation(e, reg, r, PropagateMV(r.fc, r.fc.regTop, reg, r.used))

(* A list of expressions in registers from reg on; the last may have as many
   values as it likes, open tells whether it does. *)
RECURSIVE compileExprList(_, _, _)
compileExprList(fc, exprs, reg) ==
  IF exprs = << >> THEN [fc |-> fc, reg |-> reg, open |-> FALSE]
  ELSE IF Len(exprs) = 1 /\ isVarArgReturnExpr(exprs[1])
       THEN [fc |-> compileExpr(fc, reg, exprs[1], ecnone(-2)).fc, reg |-> reg, open |-> TRUE]
       ELSE LET r == compileExpr(fc, reg, exprs[1], ecnone(0))
            IN  compileExprList(r.fc, Tail(exprs), reg + r.used)

(* Expressions beyond the names they are assigned to: the last one's results
   are ignored. *)
RECURSIVE compileExtra(_, _, _)
compileExtra(fc, exprs, reg) ==
  IF exprs = << >> THEN fc
  ELSE LET r == compileExpr(fc, reg, exprs[1], ecnone(IF Len(exprs) = 1 THEN -1 ELSE 0))
       IN  compileExtra(r.fc, Tail(exprs), reg + r.used)

loadRk(fc, reg, v) ==
  LET f == WithConst(fc, v)
      i == ConstIndex(f, v)
  IN  IF i < opBitRk THEN Operand(f, opRkAsk(i), reg)
      ELSE Operand(Add(f, "LOADK", reg, i, 0), reg, reg + 1)

-----------------------------------------------------------------------------
(* Constant folding. *)

(* Go's integer division and remainder round towards zero. *)
GoDiv(a, b) ==
  LET q == (IF a < 0 THEN -a ELSE a) \div (IF b < 0 THEN -b ELSE b)
  IN  IF (a < 0) = (b < 0) THEN q ELSE -q
GoRem(a, b) == a - b * GoDiv(a, b)

floorDiv(a, b) ==
  IF GoRem(a, b) # 0 /\ (a < 0) # (b < 0) THEN GoDiv(a, b) - 1 ELSE GoDiv(a, b)
luaModulo(a, b) ==
  IF (b > 0 /\ GoRem(a, b) < 0) \/ (b < 0 /\ GoRem(a, b) > 0) THEN GoRem(a, b) + b ELSE GoRem(a, b)

(* Go's shifts of an int64: to the right the sign is shifted in. *)
shift(a, n) == IF n >= 0 THEN a * 2 ^ n ELSE a \div 2 ^ (-n)

(* The bits of an int64 that numbers of programs differ in. *)
IntBits == 16
bitwise(op, a, b) ==
  LET x(i) == (a \div 2 ^ i) % 2
      y(i) == (b \div 2 ^ i) % 2
      bit(i) == CASE op = "&" -> x(i) * y(i) [] op = "|" -> intMax(x(i), y(i)) [] op = "~" -> (x(i) + y(i)) % 2
  IN  MapThenSumSet(LAMBDA i : bit(i) * 2 ^ i, 0 .. IntBits - 2) - bit(IntBits - 1) * 2 ^ (IntBits - 1)

(* Numbers are integers here: of quotients and powers programs take only
   those that are. *)
numberArith(op, a, b) ==
  CASE op = "+" -> a + b
  []   op = "-" -> a - b
  []   op = "*" -> a * b
  []   op = "/" -> GoDiv(a, b)
  []   op = "//" -> floorDiv(a, b)
  []   op = "%" -> luaModulo(a, b)
  []   op = "^" -> a ^ b
  []   op = "<<" -> shift(a, b)
  []   op = ">>" -> shift(a, -b)
  []   op \in {"&", "|", "~"} -> bitwise(op, a, b)

RECURSIVE constFold(_)
constFold(e) ==
  CASE e.k = "Arithmetic" ->
         LET l == constFold(e.lhs)
             r == constFold(e.rhs)
         IN  IF l.k = "Number" /\ r.k = "Number"
             THEN NumberExpr(numberArith(e.op, l.num, r.num)) ELSE e
  []   e.k = "Unary" /\ e.op \in {"-", "~"} ->
         LET x == constFold(e.expr)
         IN  IF x.k # "Number" THEN [e EXCEPT !.expr = x]
             ELSE NumberExpr(IF e.op = "-" THEN -x.num ELSE -x.num - 1)
  []   OTHER -> e

-----------------------------------------------------------------------------
(* Operators. *)

ArithmeticOp ==
  ("+" :> "ADD") @@ ("-" :> "SUB") @@ ("*" :> "MUL") @@ ("/" :> "DIV") @@ ("//" :> "IDIV") @@ ("%" :> "MOD")
  @@ ("^" :> "POW") @@ ("<<" :> "SHL") @@ (">>" :> "SHR") @@ ("&" :> "BAND") @@ ("|" :> "BOR") @@ ("~" :> "BXOR")

compileArithmeticOpExpr(fc, reg, expr, ec) ==
  LET e == constFold(expr)
      b == compileExprWithKMVPropagation(fc, e.lhs, reg)
      c == compileExprWithKMVPropagation(b.fc, e.rhs, b.reg)
  IN  IF e.k = "Number" THEN compileExpr(fc, reg, e, ec).fc
      ELSE Add(c.fc, ArithmeticOp[e.op], savereg(ec, reg), b.rk, c.rk)

RECURSIVE ConcatCount(_)
ConcatCount(e) == IF e.k = "Concat" THEN 1 + ConcatCount(e.rhs) ELSE 0

(* The concatenations of the right operand become part of this one. *)
RECURSIVE DropConcats(_)
DropConcats(fc) ==
  IF LastPC(fc) > 0 /\ LastInst(fc).op = "CONCAT" THEN DropConcats(PopInst(fc)) ELSE fc

compileStringConcatOpExpr(fc, reg, e, ec) ==
  LET l == compileExpr(fc, reg, e.lhs, ecnone(0))
      r == compileExpr(l.fc, reg + l.used, e.rhs, ecnone(0))
  IN  Add(DropConcats(r.fc), "CONCAT", savereg(ec, reg), reg, reg + ConcatCount(e))

compileUnaryOpExpr(fc, reg, expr, ec) ==
  LET e == constFold(expr)
      a == savereg(ec, reg)
      b == compileExprWithMVPropagation(fc, e.expr, reg)
      op == CASE e.op = "-" -> "UNM" [] e.op = "not" -> "NOT" [] e.op = "#" -> "LEN" [] e.op = "~" -> "BNOT"
  IN  CASE e.k = "Number" -> compileExpr(fc, reg, e, ec).fc
      []   e.k = "Unary" /\ e.op = "not" /\ e.expr.k = "True" -> Add(fc, "LOADBOOL", a, 0, 0)
      []   e.k = "Unary" /\ e.op = "not" /\ e.expr.k \in {"False", "Nil"} -> Add(fc, "LOADBOOL", a, 1, 0)
      []   OTHER -> Add(b.fc, op, a, b.rk, 0)

(* A comparison, and the jump to label that the machine skips. *)
compileRelationalOpExprAux(fc, reg, e, flip, label) ==
  LET b == compileExprWithKMVPropagation(fc, e.lhs, reg)
      c == compileExprWithKMVPropagation(b.fc, e.rhs, b.reg)
      f == CASE e.op = "<" -> Add(c.fc, "LT", flip, b.rk, c.rk)
           []   e.op = ">" -> Add(c.fc, "LT", flip, c.rk, b.rk)
           []   e.op = "<=" -> Add(c.fc, "LE", flip, b.rk, c.rk)
           []   e.op = ">=" -> Add(c.fc, "LE", flip, c.rk, b.rk)
           []   e.op = "==" -> Add(c.fc, "EQ", flip, b.rk, c.rk)
           []   e.op = "~=" -> Add(c.fc, "EQ", 1 - flip, b.rk, c.rk)
  IN  Add(f, "JMP", 0, label, 0)

compileRelationalOpExpr(fc, reg, e, ec) ==
  LET a == savereg(ec, reg)
      f == NewLabel(fc)
      jump == LastLabel(f)
      g == Add(compileRelationalOpExprAux(f, reg, e, 1, jump), "LOADBOOL", a, 0, 1)
  IN  Add(SetLabelHere(g, jump), "LOADBOOL", a, 1, 0)

(* The labels of a chain of "and" and "or": where it loads true, where it
   loads false, and its end.  Whether the loads are needed goes with the
   context from operand to operand. *)
compileLogicalOpExpr(fc, reg, e, ec) ==
  LET a == savereg(ec, reg)
      f == NewLabel(NewLabel(NewLabel(NewLabel(fc))))
      end == LastLabel(f) - 3
      next == LastLabel(f)
      lb == [t |-> end + 1, f |-> end + 2, e |-> end]
      l == compileLogicalOpExprAux([fc |-> f, b |-> FALSE], reg, e.lhs, ec,
                                   IF e.op = "and" THEN next ELSE end,
                                   IF e.op = "and" THEN end ELSE next, e.op = "or", lb)
      r == compileLogicalOpExprAux([l EXCEPT !.fc = SetLabelHere(@, next)], reg, e.rhs, ec,
                                   end, end, FALSE, lb)
      loadFalse == Add(SetLabelHere(r.fc, lb.f), "LOADBOOL", a, 0, 1)
      loads == IF r.b THEN Add(SetLabelHere(loadFalse, lb.t), "LOADBOOL", a, 1, 0) ELSE r.fc
      last == LastInst(loads)
  IN  SetLabelHere(IF last.op = "JMP" /\ last.b = end THEN PopInst(loads) ELSE loads, end)

(* An operand of the chain, in the state s of context and need for loads. *)
compileLogicalOpExprAux(s, reg, e, ec, thenlabel, elselabel, hasnextcond, lb) ==
  LET fc == s.fc
      flip == IF hasnextcond THEN 1 ELSE 0
      jumplabel == IF hasnextcond THEN thenlabel ELSE elselabel
      jump(f, label) == [s EXCEPT !.fc = Add(f, "JMP", 0, label, 0)]
      jumpLoad(label) == [fc |-> Add(fc, "JMP", 0, label, 0), b |-> TRUE]
      sreg == savereg(ec, reg)
      lastAnd == elselabel = lb.e /\ thenlabel # elselabel
      lastOr == thenlabel = lb.e /\ hasnextcond
      valued == compileExpr(fc, reg, e, ec).fc
  IN
  CASE e.k = "False" -> IF elselabel = lb.e THEN jumpLoad(lb.f) ELSE jump(fc, elselabel)
  []   e.k = "Nil" -> IF elselabel = lb.e THEN jump(valued, lb.e) ELSE jump(fc, elselabel)
  []   e.k = "True" -> IF thenlabel = lb.e THEN jumpLoad(lb.t) ELSE jump(fc, thenlabel)
  []   e.k \in {"Number", "String"} ->
         IF thenlabel = lb.e THEN jump(valued, lb.e) ELSE jump(fc, thenlabel)
  []   e.k = "Logical" ->
         LET f == NewLabel(fc)
             next == LastLabel(f)
             l == compileLogicalOpExprAux([s EXCEPT !.fc = f], reg, e.lhs, ec,
                                          IF e.op = "and" THEN next ELSE thenlabel,
                                          IF e.op = "and" THEN elselabel ELSE next, e.op = "or", lb)
         IN  compileLogicalOpExprAux([l EXCEPT !.fc = SetLabelHere(@, next)], reg, e.rhs, ec,
                                     thenlabel, elselabel, hasnextcond, lb)
  []   e.k = "Relational" ->
         LET decided(fl, label) ==
               [fc |-> compileRelationalOpExprAux(fc, reg, e, fl, label), b |-> TRUE]
         IN  IF thenlabel = elselabel THEN decided(1 - flip, lb.t)
             ELSE IF thenlabel = lb.e THEN decided(flip, lb.t)
             ELSE IF elselabel = lb.e THEN decided(flip, lb.f)
             ELSE [s EXCEPT !.fc = compileRelationalOpExprAux(fc, reg, e, flip, jumplabel)]
  []   OTHER ->
         IF e.k = "Ident" /\ (lastAnd \/ lastOr) /\ getIdentRefType(fc, e.name) = "local"
         THEN LET b == FindLocalVar(fc, e.name)
              IN  jump(Add(fc, IF sreg = b THEN "TEST" ELSE "TESTSET", sreg, b, flip), jumplabel)
         ELSE IF ~hasnextcond /\ thenlabel = elselabel
         THEN LET f == compileExpr(fc, reg, e, Ec(ec.ctype, intMax(reg, sreg), ec.varargopt)).fc
                  last == LastInst(f)
              IN  jump(IF last.op = "MOVE" /\ last.a = reg
                       THEN Add(PopInst(f), "MOVE", sreg, last.b, last.c)
                       ELSE Add(f, "MOVE", sreg, reg, 0), jumplabel)
         ELSE LET f == compileExpr(fc, reg, e, ecnone(0)).fc
              IN  jump(IF hasnextcond THEN Add(f, "TESTSET", sreg, reg, flip)
                       ELSE Add(f, "TEST", reg, 0, flip), jumplabel)

-----------------------------------------------------------------------------
(* Calls, tables and functions. *)

(* The registers of a call: a value assigned to the last parameter is
   computed in place. *)
callRegister(fc, reg, ec) ==
  IF ec.ctype = "local" /\ ec.reg = fc.numParameters - 1 THEN ec.reg ELSE reg

compileCall(fc, funcreg, reg, nself, e, ec) ==
  LET args == compileExprList(fc, e.args, reg)
      f == Add(args.fc, "CALL", funcreg, IF args.open THEN 0 ELSE Len(e.args) + nself + 1,
               ec.varargopt + 2)
  IN  IF ec.varargopt = 0 /\ shouldmove(ec, funcreg) THEN Used(Add(f, "MOVE", ec.reg, funcreg, 0), 1)
      ELSE Used(f, IF f.regTop > funcreg + 2 + ec.varargopt \/ ec.varargopt < -1 THEN 0
                   ELSE ec.varargopt + 1)

compileFuncCallExpr(fc, reg, e, ec) ==
  LET funcreg == callRegister(fc, reg, ec)
      func == compileExpr(fc, funcreg, e.func, ecnone(0))
      b == compileExprWithMVPropagation(fc, e.receiver, funcreg)
      c == loadRk(b.fc, b.reg, LString(e.method))
      self == Add(c.fc, "SELF", funcreg, b.rk, c.rk)
  IN  IF e.k = "Call" THEN compileCall(func.fc, funcreg, funcreg + func.used, 0, e, ec)
      ELSE compileCall(self, funcreg, intMax(b.rk + 1, funcreg + 2), 1, e, ec)

(* The number of fields in the batch that a flush after n of them stores. *)
FlushCount(n) == IF n % FieldsPerFlush = 0 THEN FieldsPerFlush ELSE n % FieldsPerFlush

(* The fields from i on, with n array fields so far; those since the last
   flush are in registers up to reg. *)
RECURSIVE compileFields(_, _, _, _, _, _)
compileFields(fc, tablereg, reg, fields, i, n) ==
  LET field == fields[i]
      islast == i = Len(fields)
      open == islast /\ field.key = NoKey /\ isVarArgReturnExpr(field.value)
      r == compileExpr(fc, reg, field.value, ecnone(IF open THEN -2 ELSE 0))
      b == compileExprWithKMVPropagation(fc, field.key, reg)
      c == compileExprWithKMVPropagation(b.fc, field.value, b.reg)
      op == IF field.key.k = "String" THEN "SETTABLEKS" ELSE "SETTABLE"
      stored == IF field.key = NoKey THEN r.fc ELSE Add(c.fc, op, tablereg, b.rk, c.rk)
      count == IF field.key = NoKey /\ ~open THEN n + 1 ELSE n
      flushes == (count # 0 /\ (count % FieldsPerFlush = 0 \/ islast)) \/ open
      all == islast /\ isVarArgReturnExpr(field.value)
      batch == GoDiv(count - 1, FieldsPerFlush) + 1
      flushed == Add(stored, "SETLIST", tablereg, IF all THEN 0 ELSE FlushCount(count), batch)
  IN  IF i > Len(fields) \/ fc.error # "none" THEN fc
      ELSE IF flushes THEN compileFields(flushed, tablereg, tablereg + 1, fields, i + 1, count)
      ELSE compileFields(stored, tablereg, IF field.key = NoKey THEN reg + r.used ELSE reg,
                         fields, i + 1, count)

compileTableExpr(fc, reg, e, ec) ==
  LET f == compileFields(Add(fc, "NEWTABLE", reg, 0, 0), reg, reg + 1, e.fields, 1, 0)
  IN  IF shouldmove(ec, reg) THEN Add(f, "MOVE", ec.reg, reg, 0) ELSE f

(* The instructions after a CLOSURE say which variables it captures. *)
Capture(fc, name) ==
  LET found == FindLocalVarAndBlock(fc, name)
      f == RegisterUnique(fc, name)
  IN  IF found.reg > -1
      THEN [Add(fc, "MOVE", 0, found.reg, 0) EXCEPT !.blocks[found.block].refUpvalue = TRUE]
      ELSE Add(f, "GETUPVAL", 0, Find(f.upvalues, name, 0), 0)

compileClosure(fc, sreg, e, ec) ==
  LET proto == compileFunctionExpr(newFuncContext(<<fc>>), e, ec)
      f == [fc EXCEPT !.protos = Append(@, proto),
                      !.error = IF @ = "none" THEN proto.error ELSE @]
  IN  FoldLeft(Capture, Add(f, "CLOSURE", sreg, Len(f.protos) - 1, 0), proto.upvalues)

-----------------------------------------------------------------------------
(* Expressions. *)

compileExpr(fc, reg, e, ec) ==
  LET sreg == savereg(ec, reg)
      sused == IF sreg < reg THEN 0 ELSE 1
      ident == getIdentRefType(fc, e.name)
      registered == RegisterUnique(fc, e.name)
      object == compileExprWithMVPropagation(fc, e.object, reg)
      key == compileExprWithKMVPropagation(object.fc, e.key, object.reg)
      vararg == Add([fc EXCEPT !.needsArg = FALSE,
                               !.error = IF @ = "none" /\ ~fc.isVarArg THEN "... outside" ELSE @],
                    "VARARG", sreg, 2 + ec.varargopt, 0)
  IN
  CASE fc.error # "none" -> Used(fc, 0)
  []   e.k = "String" -> Used(AddConstant(fc, "LOADK", sreg, LString(e.str)), sused)
  []   e.k = "Number" -> Used(AddConstant(fc, "LOADK", sreg, LNumber(e.num)), sused)
  []   e.k = "Nil" -> Used(Add(fc, "LOADNIL", sreg, sreg, 0), sused)
  []   e.k = "False" -> Used(Add(fc, "LOADBOOL", sreg, 0, 0), sused)
  []   e.k = "True" -> Used(Add(fc, "LOADBOOL", sreg, 1, 0), sused)
  []   e.k = "Ident" /\ ident = "global" -> Used(AddConstant(fc, "GETGLOBAL", sreg, LString(e.name)), sused)
  []   e.k = "Ident" /\ ident = "upvalue" ->
         Used(Add(registered, "GETUPVAL", sreg, Find(registered.upvalues, e.name, 0), 0), sused)
  []   e.k = "Ident" /\ ident = "local" -> Used(Add(fc, "MOVE", sreg, FindLocalVar(fc, e.name), 0), sused)
  []   e.k = "Comma3" ->
         Used(vararg, IF fc.regTop > sreg + 2 + ec.varargopt \/ ec.varargopt < -1 THEN 0
                      ELSE sreg + 1 + ec.varargopt - reg)
  []   e.k = "AttrGet" ->
         Used(Add(key.fc, IF e.key.k = "String" THEN "GETTABLEKS" ELSE "GETTABLE", sreg, object.rk, key.rk),
              sused)
  []   e.k = "Table" -> Used(compileTableExpr(fc, reg, e, ec), 1)
  []   e.k = "Arithmetic" -> Used(compileArithmeticOpExpr(fc, reg, e, ec), sused)
  []   e.k = "Concat" -> Used(compileStringConcatOpExpr(fc, reg, e, ec), sused)
  []   e.k = "Unary" -> Used(compileUnaryOpExpr(fc, reg, e, ec), sused)
  []   e.k = "Relational" -> Used(compileRelationalOpExpr(fc, reg, e, ec), sused)
  []   e.k = "Logical" -> Used(compileLogicalOpExpr(fc, reg, e, ec), sused)
  []   e.k \in {"Call", "MethodCall"} -> compileFuncCallExpr(fc, reg, e, ec)
  []   e.k = "Function" -> Used(compileClosure(fc, sreg, e, ec), sused)

-----------------------------------------------------------------------------
(* Assignments. *)

Target(ctype, reg) ==
  [ctype |-> ctype, reg |-> reg, keyrk |-> 0, valuerk |-> 0, keyks |-> FALSE, needmove |-> FALSE]

leftIdent(fc, name) ==
  LET ctype == getIdentRefType(fc, name)
  IN  CASE ctype = "global" ->
             LET f == WithConst(fc, LString(name))
             IN  IF isGlobalConstMode(fc) /\ ~isGlobalDeclared(fc, name)
                 THEN raiseCompileError(f, "global is not declared") ELSE f
      []   ctype = "upvalue" ->
             LET f == RegisterUnique(fc, name)
             IN  IF isLocalConst(fc, name) THEN raiseCompileError(f, "assign to constant") ELSE f
      []   ctype = "local" ->
             IF name \in fc.constVars THEN raiseCompileError(fc, "assign to constant") ELSE fc

RECURSIVE compileAssignStmtLeft(_, _, _, _)
compileAssignStmtLeft(fc, lhs, reg, acs) ==
  LET e == lhs[1]
      object == compileExprWithKMVPropagation(fc, e.object, reg)
      key == compileExpr(object.fc, object.reg, e.key, ecnone(0))
      ctype == getIdentRefType(fc, e.name)
      ident == Target(ctype, IF ctype = "local" THEN FindLocalVar(fc, e.name) ELSE regNotDefined)
      attr == [Target("table", object.rk) EXCEPT !.keyrk = object.reg, !.keyks = e.key.k = "String"]
  IN  IF lhs = << >> THEN [fc |-> fc, reg |-> reg, acs |-> acs]
      ELSE IF e.k = "Ident"
      THEN compileAssignStmtLeft(leftIdent(fc, e.name), Tail(lhs), reg, Append(acs, ident))
      ELSE compileAssignStmtLeft(key.fc, Tail(lhs), object.reg + key.used, Append(acs, attr))

(* The value for target i, and for those after it; an expression for a local
   variable is compiled into it. *)
RECURSIVE compileAssignStmtRight(_, _, _, _, _)
compileAssignStmtRight(fc, rhs, reg, acs, i) ==
  LET ac == acs[i]
      open == i = Len(rhs) /\ isVarArgReturnExpr(rhs[i])
      all == compileExpr(fc, reg, rhs[i], ecnone(Len(acs) - i))
      spread == [j \in DOMAIN acs |->
                   IF j < i \/ j >= i + all.used THEN acs[j]
                   ELSE [acs[j] EXCEPT !.needmove = TRUE,
                           !.valuerk = IF acs[j].ctype = "table" THEN reg + j - i ELSE @]]
      e == IF i > Len(rhs) THEN NilExpr ELSE rhs[i]
      r == compileExpr(fc, reg, e, Ec(ac.ctype, ac.reg, 0))
      value == IF e.k = "Logical" THEN Operand(r.fc, reg, reg + r.used)
               ELSE PropagateKMV(r.fc, r.fc.regTop, reg, r.used)
  IN  IF i > Len(acs)
      THEN [fc |-> compileExtra(fc, SubSeq(rhs, i, Len(rhs)), reg), reg |-> reg - 1, acs |-> acs]
      ELSE IF open
      THEN [fc |-> all.fc, reg |-> reg + all.used - 1, acs |-> spread]
      ELSE IF ac.ctype = "table"
      THEN compileAssignStmtRight(value.fc, rhs, value.reg, [acs EXCEPT ![i].valuerk = value.rk], i + 1)
      ELSE compileAssignStmtRight(r.fc, rhs, reg + r.used, [acs EXCEPT ![i].needmove = r.used # 0], i + 1)

(* The values are stored from the last to the first. *)
RECURSIVE compileStores(_, _, _, _, _)
compileStores(fc, lhs, acs, reg, i) ==
  LET ac == acs[i]
      name == LString(lhs[i].name)
      registered == RegisterUnique(fc, lhs[i].name)
      next(f, used) == compileStores(f, lhs, acs, IF used THEN reg - 1 ELSE reg, i - 1)
  IN  CASE i = 0 -> fc
      []   i > 0 /\ ac.ctype = "local" ->
             next(IF ac.needmove THEN Add(fc, "MOVE", FindLocalVar(fc, lhs[i].name), reg, 0) ELSE fc,
                  ac.needmove)
      []   i > 0 /\ ac.ctype = "global" -> next(AddConstant(fc, "SETGLOBAL", reg, name), TRUE)
      []   i > 0 /\ ac.ctype = "upvalue" ->
             next(Add(registered, "SETUPVAL", reg, Find(registered.upvalues, lhs[i].name, 0), 0), TRUE)
      []   i > 0 /\ ac.ctype = "table" ->
             next(Add(fc, IF ac.keyks THEN "SETTABLEKS" ELSE "SETTABLE", ac.reg, ac.keyrk, ac.valuerk),
                  ~opIsK(ac.valuerk))

compileAssignStmt(fc, lhs, rhs) ==
  LET left == compileAssignStmtLeft(fc, lhs, fc.regTop, << >>)
      right == compileAssignStmtRight(left.fc, rhs, left.reg, left.acs, 1)
  IN  compileStores(right.fc, lhs, right.acs, right.reg, Len(lhs))

(* n names, of which the first has register reg, are given the values. *)
RECURSIVE compileRegAssignment(_, _, _, _, _)
compileRegAssignment(fc, n, exprs, reg, nvars) ==
  LET e == exprs[1]
      open == Len(exprs) = 1 /\ isVarArgReturnExpr(e)
  IN  IF n > 0 /\ exprs # << >>
      THEN IF open THEN compileExpr(fc, reg, e, Ec("vararg", reg, nvars - 1)).fc
           ELSE compileRegAssignment(compileExpr(fc, reg, e, Ec("local", reg, 0)).fc,
                                     n - 1, Tail(exprs), reg + 1, nvars - 1)
      ELSE IF n > 0 THEN Add(fc, "LOADNIL", reg, reg + n - 1, 0)
      ELSE compileExtra(fc, exprs, reg)

compileLocalAssignStmt(fc, st) ==
  LET n == Len(st.names)
      declare(f, name) ==
        LET g == RegisterLocalVar(f, name)
            h == [g EXCEPT !.constVars = @ \cup {name}, !.blocks[Top(g)].constVars = @ \cup {name}]
        IN  CASE st.attrib = "const" -> h
            []   st.attrib = "close" -> [g EXCEPT !.blocks[Top(g)].closeRegs = Append(@, FindLocalVar(g, name))]
            []   OTHER -> g
  IN  IF n = 1 /\ Len(st.exprs) = 1 /\ st.exprs[1].k = "Function"
      THEN compileRegAssignment(declare(fc, st.names[1]), 1, st.exprs, fc.regTop, 1)
      ELSE FoldLeft(declare, compileRegAssignment(fc, n, st.exprs, fc.regTop, n), st.names)

compileGlobalDeclStmt(fc, st) ==
  LET ne == Len(st.exprs)
      RECURSIVE values(_, _, _)
      values(f, reg, i) ==
        LET all == i = ne /\ Len(st.names) > ne /\ isVarArgReturnExpr(st.exprs[i])
            r == compileExpr(f, reg, st.exprs[i], ecnone(IF all THEN -2 ELSE 0))
        IN  IF i > ne THEN [fc |-> f, reg |-> reg]
            ELSE IF all THEN [fc |-> r.fc, reg |-> reg] ELSE values(r.fc, reg + r.used, i + 1)
      v == values([fc EXCEPT !.declaredGlobals = @ \cup {st.names[i] : i \in DOMAIN st.names}],
                  fc.regTop, 1)
      store(f, i) ==
        IF i <= ne THEN AddConstant(f, "SETGLOBAL", v.reg - (ne - i + 1), LString(st.names[i]))
        ELSE AddConstant(Add(f, "LOADNIL", v.reg, v.reg, 0), "SETGLOBAL", v.reg, LString(st.names[i]))
  IN  IF st.isConst /\ st.names = << >> THEN [fc EXCEPT !.globalConstMode = TRUE]
      ELSE FoldLeft(store, v.fc, [i \in DOMAIN st.names |-> i])

compileFuncDefStmt(fc, st) ==
  LET t == compileExprWithKMVPropagation(fc, st.receiver, fc.regTop)
      k == loadRk(t.fc, t.reg, LString(st.method))
      f == compileExpr(k.fc, k.reg, st.func, ecfuncdef).fc
  IN  IF st.k = "FuncDef" THEN compileAssignStmt(fc, <<st.target>>, <<st.func>>)
      ELSE Add(f, "SETTABLE", t.rk, k.rk, k.reg)

-----------------------------------------------------------------------------
(* Branches and loops. *)

compileBranchCondition(fc, reg, e, thenlabel, elselabel, hasnextcond) ==
  LET flip == IF hasnextcond THEN 1 ELSE 0
      jumplabel == IF hasnextcond THEN thenlabel ELSE elselabel
      f == NewLabel(fc)
      next == LastLabel(f)
      l == compileBranchCondition(f, reg, e.lhs, IF e.op = "and" THEN next ELSE thenlabel,
                                  IF e.op = "and" THEN elselabel ELSE next, e.op = "or")
      v == compileExprWithMVPropagation(fc, e, reg)
  IN  CASE e.k \in {"False", "Nil"} /\ ~hasnextcond -> Add(fc, "JMP", 0, elselabel, 0)
      []   e.k \in {"True", "Number", "String"} /\ ~hasnextcond -> fc
      []   e.k = "Unary" /\ e.op = "not" ->
             compileBranchCondition(fc, reg, e.expr, elselabel, thenlabel, ~hasnextcond)
      []   e.k = "Logical" ->
             compileBranchCondition(SetLabelHere(l, next), reg, e.rhs, thenlabel, elselabel, hasnextcond)
      []   e.k = "Relational" -> compileRelationalOpExprAux(fc, reg, e, flip, jumplabel)
      []   OTHER -> Add(Add(v.fc, "TEST", v.rk, 0, flip), "JMP", 0, jumplabel, 0)

(* The statements of a block.  A label counts as the last statement when only
   labels follow it in the block. *)
RECURSIVE compileChunk(_, _, _)
compileChunk(fc, stmts, untilFollows) ==
  LET last == ~untilFollows /\ \A j \in 2 .. Len(stmts) : stmts[j].k = "Label"
  IN  IF stmts = << >> \/ fc.error # "none" THEN fc
      ELSE compileChunk(compileStmt(fc, stmts[1], last), Tail(stmts), untilFollows)

compileBlock(fc, stmts) ==
  IF stmts = << >> THEN fc ELSE LeaveBlock(compileChunk(EnterBlock(fc, labelNoJump), stmts, FALSE))

compileIfStmt(fc, st) ==
  LET f == NewLabel(NewLabel(NewLabel(fc)))
      end == LastLabel(f)
      else == end - 1
      then == end - 2
      tested == compileBranchCondition(f, f.regTop, st.cond, then, else, FALSE)
      done == compileBlock(SetLabelHere(tested, then), st.then)
      other == compileBlock(SetLabelHere(Add(done, "JMP", 0, end, 0), else), st.else)
  IN  IF st.else = << >> THEN SetLabelHere(done, else) ELSE SetLabelHere(other, end)

MutantWhileStmt(fc, st) ==
  LET f == NewLabel(NewLabel(NewLabel(fc)))
      cond == LastLabel(f)
      else == cond - 1
      then == cond - 2
      tested == compileBranchCondition(SetLabelHere(f, cond), f.regTop, st.cond, then, else, FALSE)
      body == compileChunk(EnterBlock(SetLabelHere(tested, then), else), st.stmts, FALSE)
  IN  LeaveBlock(Add(SetLabelHere(CloseUpvalues(body), else), "JMP", 0, cond, 0))

compileWhileStmt(fc, st) ==
  LET f == NewLabel(NewLabel(NewLabel(fc)))
      cond == LastLabel(f)
      else == cond - 1
      then == cond - 2
      tested == compileBranchCondition(SetLabelHere(f, cond), f.regTop, st.cond, then, else, FALSE)
      body == compileChunk(EnterBlock(SetLabelHere(tested, then), else), st.stmts, FALSE)
  IN  SetLabelHere(LeaveBlock(Add(CloseUpvalues(body), "JMP", 0, cond, 0)), else)

compileRepeatStmt(fc, st) ==
  LET f == NewLabel(NewLabel(NewLabel(fc)))
      else == LastLabel(f)
      then == else - 1
      init == else - 2
      body == compileChunk(EnterBlock(SetLabelHere(SetLabelHere(f, init), else), then), st.stmts, TRUE)
      tested == compileBranchCondition(body, body.regTop, st.cond, then, else, FALSE)
      left == LeaveBlock(SetLabelHere(tested, then))
      out == NewLabel(left)
      again == SetLabelHere(Add(out, "JMP", 0, LastLabel(out), 0), else)
      n == LastIndex(tested.blocks[Top(tested) - 1])
  IN  IF ~Block(tested).refUpvalue THEN left
      ELSE SetLabelHere(Add(Add(again, "CLOSE", n, 0, 0), "JMP", 0, init, 0), LastLabel(out))

MutantBreakStmt(fc) ==
  LET loops == {i \in DOMAIN fc.blocks : fc.blocks[i].breakLabel # labelNoJump}
  IN  IF loops = {} THEN raiseCompileError(fc, "no loop to break")
      ELSE Add(fc, "JMP", 0, fc.blocks[Max(loops)].breakLabel, 0)

compileBreakStmt(fc) ==
  LET loops == {i \in DOMAIN fc.blocks : fc.blocks[i].breakLabel # labelNoJump}
      i == Max(loops)
      f == IF fc.blocks[i].refUpvalue THEN Add(fc, "CLOSE", LastIndex(fc.blocks[i - 1]), 0, 0) ELSE fc
  IN  IF loops = {} THEN raiseCompileError(fc, "no loop to break")
      ELSE Add(f, "JMP", 0, fc.blocks[i].breakLabel, 0)

(* Each of the three control variables is computed into its register. *)
compileNumberForStmt(fc, st) ==
  LET f == NewLabel(fc)
      end == LastLabel(f)
      entered == EnterBlock(f, end)
      rindex == entered.regTop
      control(g, name, e) ==
        compileExpr(RegisterLocalVar(g, name), g.regTop, e, Ec("local", g.regTop, 0)).fc
      step == IF st.step = NilExpr THEN NumberExpr(1) ELSE st.step
      ready == control(control(control(entered, "(for index)", st.init), "(for limit)", st.limit),
                       "(for step)", step)
      head == RegisterLocalVar(Add(ready, "FORPREP", rindex, 0, 0), st.name)
      body == LeaveBlock(compileChunk(head, st.stmts, FALSE))
      flpc == LastPC(body)
      looped == Add(body, "FORLOOP", rindex, LastPC(head) - (flpc + 1), 0)
  IN  [SetLabelHere(looped, end) EXCEPT !.code[LastPC(head) + 1].b = flpc - LastPC(head)]

compileGenericForStmt(fc, st) ==
  LET f == NewLabel(NewLabel(NewLabel(fc)))
      end == LastLabel(f) - 2
      bodylabel == LastLabel(f) - 1
      fllabel == LastLabel(f)
      declared(g, names) == FoldLeft(RegisterLocalVar, g, names)
      entered == declared(EnterBlock(f, end), <<"(for generator)", "(for state)", "(for control)">>)
      rgen == entered.regTop - 3
      ready == compileRegAssignment(entered, Len(st.names), st.exprs, rgen, 3)
      head == declared(Add(ready, "JMP", 0, fllabel, 0), st.names)
      body == LeaveBlock(compileChunk(SetLabelHere(head, bodylabel), st.stmts, FALSE))
      looped == Add(Add(SetLabelHere(body, fllabel), "TFORLOOP", rgen, 0, Len(st.names)),
                    "JMP", 0, bodylabel, 0)
  IN  SetLabelHere(looped, end)

-----------------------------------------------------------------------------
(* Labels, gotos and returns. *)

compileLabelStmt(fc, st, isLastStmt) ==
  LET f == NewLabel(fc)
      active == LocalVarsCount(f, IF isLastStmt THEN Top(f) - 1 ELSE Top(f))
      label == [name |-> st.label, id |-> LastLabel(f), pc |-> LastPC(f), n |-> active]
  IN  ResolveForwardGoto(AddNamedLabel(f, label), label)

compileGotoStmt(fc, st) ==
  LET f == Add(Add(fc, "CLOSE", 0, 0, 0), "JMP", 0, labelNoJump, 0)
      pending == [name |-> st.label, pc |-> LastPC(f), n |-> LocalVarsCount(f, Top(f)), open |-> TRUE]
      g == [f EXCEPT !.gotos = Append(@, pending)]
  IN  FindLabel(g, Top(g), Len(g.gotos))

compileReturnStmt(fc, st) ==
  LET e == st.exprs[1]
      a == fc.regTop
      local == FindLocalVar(fc, e.name)
      call == compileExpr(fc, a, e, ecnone(IF e.adjust THEN 0 ELSE -2)).fc
      tail == [call EXCEPT !.code[Len(call.code)].op = "TAILCALL"]
      list == compileExprList(fc, st.exprs, a)
  IN  IF Len(st.exprs) = 1 /\ e.k = "Ident" /\ local > -1 THEN Add(fc, "RETURN", local, 2, 0)
      ELSE IF Len(st.exprs) = 1 /\ e.k \in {"Call", "MethodCall"}
      THEN Add(IF e.adjust THEN call ELSE tail, "RETURN", a, 0, 0)
      ELSE Add(list.fc, "RETURN", a, IF list.open THEN 0 ELSE list.reg - a + 1, 0)

-----------------------------------------------------------------------------
(* Statements and functions. *)

compileStmt(fc, st, isLastStmt) ==
  CASE st.k = "Assign" -> compileAssignStmt(fc, st.lhs, st.rhs)
  []   st.k = "Local" -> compileLocalAssignStmt(fc, st)
  []   st.k = "CallStmt" -> compileFuncCallExpr(fc, fc.regTop, st.call, ecnone(-1)).fc
  []   st.k = "Do" -> LeaveBlock(compileChunk(EnterBlock(fc, labelNoJump), st.stmts, FALSE))
  []   st.k = "While" -> compileWhileStmt(fc, st)
  []   st.k = "Repeat" -> compileRepeatStmt(fc, st)
  []   st.k \in {"FuncDef", "MethodDef"} -> compileFuncDefStmt(fc, st)
  []   st.k = "Return" -> compileReturnStmt(fc, st)
  []   st.k = "If" -> compileIfStmt(fc, st)
  []   st.k = "Break" -> compileBreakStmt(fc)
  []   st.k = "NumberFor" -> compileNumberForStmt(fc, st)
  []   st.k = "GenericFor" -> compileGenericForStmt(fc, st)
  []   st.k = "Label" -> compileLabelStmt(fc, st, isLastStmt)
  []   st.k = "Goto" -> compileGotoStmt(fc, st)
  []   st.k = "Global" -> compileGlobalDeclStmt(fc, st)

(* A method's first parameter is self.  A vararg function other than the main
   one has the variable arg, a table of its extra arguments unless it uses
   the dots. *)
compileFunctionExpr(fc, e, ec) ==
  LET self == IF ec.ctype = "method" THEN <<"self">> ELSE << >>
      nested == fc.outer # << >>
      names == self \o e.names \o (IF e.hasVargs /\ nested THEN <<"arg">> ELSE << >>)
      fits == IF Len(e.names) > maxRegisters THEN raiseCompileError(fc, "register overflow") ELSE fc
      declared == FoldLeft(RegisterLocalVar, fits, names)
      f == [declared EXCEPT !.numParameters = Len(self \o e.names), !.isVarArg = e.hasVargs,
                            !.needsArg = e.hasVargs]
      body == Add(compileChunk(f, e.stmts, FALSE), "RETURN", 0, 1, 0)
  IN  patchCode(CheckUnresolvedGoto(body))

Compile(stmts) == compileFunctionExpr(newFuncContext(<< >>), FunctionExpr(<< >>, TRUE, stmts), ecnone(0))
=============================================================================
