------------------------------ MODULE MCPrograms ------------------------------
(***************************************************************************)
(* Machine for TLC: the programs that are compiled and run, and what must  *)
(* hold of them.  The programs are every combination of a few expressions  *)
(* or statements in each of the contexts that the compiler treats in a way *)
(* of its own.  Sample holds those that the code gets right, CloseSkipped, *)
(* LocalTargets and LeavingBlocks some that it does not.                   *)
(***************************************************************************)
EXTENDS Machine

CONSTANT MeaningOf(_)  \* what the Lua manual says a program shows and how it ends

Lua == INSTANCE LuaSemantics
Meant(source) == LET meaning == Lua!Meaning(source) IN meaning
Compiled(source) == LET compiled == Compile(source) IN compiled

-----------------------------------------------------------------------------
(* Properties. *)

Halted == status # "running"

(* A program that has halted has shown, returned and raised what the Lua
   manual says it does: compile.go and vm.go together, against an evaluator
   that knows neither registers nor jumps. *)
RunsAsMeant == Halted => [out |-> out, status |-> status] = MeaningOf(program)

(* An open upvalue is a register of a frame that is still there: block ends,
   returns and tail calls have closed those of the variables they end
   (LeaveBlock, OP_CLOSE, OP_RETURN, OP_TAILCALL). *)
OpenUpvaluesLive ==
  \A u \in DOMAIN heap.upvalues :
    heap.upvalues[u].open => heap.upvalues[u].index < Len(thread.regs) /\ thread.frames # << >>

(* Every program of the sample halts: jumps, patched when a function is
   complete, lead where the loops say (patchCode, OP_FORLOOP). *)
Halts == <>Halted

-----------------------------------------------------------------------------
(* Notation for syntax trees. *)

N(n) == NumberExpr(n)
S(s) == StringExpr(s)
V(x) == IdentExpr(x)
Call(f, args) == FuncCallExpr(V(f), args, FALSE)
One(f, args) == FuncCallExpr(V(f), args, TRUE)
Dots == Comma3Expr(FALSE)
At(t, k) == AttrGetExpr(V(t), k)
Op(op, l, r) ==
  CASE op \in {"and", "or"} -> LogicalOpExpr(op, l, r)
  []   op \in {"==", "~=", "<", ">", "<=", ">="} -> RelationalOpExpr(op, l, r)
  []   op = ".." -> StringConcatOpExpr(l, r)
  []   OTHER -> ArithmeticOpExpr(op, l, r)
Plus(x, n) == Op("+", V(x), N(n))
Not(e) == UnaryOpExpr("not", e)
Size(e) == UnaryOpExpr("#", e)
Do(call) == FuncCallStmt(call)
Emit(args) == Do(Call("emit", args))
Lets(xs, es) == LocalAssignStmt(xs, es, "")
Let(x, e) == Lets(<<x>>, <<e>>)
Const(x, e) == LocalAssignStmt(<<x>>, <<e>>, "const")
Close(x, e) == LocalAssignStmt(<<x>>, <<e>>, "close")
Global(names, es) == GlobalDeclStmt(names, es, FALSE)
Strict == GlobalDeclStmt(<< >>, << >>, TRUE)
Assign(x, e) == AssignStmt(<<V(x)>>, <<e>>)
Fn(params, body) == FunctionExpr(params, FALSE, body)
VFn(params, body) == FunctionExpr(params, TRUE, body)
Def(f, params, body) == FuncDefStmt(V(f), Fn(params, body))
Return(es) == ReturnStmt(es)
If(c, body) == IfStmt(c, body, << >>)
For(x, from, to, body) == NumberForStmt(x, from, to, NilExpr, body)
Table(es) == TableExpr([i \in DOMAIN es |-> Field(NoKey, es[i])])
SeqsUpTo(A, n) == UNION {[1 .. k -> A] : k \in 0 .. n}

(* f gives two values and none gives none; x has a value and z is nil. *)
Prelude ==
  <<Def("f", << >>, <<Emit(<<S("f")>>), Return(<<N(7), N(8)>>)>>), Def("none", << >>, << >>),
    Assign("h", N(2)), Lets(<<"x", "z">>, <<N(1)>>)>>

-----------------------------------------------------------------------------
(* Conditions, in each place where one is compiled. *)

Atoms ==
  {NilExpr, FalseExpr, TrueExpr, N(3), V("x"), V("z"), V("g"), Call("f", << >>),
   Op("==", V("x"), N(1)), Op(">", N(1), V("x")), Op("~=", V("z"), V("g")), Not(V("x"))}
FewAtoms == {FalseExpr, V("x"), V("g"), Op("<=", V("x"), V("h"))}
Logicals(A, B) == {Op(o, l, r) : o \in {"and", "or"}, l \in A, r \in B}
DeepConditions == Logicals(FewAtoms, Logicals(FewAtoms, FewAtoms)) \cup Logicals(Logicals(FewAtoms, FewAtoms), FewAtoms)

ShortUses(c) ==
  {<<IfStmt(c, <<Emit(<<N(1)>>)>>, <<Emit(<<N(2)>>)>>)>>, <<Let("v", c), Emit(<<V("v"), V("x")>>)>>}
Uses(c) ==
  ShortUses(c) \cup
  {<<Assign("h", c), Emit(<<V("h")>>)>>,
   <<Emit(<<c, V("x")>>)>>,
   <<Return(<<c>>)>>,
   <<Let("t", TableExpr(<<Field(NoKey, c), Field(S("k"), c)>>)), Emit(<<At("t", N(1)), At("t", S("k"))>>)>>,
   <<WhileStmt(c, <<Emit(<<N(1)>>), BreakStmt>>)>>,
   <<RepeatStmt(Op("or", c, V("x")), <<Emit(<<N(1)>>)>>)>>,
   <<If(Not(c), <<Emit(<<V("z")>>)>>)>>}

ConditionPrograms ==
  {Prelude \o u :
     u \in UNION {Uses(c) : c \in Atoms \cup Logicals(Atoms, FewAtoms) \cup Logicals(FewAtoms, Atoms)}
           \cup UNION {ShortUses(c) : c \in DeepConditions}}

-----------------------------------------------------------------------------
(* Assignments: each pair of targets with values of each kind, in a vararg
   function that has an upvalue. *)

LocalNames == {"x", "z"}
Targets == {V("x"), V("z"), V("u"), V("h"), At("t", N(1)), At("t", V("x"))}
FewTargets == {V("x"), V("u"), V("h"), At("t", S("k"))}
Values ==
  {N(5), V("x"), V("u"), At("t", N(1)), Call("f", << >>), Plus("x", 1), Op("or", V("z"), V("h")),
   Fn(<< >>, << >>), Table(<<V("x")>>), Dots, NilExpr}
FewValues == {N(5), V("x"), Op("+", V("z"), V("h")), V("u"), Call("f", << >>), Dots}

Assignments ==
  {AssignStmt(<<l>>, <<v>>) : l \in Targets, v \in Values}
  \cup {AssignStmt(<<l, m>>, r) : l \in FewTargets, m \in FewTargets,
                                  r \in {<<v>> : v \in FewValues} \cup (FewValues \X FewValues)}

(* The local variables that a value of an assignment reads. *)
LocalsIn(e) ==
  CASE e.k = "Ident" -> {e.name} \cap LocalNames
  []   e.k = "Arithmetic" -> {e.lhs.name, e.rhs.name} \cap LocalNames
  []   OTHER -> {}

(* A local variable is compiled into before the values after it are read and
   those before it are stored in tables, before a logical expression has been
   decided, and with the registers above it cut off if the value is cut from
   the dots.  Lua leaves open which of two values for one variable is last. *)
InPlace(a) ==
  \E i \in DOMAIN a.lhs :
    /\ a.lhs[i].k = "Ident" /\ a.lhs[i].name \in LocalNames
    /\ \/ i \in DOMAIN a.rhs /\ a.rhs[i].k = "Logical"
       \/ i < Len(a.rhs) /\ a.rhs[i].k = "Comma3"
       \/ \E j \in DOMAIN a.rhs \ {i} : a.lhs[i].name \in LocalsIn(a.rhs[j]) /\ (i < j \/ a.lhs[j].k = "AttrGet")
       \/ \E j \in DOMAIN a.lhs \ {i} : a.lhs[j] = a.lhs[i]

(* The value of a table's field that is a local variable uses no register,
   but is counted as if it did when the other values are stored. *)
Miscounted(a) ==
  Len(a.lhs) = 2 /\ Len(a.rhs) = 2 /\ a.lhs[2].k = "AttrGet" /\ a.rhs[2] = V("x")

InClosure(body) ==
  Prelude \o
  <<Let("u", N(3)),
    Let("w", VFn(<< >>, <<Lets(<<"x", "z">>, <<N(1), N(6)>>), Let("t", Table(<<N(4)>>))>> \o body \o
                        <<Emit(<<V("x"), V("z"), V("u"), V("h"), At("t", N(1)), At("t", S("k"))>>)>>)),
    Do(Call("w", <<N(21), N(22), N(23)>>))>>
AssignmentPrograms == {InClosure(<<a>>) : a \in {b \in Assignments : ~InPlace(b) /\ ~Miscounted(b)}}

(* Parameters as targets. *)
ParamValues ==
  {N(5), V("x"), V("y"), Op("+", V("x"), V("y")), Call("id", <<V("y")>>), UnaryOpExpr("-", V("y")),
   Op("..", V("y"), Op("..", V("x"), V("y"))), Table(<<V("y")>>), Fn(<< >>, <<Return(<<V("y")>>)>>), NilExpr}
ParamStmts ==
  UNION {{AssignStmt(<<V("x")>>, <<v>>), AssignStmt(<<V("y")>>, <<v>>), AssignStmt(<<V("h"), V("y")>>, <<N(5), v>>),
          AssignStmt(<<V("x"), V("h")>>, <<v, N(5)>>), Let("y", v)} : v \in ParamValues}
Method(o, m, args) == MethodCallExpr(V(o), m, args, FALSE)
ParamProgram(st) ==
  <<Def("id", <<"a">>, <<Let("b", V("a")), Return(<<V("b"), N(9)>>)>>),
    Def("q", <<"x", "y">>, <<Let("c", N(6)), st, Emit(<<V("c"), V("x"), V("y"), V("h")>>)>>),
    Do(Call("q", <<N(1), N(2)>>))>>
ParamPrograms == {ParamProgram(st) : st \in ParamStmts}

-----------------------------------------------------------------------------
(* Lists of expressions: arguments, results, values and fields. *)

Items == {V("x"), Call("f", << >>), One("f", << >>), Dots, Call("none", << >>)}
ListUses(es) ==
  {<<Emit(es)>>,
   <<Let("g", VFn(<<"a">>, <<Return(<<N(0), V("a"), Dots>>)>>)), Emit(<<Call("g", es)>>)>>,
   <<Lets(<<"a", "b">>, es), Emit(<<V("a"), V("b"), V("x")>>)>>,
   <<Let("t", Table(es)), Emit(<<Size(V("t")), At("t", N(1)), At("t", N(2)), At("t", N(4))>>)>>,
   <<Let("g", VFn(<<"a">>, <<Let("x", N(1)), Return(es)>>)), Emit(<<Call("g", <<N(31), N(32)>>)>>)>>}
ListPrograms == {InClosure(u) : u \in UNION {ListUses(es) : es \in SeqsUpTo(Items, 2)}}

KeyedItems ==
  {Field(NoKey, V("x")), Field(NoKey, Call("f", << >>)), Field(S("k"), N(6)), Field(Plus("x", 8), V("h")),
   Field(S("k"), Call("f", << >>))}

(* The last batch of a constructor takes what is left in the registers: it
   is wrong when a computed field or an open one follows a full batch, and
   when the last field has a key and calls a function. *)
BadBatch(fs) ==
  \E i \in DOMAIN fs :
    LET n == Cardinality({j \in 1 .. i - 1 : fs[j].key = NoKey})
        call == fs[i].value.k = "Call"
    IN  /\ n > 0
        /\ \/ i = Len(fs) /\ call /\ (fs[i].key # NoKey \/ n % FieldsPerFlush = 0)
           \/ n % FieldsPerFlush = 0 /\ fs[i].key # NoKey /\ (call \/ fs[i].key.k # "String")
TableProgram(fs) ==
  Prelude \o <<Let("t", TableExpr(fs)),
               Emit(<<Size(V("t")), At("t", S("k")), At("t", N(1)), At("t", N(2)), At("t", N(3)), At("t", N(4)), At("t", N(9))>>)>>
TablePrograms == {TableProgram(fs) : fs \in {g \in SeqsUpTo(KeyedItems, 3) : ~BadBatch(g)}}
  \cup {TableProgram([i \in 1 .. n |-> Field(NoKey, V("x"))]) : n \in 4 .. 7}

-----------------------------------------------------------------------------
(* Loops whose bodies capture variables, leave and continue. *)

Keep(body) == Do(Call("keep", <<Fn(<< >>, body)>>))
At2(body) == If(Op("==", V("i"), N(2)), body)
BodyStmts ==
  {Emit(<<V("i"), V("v")>>),
   Keep(<<Assign("v", Plus("v", 10)), Return(<<V("v")>>)>>),
   Assign("v", Plus("v", 5)),
   At2(<<BreakStmt>>), At2(<<GotoStmt("continue")>>), At2(<<Return(<<V("v")>>)>>),
   DoBlockStmt(<<Let("w", V("i")), Keep(<<Return(<<V("w"), V("v")>>)>>), Assign("w", Plus("w", 1))>>)}

Loops(b) ==
  LET body == <<Let("v", V("i"))>> \o b \o <<LabelStmt("continue")>>
      counted == <<Assign("i", Plus("i", 1))>> \o body
  IN  {<<For("i", N(1), N(3), body)>>,
       <<NumberForStmt("i", N(3), N(1), UnaryOpExpr("-", N(2)), body)>>,
       <<Let("i", N(0)), WhileStmt(Op("<", V("i"), N(3)), counted)>>,
       <<Let("i", N(0)), RepeatStmt(Op(">=", V("v"), N(3)), counted)>>,
       <<GenericForStmt(<<"i">>, <<V("upto3"), NilExpr, N(0)>>, body)>>}

(* The closures that a loop kept are called when its registers have been
   used again. *)
LoopProgram(loop) ==
  <<Assign("n", N(0)), Assign("fs", Table(<< >>)),
    Def("keep", <<"c">>, <<Assign("n", Plus("n", 1)), AssignStmt(<<At("fs", V("n"))>>, <<V("c")>>)>>),
    Def("upto3", <<"s", "c">>, <<If(Op("<", V("c"), N(3)), <<Return(<<Plus("c", 1)>>)>>)>>),
    Def("run", << >>, loop \o <<Lets(<<"p", "q", "r", "s">>, <<N(91), N(92), N(93), N(94)>>)>>),
    Emit(<<Call("run", << >>)>>),
    For("k", N(1), V("n"), <<Let("c", At("fs", V("k"))), Emit(<<Call("c", << >>)>>)>>)>>
LoopPrograms ==
  {LoopProgram(l) : l \in UNION {Loops(b) : b \in {<<s>> : s \in BodyStmts} \cup (BodyStmts \X BodyStmts)}}

(* Jumps over code of each length. *)
Skipped(k) == [i \in 1 .. k |-> Assign("y", N(5))]
Counted == <<Assign("n", Op("+", Op("or", V("n"), N(0)), N(1))), If(Op(">", V("n"), N(2)), <<BreakStmt>>)>>
JumpUses(c, k) ==
  {<<WhileStmt(TrueExpr, <<IfStmt(c, Skipped(k), Counted)>>), Emit(<<V("n")>>)>>,
   <<WhileStmt(TrueExpr, <<WhileStmt(c, Skipped(k))>> \o Counted), Emit(<<V("n")>>)>>,
   <<Let("i", N(0)), LabelStmt("l"), IfStmt(c, Skipped(k), << >>), Assign("i", Plus("i", 1)),
     If(Op("<", V("i"), N(3)), <<GotoStmt("l")>>), Emit(<<V("i")>>)>>}
JumpPrograms ==
  UNION {JumpUses(V("z"), k) : k \in 0 .. 4}
  \cup {<<For("i", N(1), N(2), <<If(c, Skipped(k)), Emit(<<V("i")>>)>>)>> : c \in {FalseExpr, NilExpr}, k \in 0 .. 4}

-----------------------------------------------------------------------------
(* Tail calls and returns. *)

Callees ==
  {Fn(<< >>, <<Return(<<N(1)>>)>>),
   Fn(<<"a", "b", "c">>, <<Let("d", N(4)), Return(<<V("c"), V("d"), V("a")>>)>>),
   Fn(<<"a", "b">>, <<Let("e", V("b")), If(V("b"), <<Return(<<Call("g", <<NilExpr, V("a")>>)>>)>>),
                      Let("k", N(3)), Return(<<V("a"), V("e"), V("k")>>)>>),
   VFn(<<"a">>, <<Return(<<Dots>>)>>),
   VFn(<<"a">>, <<Return(<<V("a"), At("arg", S("n")), At("arg", N(1))>>)>>),
   V("emit"), N(3)}
TailPrograms ==
  {<<Def("f", << >>, <<Return(<<N(7), N(8)>>)>>), Assign("g", c), Assign("o", TableExpr(<<Field(S("m"), c)>>)),
     FuncDefStmt(V("t"), VFn(<<"p">>, <<Let("x", N(6)), Let("u", Fn(<< >>, <<Return(<<V("x")>>)>>)), Return(<<r>>)>>)),
     Let("y", N(2)), Emit(<<Call("t", as), V("y")>>), Emit(<<Call("t", as)>>)>>
     : c \in Callees, as \in {<< >>, <<N(1), N(2), N(3)>>},
       r \in UNION {{Call("g", es), One("g", es), Method("o", "m", es), Op("and", V("x"), Call("g", es))} :
                      es \in {<< >>, <<Dots>>, <<V("x"), Call("f", << >>)>>}}}

-----------------------------------------------------------------------------
(* Operators, with and without metamethods. *)

Events ==
  <<"__index", "__newindex", "__call", "__add", "__sub", "__mul", "__div", "__idiv", "__mod", "__pow", "__shl",
    "__shr", "__band", "__bor", "__bxor", "__concat", "__unm", "__bnot", "__len", "__eq", "__le", "__lt">>
MetaTable(f) == TableExpr([i \in DOMAIN Events |-> Field(S(Events[i]), V(f))])
WithMeta(mt) == Call("setmetatable", <<Table(<< >>), V(mt)>>)

(* o and p have all the events, q events that give nothing, r and s order
   by __lt and look for fields in another table. *)
MetaPrelude ==
  <<Let("e", Fn(<<"a", "b">>, <<Emit(<<V("a"), V("b")>>), Return(<<N(5), N(6)>>)>>)),
    Let("n", Fn(<<"a", "b">>, <<Emit(<<V("a"), V("b")>>)>>)),
    Let("all", MetaTable("e")), Let("no", MetaTable("n")),
    Let("lt", TableExpr(<<Field(S("__lt"), V("n")), Field(S("__index"), V("all")), Field(S("__newindex"), V("all"))>>)),
    Let("o", WithMeta("all")), Let("p", WithMeta("all")), Let("q", WithMeta("no")),
    Let("r", WithMeta("lt")), Let("s", WithMeta("lt")), Let("x", N(3))>>
Operands ==
  {<<V("o"), V("p")>>, <<V("o"), N(1)>>, <<N(1), V("o")>>, <<V("o"), V("q")>>, <<V("q"), S("z")>>,
   <<V("r"), V("s")>>, <<N(-7), V("x")>>, <<V("x"), NilExpr>>, <<S("a"), V("x")>>, <<V("o"), V("o")>>}
Operations ==
  UNION {{Op(op, a[1], a[2]) : op \in {"+", "-", "*", "//", "%", "^", "&", "|", "~", "..", "==", "~=", "<", ">", "<=", ">="}}
         \cup {UnaryOpExpr(op, a[1]) : op \in {"-", "~", "not", "#"}}
         \cup {AttrGetExpr(a[1], S("k")), AttrGetExpr(a[1], V("x")), FuncCallExpr(a[1], <<a[2]>>, FALSE),
               MethodCallExpr(a[1], "m", <<a[2]>>, FALSE)} : a \in Operands}
  \cup {Op(op, a[1], a[2]) : op \in {"/", "<<", ">>"}, a \in Operands \ {<<N(-7), V("x")>>}}
OperatorPrograms ==
  {MetaPrelude \o u :
     u \in UNION {{<<Emit(<<c, V("x")>>)>>, <<IfStmt(c, <<Emit(<<N(1)>>)>>, <<Emit(<<N(2)>>)>>)>>} : c \in Operations}
           \cup {<<AssignStmt(<<AttrGetExpr(a[1], k)>>, <<a[2]>>), Emit(<<At("o", S("k")), At("r", N(3))>>)>> :
                   a \in Operands, k \in {S("k"), V("x")}}}

(* Operators of operators. *)
Leaves == {N(2), N(-7), V("x"), Call("id", <<V("x")>>)}
Sums ==
  {Op(o, l, r) : o \in {"+", "-", "*", "//", "%", "&", "|", "~"}, l \in Leaves, r \in Leaves}
  \cup {Op("^", l, r) : l \in Leaves, r \in Leaves \ {N(-7)}}
  \cup {Op("/", l, r) : l \in {N(6), V("x")}, r \in {N(-3), V("x")}}
  \cup {Op(o, l, r) : o \in {"<<", ">>"}, l \in {N(24), V("x")}, r \in {N(2), N(-1), V("x"), Call("id", <<V("x")>>)}}
FewSums == {Op(o, l, r) : o \in {"-", "%"}, l \in {N(2), V("x")}, r \in {N(4), Call("id", <<V("x")>>)}}
Chains ==
  Sums
  \cup {Op(o, l, r) : o \in {"-", "<"}, l \in FewSums, r \in FewSums}
  \cup {UnaryOpExpr(u, e) : u \in {"-", "~", "not", "#"},
                            e \in FewSums \cup {NilExpr, FalseExpr, TrueExpr, S("ab"), V("x"), UnaryOpExpr("-", V("x"))}}
  \cup {Op("..", a, b) : a \in {S("a"), V("x"), Op("..", S("c"), V("x"))},
                         b \in {S("b"), V("x"), Call("id", <<S("d")>>), Op("..", S("g"), Op("..", V("x"), N(1)))}}
ChainPrograms ==
  {<<Def("id", <<"a">>, <<Emit(<<V("a")>>), Return(<<V("a")>>)>>), Lets(<<"x", "y", "t">>, <<N(3), N(4), Table(<< >>)>>)>> \o u
     : u \in UNION {{<<Let("v", e), Emit(<<V("v"), V("x")>>)>>, <<Assign("x", e), Emit(<<V("x"), V("y")>>)>>,
                     <<AssignStmt(<<At("t", e)>>, <<e>>), Emit(<<At("t", e)>>)>>} : e \in Chains}}

-----------------------------------------------------------------------------
(* Attributes, scopes, jumps and what the compiler rejects. *)

Closer(x) ==
  Call("setmetatable",
       <<TableExpr(<<Field(S("k"), x)>>),
         TableExpr(<<Field(S("__close"), Fn(<<"o">>, <<Emit(<<S("close"), At("o", S("k"))>>)>>))>>)>>)
WithFields(mt) == Call("setmetatable", <<Table(<< >>), mt>>)
(* A metatable whose fields are those that index knows. *)
Inherits(index) == WithFields(WithFields(TableExpr(<<Field(S("__index"), index)>>)))
Rejected ==
  {<<Const("c", N(1)), Assign("c", N(2))>>,
   <<Const("c", N(1)), AssignStmt(<<V("g"), V("c")>>, <<N(2)>>)>>,
   <<Const("c", N(1)), Def("f", << >>, <<Assign("c", N(2))>>), Do(Call("f", << >>))>>,
   <<Strict, Assign("a", N(2))>>,
   <<BreakStmt>>, <<GotoStmt("l")>>,
   <<WhileStmt(TrueExpr, <<Let("f", Fn(<< >>, <<BreakStmt>>)), Do(Call("f", << >>))>>)>>,
   <<GotoStmt("l"), Let("x", N(1)), LabelStmt("l"), Emit(<<N(2)>>)>>}
Scopes ==
  {<<Const("c", N(1)), Def("f", <<"c">>, <<Assign("c", N(2)), Emit(<<V("c")>>)>>), Do(Call("f", << >>)), Emit(<<V("c")>>)>>,
   <<DoBlockStmt(<<Const("c", N(1))>>), Let("c", N(2)), Assign("c", N(3)), Emit(<<V("c")>>)>>,
   <<Strict, Global(<<"a">>, <<N(1)>>), Assign("a", N(2)), Emit(<<V("a")>>)>>,
   <<Global(<<"a", "b">>, <<N(1)>>), Emit(<<V("a"), V("b")>>), Global(<<"b", "c">>, <<N(2), Plus("a", 4)>>), Emit(<<V("b"), V("c")>>)>>,
   <<DoBlockStmt(<<GotoStmt("l"), Let("x", N(1)), LabelStmt("l")>>), Emit(<<N(2)>>)>>,
   <<GotoStmt("l"), Emit(<<N(1)>>), LabelStmt("l"), Emit(<<N(2)>>)>>,
   <<LabelStmt("l"), DoBlockStmt(<<LabelStmt("l"), Emit(<<N(1)>>)>>), Emit(<<N(2)>>)>>,
   <<For("i", N(1), N(2), <<For("j", N(1), N(3), <<If(Op("==", V("j"), N(2)), <<GotoStmt("out")>>), Emit(<<V("i"), V("j")>>)>>), LabelStmt("out")>>)>>,
   <<For("i", N(1), N(2), <<DoBlockStmt(<<GotoStmt("c")>>), Emit(<<V("i")>>), LabelStmt("c"), Emit(<<Op("*", V("i"), N(2))>>)>>)>>,
   <<For("i", S("a"), N(2), <<Emit(<<V("i")>>)>>)>>, <<For("i", N(1), NilExpr, <<Emit(<<V("i")>>)>>)>>,
   <<For("i", N(1), N(0), <<Emit(<<V("i")>>)>>), Emit(<<S("none")>>)>>,
   <<Do(Call("error", <<N(1)>>)), Emit(<<N(2)>>)>>,
   <<Assign("o", Table(<< >>)), MethodDefStmt(V("o"), "m", Fn(<<"a">>, <<Return(<<V("self"), V("a")>>)>>)), Emit(<<Method("o", "m", <<N(1)>>)>>)>>,
   <<Let("x", N(1)), DoBlockStmt(<<Close("a", Closer(N(1))), Close("b", Closer(N(2))), Close("c", NilExpr), Emit(<<V("x")>>)>>), Emit(<<N(3)>>)>>,
   <<For("i", N(1), N(2), <<Close("a", Closer(V("i"))), Emit(<<V("i")>>)>>), Emit(<<N(3)>>)>>,
   <<Let("e", Fn(<<"o">>, <<Emit(<<S("close"), V("o")>>)>>)), DoBlockStmt(<<Close("a", Inherits(TableExpr(<<Field(S("__close"), V("e"))>>)))>>)>>,
   <<Let("e", Fn(<<"o", "k">>, <<Emit(<<S("close"), V("k")>>), Return(<<V("e2")>>)>>)), DoBlockStmt(<<Close("a", Inherits(V("e")))>>)>>,
   <<Let("e", Fn(<<"o", "k">>, <<Return(<<Fn(<<"v">>, <<Emit(<<S("close"), V("v"), V("k")>>)>>)>>)>>)), DoBlockStmt(<<Close("a", Inherits(V("e")))>>)>>,
   <<DoBlockStmt(<<Close("a", WithFields(Table(<< >>)))>>)>>, <<DoBlockStmt(<<Close("a", N(1))>>), Emit(<<N(1)>>)>>,
   <<Let("a", Call("setmetatable", <<Table(<< >>), TableExpr(<<Field(S("__call"), V("emit"))>>)>>)),
     Let("f", Fn(<<"n">>, <<Return(<<Call("a", <<V("n")>>)>>)>>)), Emit(<<Call("f", <<N(3)>>)>>)>>,
   <<Let("f", Fn(<<"n">>, <<If(Op("<", V("n"), N(1)), <<Return(<<N(0)>>)>>), Return(<<Op("+", V("n"), Call("f", <<Op("-", V("n"), N(1))>>))>>)>>)), Emit(<<Call("f", <<N(3)>>)>>)>>}

(* What the compiler gets wrong with values and tables: two local variables
   are exchanged, a local variable gets a logical expression or the first of
   the dots, a global variable is followed by a table's field, the last
   parameter gets a call's value, a constructor mixes fields of both kinds,
   and names declared global get the results of a call. *)
LocalTargets ==
  {InClosure(<<a>>) :
     a \in {AssignStmt(<<V("x"), V("z")>>, <<V("z"), V("x")>>), Assign("x", Op("and", V("g"), N(5))),
            AssignStmt(<<V("x"), V("h")>>, <<Dots, N(5)>>), AssignStmt(<<V("h"), At("t", N(1))>>, <<N(5), V("x")>>)}}
  \cup {ParamProgram(Assign("y", One("id", <<V("y")>>)))}
  \cup {TableProgram(<<Field(NoKey, V("x")), Field(S("k"), Call("f", << >>))>>),
        TableProgram([i \in 1 .. FieldsPerFlush + 1 |->
                        Field(NoKey, IF i <= FieldsPerFlush THEN V("x") ELSE Call("f", << >>))])}
  \cup {Prelude \o <<Global(<<"a", "b">>, <<Call("f", << >>)>>), Emit(<<V("a"), V("b")>>)>>}

(* A variable with a close attribute whose block is left by break, by return
   or with its loop: the close operations that LeaveBlock emits at the end of
   the block are not reached. *)
CloseSkipped ==
  {<<For("i", N(1), N(2), <<Close("a", Closer(N(1))), BreakStmt>>), Emit(<<N(3)>>)>>,
   <<Let("f", Fn(<< >>, <<Close("a", Closer(N(1))), Return(<<N(2)>>)>>)), Emit(<<Call("f", << >>)>>)>>,
   <<Let("i", N(0)), WhileStmt(Op("<", V("i"), N(2)), <<Close("a", Closer(N(1))), Assign("i", Plus("i", 1))>>)>>}

(* What it gets wrong with blocks and jumps: an inner block left by break, a
   goto that closes variables still in use, and a jump back to a jump that
   has its distance already. *)
LeavingBlocks ==
  {LoopProgram(l) :
     l \in UNION {Loops(<<DoBlockStmt(<<Let("w", V("i")), Keep(<<Return(<<V("w")>>)>>), BreakStmt>>)>>),
                  Loops(<<Keep(<<Return(<<V("v")>>)>>), At2(<<GotoStmt("continue")>>), Assign("v", Plus("v", 10))>>)}}
  \cup UNION {JumpUses(FalseExpr, k) : k \in 0 .. 4}

Sample ==
  ConditionPrograms \cup AssignmentPrograms \cup ParamPrograms \cup ListPrograms \cup TablePrograms
  \cup LoopPrograms \cup JumpPrograms \cup TailPrograms \cup OperatorPrograms \cup ChainPrograms
  \cup Rejected \cup Scopes
=============================================================================
