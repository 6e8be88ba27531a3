-------------------------------- MODULE Syntax --------------------------------
(***************************************************************************)
(* The syntax trees that the parser hands to the compiler (ast/expr.go and *)
(* ast/stmt.go), without positions, and the values that constants denote.  *)
(* A tree is a record whose field k tells its kind; a list of trees is a   *)
(* sequence.  Values are tuples that begin with their type, so that values *)
(* of different types can be compared.                                     *)
(***************************************************************************)
EXTENDS Integers, Sequences

LNil == <<"nil">>
LBool(b) == <<"boolean", b>>
LNumber(n) == <<"number", n>>
LString(s) == <<"string", s>>
LTable(i) == <<"table", i>>
LFunction(i) == <<"function", i>>
LGFunction(name) == <<"gfunction", name>>

Type(v) == IF v[1] = "gfunction" THEN "function" ELSE v[1]
LVAsBool(v) == v \notin {LNil, LBool(FALSE)}

-----------------------------------------------------------------------------
(* Expressions. *)

NilExpr == [k |-> "Nil"]
TrueExpr == [k |-> "True"]
FalseExpr == [k |-> "False"]
NumberExpr(n) == [k |-> "Number", num |-> n]
StringExpr(s) == [k |-> "String", str |-> s]
Comma3Expr(adjust) == [k |-> "Comma3", adjust |-> adjust]
IdentExpr(name) == [k |-> "Ident", name |-> name]
AttrGetExpr(object, key) == [k |-> "AttrGet", object |-> object, key |-> key]
LogicalOpExpr(op, lhs, rhs) == [k |-> "Logical", op |-> op, lhs |-> lhs, rhs |-> rhs]
RelationalOpExpr(op, lhs, rhs) == [k |-> "Relational", op |-> op, lhs |-> lhs, rhs |-> rhs]
ArithmeticOpExpr(op, lhs, rhs) == [k |-> "Arithmetic", op |-> op, lhs |-> lhs, rhs |-> rhs]
StringConcatOpExpr(lhs, rhs) == [k |-> "Concat", lhs |-> lhs, rhs |-> rhs]
UnaryOpExpr(op, expr) == [k |-> "Unary", op |-> op, expr |-> expr]
FunctionExpr(names, hasVargs, stmts) ==
  [k |-> "Function", names |-> names, hasVargs |-> hasVargs, stmts |-> stmts]

(* A table's fields have an expression as key, or NoKey. *)
NoKey == [k |-> "NoKey"]
Field(key, value) == [key |-> key, value |-> value]
TableExpr(fields) == [k |-> "Table", fields |-> fields]

(* A call names a function, or a receiver and a method. *)
FuncCallExpr(func, args, adjust) ==
  [k |-> "Call", func |-> func, args |-> args, adjust |-> adjust]
MethodCallExpr(receiver, method, args, adjust) ==
  [k |-> "MethodCall", receiver |-> receiver, method |-> method, args |-> args,
   adjust |-> adjust]

-----------------------------------------------------------------------------
(* Statements. *)

AssignStmt(lhs, rhs) == [k |-> "Assign", lhs |-> lhs, rhs |-> rhs]
LocalAssignStmt(names, exprs, attrib) ==
  [k |-> "Local", names |-> names, exprs |-> exprs, attrib |-> attrib]
FuncCallStmt(call) == [k |-> "CallStmt", call |-> call]
DoBlockStmt(stmts) == [k |-> "Do", stmts |-> stmts]
WhileStmt(cond, stmts) == [k |-> "While", cond |-> cond, stmts |-> stmts]
RepeatStmt(cond, stmts) == [k |-> "Repeat", cond |-> cond, stmts |-> stmts]
IfStmt(cond, then, else) == [k |-> "If", cond |-> cond, then |-> then, else |-> else]
NumberForStmt(name, init, limit, step, stmts) ==
  [k |-> "NumberFor", name |-> name, init |-> init, limit |-> limit, step |-> step,
   stmts |-> stmts]
GenericForStmt(names, exprs, stmts) ==
  [k |-> "GenericFor", names |-> names, exprs |-> exprs, stmts |-> stmts]
MethodDefStmt(receiver, method, func) ==
  [k |-> "MethodDef", receiver |-> receiver, method |-> method, func |-> func]
FuncDefStmt(target, func) == [k |-> "FuncDef", target |-> target, func |-> func]
ReturnStmt(exprs) == [k |-> "Return", exprs |-> exprs]
BreakStmt == [k |-> "Break"]
LabelStmt(label) == [k |-> "Label", label |-> label]
GotoStmt(label) == [k |-> "Goto", label |-> label]
GlobalDeclStmt(names, exprs, isConst) ==
  [k |-> "Global", names |-> names, exprs |-> exprs, isConst |-> isConst]
=============================================================================
