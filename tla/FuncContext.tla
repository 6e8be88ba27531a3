----------------------------- MODULE FuncContext -----------------------------
(***************************************************************************)
(* What the compiler keeps of the function it is compiling (compile.go):   *)
(* the code store with the propagation of operands, the blocks with their  *)
(* local variables, labels and pending gotos, and the constants.  A        *)
(* context is a record and an operation yields the context after it.       *)
(* Program counters and registers count from 0, as in the source.          *)
(***************************************************************************)
EXTENDS Syntax, SequencesExt, FiniteSetsExt

CONSTANTS
  maxRegisters,   \* registers that a function may use
  FieldsPerFlush  \* array fields of a table constructor stored at once

regNotDefined == 256
opBitRk == 256
labelNoJump == 0

intMax(a, b) == IF a < b THEN b ELSE a

Inst(op, a, b, c) == [op |-> op, a |-> a, b |-> b, c |-> c]
opRkAsk(i) == opBitRk + i
opIsK(rk) == rk >= opBitRk

-----------------------------------------------------------------------------
(* Blocks and contexts. *)

newCodeBlock(offset, breakLabel, firstGoto) ==
  [names |-> << >>, offset |-> offset, breakLabel |-> breakLabel, refUpvalue |-> FALSE,
   labels |-> {}, firstGoto |-> firstGoto, closeRegs |-> << >>, constVars |-> {}]

(* outer is empty, or holds the context of the enclosing function. *)
newFuncContext(outer) ==
  [code |-> << >>, constants |-> << >>, protos |-> << >>, numParameters |-> 0,
   isVarArg |-> FALSE, needsArg |-> FALSE,
   outer |-> outer, upvalues |-> << >>, blocks |-> <<newCodeBlock(0, labelNoJump, 0)>>,
   regTop |-> 0, labelPc |-> << >>, gotos |-> << >>,
   globalConstMode |-> FALSE, declaredGlobals |-> {}, constVars |-> {}, error |-> "none"]

(* The first error is the one that ends the compilation. *)
raiseCompileError(fc, what) == [fc EXCEPT !.error = IF @ = "none" THEN what ELSE @]

Top(fc) == Len(fc.blocks)
Block(fc) == fc.blocks[Top(fc)]
LastIndex(block) == block.offset + Len(block.names)

LocalVarsCount(fc, n) == FoldLeft(LAMBDA count, b : count + Len(b.names), 0, SubSeq(fc.blocks, 1, n))

SetRegTop(fc, top) ==
  IF top > maxRegisters THEN raiseCompileError(fc, "too many local variables")
  ELSE [fc EXCEPT !.regTop = top]

RegisterLocalVar(fc, name) ==
  SetRegTop([fc EXCEPT !.blocks[Top(fc)].names = Append(@, name)], fc.regTop + 1)

(* The register that a name in the list stands for, or -1. *)
Find(names, name, offset) ==
  LET found == {i \in DOMAIN names : names[i] = name}
  IN  IF found = {} THEN -1 ELSE offset + Max(found) - 1

FindLocalVarAndBlock(fc, name) ==
  LET holds(i) == Find(fc.blocks[i].names, name, fc.blocks[i].offset)
      found == {i \in DOMAIN fc.blocks : holds(i) > -1}
  IN  IF found = {} THEN [reg |-> -1, block |-> 0]
      ELSE [reg |-> holds(Max(found)), block |-> Max(found)]

FindLocalVar(fc, name) == FindLocalVarAndBlock(fc, name).reg

RegisterUnique(fc, name) ==
  IF Find(fc.upvalues, name, 0) > -1 THEN fc
  ELSE [fc EXCEPT !.upvalues = Append(@, name)]

(* ecLocal, ecUpvalue or ecGlobal. *)
RECURSIVE getIdentRefType(_, _)
getIdentRefType(fc, name) ==
  IF FindLocalVar(fc, name) > -1 THEN "local"
  ELSE IF fc.outer = << >> THEN "global"
  ELSE IF getIdentRefType(fc.outer[1], name) = "global" THEN "global" ELSE "upvalue"

(* The context and those around it. *)
RECURSIVE Contexts(_)
Contexts(fc) == <<fc>> \o IF fc.outer = << >> THEN << >> ELSE Contexts(fc.outer[1])

isGlobalConstMode(fc) == \E i \in DOMAIN Contexts(fc) : Contexts(fc)[i].globalConstMode
isGlobalDeclared(fc, name) == \E i \in DOMAIN Contexts(fc) : name \in Contexts(fc)[i].declaredGlobals
isLocalConst(fc, name) == \E i \in DOMAIN Contexts(fc) : name \in Contexts(fc)[i].constVars

-----------------------------------------------------------------------------
(* Code. *)

LastPC(fc) == Len(fc.code) - 1
LastInst(fc) == IF fc.code = << >> THEN Inst("INVALID", 255, 511, 511) ELSE fc.code[Len(fc.code)]

Add(fc, op, a, b, c) == [fc EXCEPT !.code = Append(@, Inst(op, a % 256, b, c))]
PopInst(fc) == [fc EXCEPT !.code = SubSeq(@, 1, Len(@) - 1)]

(* Labels are the positions of a sequence; a label that is not set yet, or
   that does not exist, reads as 0. *)
NewLabel(fc) == [fc EXCEPT !.labelPc = Append(@, 0)]
LastLabel(fc) == Len(fc.labelPc)
SetLabelPc(fc, label, pc) == [fc EXCEPT !.labelPc[label] = pc]
SetLabelHere(fc, label) == SetLabelPc(fc, label, LastPC(fc))
GetLabelPc(fc, label) == IF label \in DOMAIN fc.labelPc THEN fc.labelPc[label] ELSE 0

WithConst(fc, v) ==
  IF v \in {fc.constants[i] : i \in DOMAIN fc.constants} THEN fc
  ELSE [fc EXCEPT !.constants = Append(@, v)]

ConstIndex(fc, v) == (CHOOSE i \in DOMAIN fc.constants : fc.constants[i] = v) - 1

(* An instruction whose second operand is the index of a constant. *)
AddConstant(fc, op, a, v) ==
  LET f == WithConst(fc, v) IN Add(f, op, a, ConstIndex(f, v), 0)

(* What is known of a value that was compiled into register reg and used
   used registers: the context, the operand it can be had by, and the next
   register.  Code that only moved or loaded the value is taken back. *)
Operand(fc, rk, reg) == [fc |-> fc, rk |-> rk, reg |-> reg]

PropagateMV(fc, top, reg, used) ==
  LET last == LastInst(fc)
  IN  IF last.a >= top /\ last.op = "MOVE" THEN Operand(PopInst(fc), last.b, reg)
      ELSE Operand(fc, reg, reg + used)

PropagateKMV(fc, top, reg, used) ==
  LET last == LastInst(fc)
  IN  IF last.a >= top /\ last.op = "LOADK" /\ last.b < opBitRk
      THEN Operand(PopInst(fc), opRkAsk(last.b), reg)
      ELSE PropagateMV(fc, top, reg, used)

-----------------------------------------------------------------------------
(* Gotos and labels. *)

(* A goto may not enter the scope of a local variable. *)
ResolveGoto(fc, i, to) ==
  LET from == fc.gotos[i]
      f == IF from.n < to.n THEN raiseCompileError(fc, "jumps into the scope of local") ELSE fc
  IN  [f EXCEPT !.code[from.pc + 1].b = to.id, !.gotos[i].open = FALSE]

(* The instruction before the jump of goto i closes the upvalues from n on. *)
SetClose(fc, i, n) == [fc EXCEPT !.code[fc.gotos[i].pc].a = n]

FindLabel(fc, b, i) ==
  LET from == fc.gotos[i]
      targets == {l \in fc.blocks[b].labels : l.name = from.name}
      to == CHOOSE l \in targets : TRUE
      f == IF from.n > to.n /\ fc.blocks[b].refUpvalue THEN SetClose(fc, i, to.n) ELSE fc
  IN  IF targets = {} THEN fc ELSE ResolveGoto(f, i, to)

Gotos(fc) == [i \in 1 .. Len(fc.gotos) - Block(fc).firstGoto |-> Block(fc).firstGoto + i]

(* The gotos that a block leaves pending become its parent's. *)
ResolveCurrentBlockGotosWithParentBlock(fc) ==
  LET n == LocalVarsCount(fc, Top(fc) - 1)
      outward(f, i) ==
        IF ~f.gotos[i].open THEN f
        ELSE LET leaves == f.gotos[i].n > n
                 closed == IF leaves /\ Block(f).refUpvalue THEN SetClose(f, i, n) ELSE f
             IN  FindLabel(IF leaves THEN [closed EXCEPT !.gotos[i].n = n] ELSE closed,
                           Top(f) - 1, i)
  IN  FoldLeft(outward, fc, Gotos(fc))

ResolveForwardGoto(fc, to) ==
  FoldLeft(LAMBDA f, i : IF f.gotos[i].open /\ f.gotos[i].name = to.name
                         THEN ResolveGoto(f, i, to) ELSE f,
           fc, Gotos(fc))

CheckUnresolvedGoto(fc) ==
  IF \E i \in {Gotos(fc)[j] : j \in DOMAIN Gotos(fc)} : fc.gotos[i].open
  THEN raiseCompileError(fc, "no visible label") ELSE fc

AddNamedLabel(fc, to) ==
  LET f == IF \E l \in Block(fc).labels : l.name = to.name
           THEN raiseCompileError(fc, "label already defined")
           ELSE [fc EXCEPT !.blocks[Top(fc)].labels = @ \cup {to}]
  IN  SetLabelPc(f, to.id, to.pc)

-----------------------------------------------------------------------------
(* Entering and leaving blocks. *)

EnterBlock(fc, breakLabel) ==
  [fc EXCEPT !.blocks = Append(@, newCodeBlock(fc.regTop, breakLabel, Len(fc.gotos)))]

CloseUpvalues(fc) ==
  IF Block(fc).refUpvalue THEN Add(fc, "CLOSE", LastIndex(fc.blocks[Top(fc) - 1]), 0, 0) ELSE fc

(* The close operations of a block, last variable first. *)
CloseVars(fc) ==
  FoldLeft(LAMBDA f, r : Add(f, "CLOSEVAR", r, 0, 0), fc, Reverse(Block(fc).closeRegs))

LeaveBlock(fc) ==
  LET f == [CloseUpvalues(CloseVars(fc)) EXCEPT !.constVars = @ \ Block(fc).constVars]
      g == ResolveCurrentBlockGotosWithParentBlock(f)
      parents == SubSeq(g.blocks, 1, Top(g) - 1)
  IN  SetRegTop([g EXCEPT !.blocks = parents], LastIndex(parents[Len(parents)]))

-----------------------------------------------------------------------------
(* Finishing a function. *)

(* The distance of a jump whose target is a jump: up to five hops.  Jumps
   before pc have their distance already, where the others have a label. *)
RECURSIVE Hops(_, _, _, _, _)
Hops(fc, pc, inst, distance, count) ==
  IF inst.op # "JMP" \/ count = 5 THEN distance
  ELSE LET d == GetLabelPc(fc, inst.b) - pc
       IN  Hops(fc, pc, fc.code[pc + d + 2], d, count + 1)

(* One step of patchCode, for the instruction at pc; skip is how many
   instructions belong to the closure before them. *)
HighestRegister(inst) ==
  CASE inst.op \in {"SETGLOBAL", "SETUPVAL", "EQ", "LT", "LE", "TEST", "TAILCALL", "RETURN",
                    "FORPREP", "FORLOOP", "TFORLOOP", "SETLIST", "CLOSE", "JMP"} -> 0
  []   inst.op = "CALL" -> inst.a + inst.c - 2
  []   inst.op = "VARARG" -> inst.a + inst.b - 1
  []   inst.op = "SELF" -> inst.a + 1
  []   inst.op = "LOADNIL" -> inst.b
  []   OTHER -> inst.a

PatchStep(p, pc) ==
  LET fc == p.fc
      inst == fc.code[pc + 1]
      distance == Hops(fc, pc, inst, 0, 0)
      jumped == IF inst.op # "JMP" THEN fc
                ELSE IF distance = 0 THEN [fc EXCEPT !.code[pc + 1].op = "NOP"]
                ELSE [fc EXCEPT !.code[pc + 1].b = distance]
      start == pc - p.moven + 1
      moved == IF inst.op # "MOVE" /\ p.moven > 1
               THEN [jumped EXCEPT !.code[start].op = "MOVEN", !.code[start].c = p.moven - 1]
               ELSE jumped
  IN  IF p.skip > 0 THEN [p EXCEPT !.skip = @ - 1]
      ELSE IF inst.op = "CLOSURE"
      THEN [p EXCEPT !.skip = Len(fc.protos[inst.b + 1].upvalues), !.moven = 0]
      ELSE [fc |-> moved, skip |-> 0, moven |-> IF inst.op = "MOVE" THEN p.moven + 1 ELSE 0,
            maxreg |-> intMax(p.maxreg, HighestRegister(inst))]

RECURSIVE PatchFrom(_, _)
PatchFrom(p, pc) == IF pc = Len(p.fc.code) THEN p ELSE PatchFrom(PatchStep(p, pc), pc + 1)

patchCode(fc) ==
  LET start == [fc |-> fc, skip |-> 0, moven |-> 0, maxreg |-> intMax(1, fc.numParameters)]
      p == PatchFrom(start, 0)
      f == IF p.maxreg + 1 > maxRegisters THEN raiseCompileError(p.fc, "register overflow") ELSE p.fc
  IN  [code |-> f.code, constants |-> f.constants, protos |-> f.protos,
       numParameters |-> f.numParameters, isVarArg |-> f.isVarArg, needsArg |-> f.needsArg,
       upvalues |-> f.upvalues, numUsedRegisters |-> p.maxreg + 1, error |-> f.error]
=============================================================================
