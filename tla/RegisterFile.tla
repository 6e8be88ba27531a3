----------------------------- MODULE RegisterFile -----------------------------
(***************************************************************************)
(* What the registry is to the interpreter: a row of registers that each   *)
(* hold a value.  That it is kept in an array that grows, with unused      *)
(* slots beyond the top, is not seen.  Registers are numbered from 1 and   *)
(* bounds count the registers below, so that bound n lies between the      *)
(* registers n and n + 1.                                                  *)
(***************************************************************************)
EXTENDS Integers, Sequences

CONSTANTS
  LNil,     \* nil
  ArgTable, \* the table that a function with an arg parameter is given
  Message   \* the message of an error

VARIABLE regs

Init == regs = << >>

Nils(n) == [i \in 1 .. n |-> LNil]
Lower(n) == SubSeq(regs, 1, n)
AtLeast(m, n) == IF m < n THEN n ELSE m

Push(v) == regs' = Append(regs, v)

Pop == regs' = Lower(Len(regs) - 1)

(* Registers are given up, or begin their life as nil. *)
SetTop(n) ==
  regs' = IF n <= Len(regs) THEN Lower(n) ELSE regs \o Nils(n - Len(regs))

Set(r, v) ==
  regs' = IF r <= Len(regs) THEN [regs EXCEPT ![r] = v] ELSE Append(regs, v)

Insert(v, r) == regs' = Lower(r - 1) \o <<v>> \o SubSeq(regs, r, Len(regs))

FillNil(m, n) == regs' = Lower(m) \o Nils(n)

(* The n registers from start on, nil from limit on, become those from to on,
   and everything above them is given up. *)
Move(to, start, limit, n) ==
  regs' = Lower(to) \o [i \in 1 .. n |-> IF start + i <= limit THEN regs[start + i] ELSE LNil]

(* A Lua function starts with nargs arguments above lb: its parameters are
   the arguments, missing ones nil, and its other registers are nil, but for
   the table of the extra arguments.  A vararg function keeps its arguments
   below that, the parameters' places among them nil. *)
Kept(f, nargs) == IF f.vararg = "no" THEN 0 ELSE AtLeast(nargs, f.params)

Entered(f, lb, nargs) ==
  LET kept == Kept(f, nargs)
      arg(i) == IF i <= nargs THEN regs[lb + i] ELSE LNil
  IN  Lower(lb) \o
        [i \in 1 .. kept + f.used |->
           IF i <= kept THEN IF i <= f.params THEN LNil ELSE arg(i)
           ELSE IF i <= kept + f.params THEN arg(i - kept)
           ELSE IF f.vararg = "arg" /\ i = kept + f.params + 1 THEN ArgTable
           ELSE LNil]

Enter(f, lb, nargs) == regs' = Entered(f, lb, nargs)

(* The registers before each step of starting a function: nothing done,
   missing arguments supplied, parameters moved, table of arguments made. *)
Stage(f, lb, nargs) ==
  LET supplied == IF nargs < f.params
                  THEN Lower(lb + nargs) \o Nils(f.params - nargs) ELSE regs
      moved == lb + Kept(f, nargs) + f.params
  IN  <<regs, supplied,
        SubSeq(Entered(f, lb, nargs), 1, moved),
        SubSeq(Entered(f, lb, nargs), 1, moved + 1)>>

(* An error leaves a row of registers, and its message is pushed. *)
Fail(row) == regs' = Append(row, Message)
=============================================================================
