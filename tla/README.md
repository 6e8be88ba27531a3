# A verification development of the Lua virtual machine

The repository is a Lua 5.1 virtual machine and compiler written in Go (a
descendant of gopher-lua, with some of the syntax of later versions, channels, an HTTP and
a JSON library, and scripts for an agent).  This directory models the parts of
it whose state is hard to keep right, model-checks them with TLC on small
instances and proves, with TLAPS, theorems about them for every instance.

`vm.go` and `state.go` are generated from `_vm.go` and `_state.go` by inlining;
the models are translated from the generated files, which are what is compiled.

* [The system](#the-system): its components and what makes each correct
* [The modules](#the-modules): how they correspond to the code
* [The runs](#the-runs): what TLC checks, with which bounds
* [The proofs](#the-proofs)
* [Where code and documentation disagree](#where-code-and-documentation-disagree)
* [What is not modelled](#what-is-not-modelled), and [the plan](#the-plan)

## The system

A script is parsed (`parse/`), compiled to function prototypes (`compile.go`)
and run by the main loop (`vm.go`) on an `LState`, the state of one thread of
Lua (`state.go`).  Everything runs on one goroutine except for channels: host
programs may run an `LState` per goroutine and connect them.

| component | state | operations | what is hard |
|---|---|---|---|
| call frame stacks (`state.go`) | `array`, `sp`; or `segments`, `segIdx`, `segSp`, a pool of segments | Push, Pop, Last, At, SetSp, FreeAll, RemoveCallerFrame | a boundary depth has two representations; pooled segments hold stale frames; overflow must be a Lua error |
| registry (`state.go`) | `array`, `top`, the growth options | Push, Pop, Set, SetTop, Insert, FillNil, CopyRange, resize, initCallFrame | growth half way through an operation, overflow half way through starting a function, errors that need room themselves |
| upvalues (`function.go`, `state.go`) | the sorted list `uvcache` of open upvalues | findUpvalue, closeUpvalues, closeAllUpvalues | they must be closed when the variable dies, not before, on every way out of a frame |
| calls and protected calls (`state.go`, `vm.go`) | the stack, `hasErrorFunc`, `Panic`, the Go stack of `PCall`s | call, tail call, return, raiseError, PCall and its two deferred functions | error functions run above the frames that failed and can fail; nesting; Go panics |
| coroutines (`coroutinelib.go`, `vm.go`) | `G.CurrentThread`, `Parent`, `Dead`, the Go stack of main loops | create, wrap, resume, yield, status | the interpreter's account of who runs is kept apart from the Go stack that decides it |
| tables (`table.go`, `tablelib.go`) | `array`, `strdict` and `dict`, `keys`, `k2i` | RawSet and its kin, Append, Insert, Remove, Len, Next | nils inside and at the end of the array, traversal while the table changes, two indices that must agree |
| instructions and arithmetic (`vm.go`) | registers, open upvalues, `reg.top` | one function per opcode | where values end when their number is open; metamethods; integer division by what truncates to zero |
| compiler (`compile.go`) | blocks, registers, labels, jumps to patch | one function per construct | registers of expressions that are stored without a move, conditions that also are values, jumps patched in place, `<close>` and `<const>` scopes, goto, flushing of table constructors |
| channels and contexts (`channellib.go`, `vm.go`) | Go channels, the context of a thread | make, send, receive, select, close, SetContext, RemoveContext | goroutines, cancellation while waiting, closing twice |
| require and loaders (`baselib.go`, `loadlib.go`) | `package.loaded` with a sentinel | require | loops, loaders that fail |
| io library (`iolib.go`) | two buffers, file positions, closed flags, processes | open, read, lines, write, seek, setvbuf, flush, close, popen | what is buffered when the file position or the buffer changes; waiting for a process |
| http library (`httplib.go`) | the stack seen by a callback | stream | a callback per chunk on one stack |
| string patterns (`pm/pm.go`, `stringlib.go`) | instructions, captures, Go's recursion | Find, and find, match, gsub, gmatch | backtracking with captures, empty matches |
| lexer and parser (`parse/`) | generated tables | | |
| lifecycle (`state.go`) | stop flag, watching goroutine | SetMx, Close | closing twice, the watcher's race with it |
| agent scripts (`lua/`) | the message history | a loop over tool calls | |

How they interact: an instruction works on registers of the current frame; a
call pushes a frame and prepares registers (`initCallFrame`), either of which
can overflow and raise; an error closes upvalues, travels up the Go stack as a
panic and is caught by a `PCall`, which unwinds frames and registers, or by the
`recover` of `threadRun`, which turns it into the result of a resume.  A resume
is a Go call of `threadRun` for another `LState`.  A loop over a table calls
`next`, which works on the table's list of keys while the body changes it.
Instructions never check what they are given: they rely on the compiler for
every register, jump and upvalue, which is why the two are modelled together.
States in goroutines of their own share nothing but channels and the tables
without metatables that they send; a context stops them from outside.

The correctness of each modelled component is stated in the section about its
module; `PROJECT.json` lists, under "hazards", every hazard that was met, with
its line, also those of components that are not modelled.

## The modules

    CallFrameStack  <--implements--  FixedCallFrameStack          (+ ...Proofs)
                    <--implements--  AutoGrowingCallFrameStack    (+ ...Proofs)
    RegisterFile    <--compared----  Registry  <--  MCRegistry    (+ RegistryProofs)
    LuaTable        <--implements--  LTable  <--  TableTraversal  (+ LTableProofs)
    ProtectedCalls                                                (+ ProtectedCallsProofs)
    Coroutines                                                    (+ CoroutinesProofs)
    Syntax  <--  FuncContext  <--  Compiler  <--  Machine  <--  MCPrograms
            <--  LuaSemantics              <--compared----
    Channels  <--  MCChannels                                     (+ ChannelsProofs)
    TextFile        <--implements--  IoFile                       (+ LibraryProofs)
    PatternCompiler, PatternMachine, PatternMeaning  <--  MCPatterns
    PatternMachine  <--  PatternWays                              (+ LibraryProofs)

Operators have the names of the functions they model; the ghost variables,
which no code has, are marked in the declarations.  Definitions whose names
begin with "Mutant" are not part of any specification: each is another
definition with a plausible bug, and the property named with it in
`PROJECT.json` is violated when it takes that definition's place.

### CallFrameStack, FixedCallFrameStack, AutoGrowingCallFrameStack

`CallFrameStack` is what the interpreter expects: a bounded sequence of frames
with Push, Pop, SetSp, RemoveCaller and FreeAll.  The two implementations are
translated from `fixedCallFrameStack` and `autoGrowingCallFrameStack`.  A frame
is its function (`Fn`), `Idx` and `Parent`; its registers are in other modules.
In the segmented stack a segment from the pool holds `Stale` frames, because
`newCallFrameStackSegment` does not clear what the last user left.  The
interpreter's use of the stack is part of the actions: `pushCallFrame` asks
`IsFull` first, `RemoveCallerFrame` copies the frame, its Idx and Parent, and
pops.  `Spec` of the segmented stack allows every unwinding; `SpecPopped`
excludes one step, SetSp to the present depth when the last segment is exactly
full, which loses frames (see the divergences).  What remains after it is still
a well-formed stack, but not the one the interpreter asked for.

Correct means: live frames are linked (`Idx` is the depth, `Parent` the frame
below) and never stale; `Last` and `At` agree in both representations of a
boundary depth; exactly the segments in use are allocated; a call that finds
the stack full ends in the Lua error; every step is a step of the bounded stack,
and the step of the same name (`OperationsMatch`, which implementing alone does
not say: a pop that acted like an unwinding would implement the stack as well).

### RegisterFile, Registry, MCRegistry

`RegisterFile` is what instructions believe: a row of registers, each with a
value.  `Registry` is the array with its top.  A slot that nothing was stored in
is `Unset`, a nil interface that the virtual machine cannot handle.  The row is
carried along as the ghost `regs`.  `EnterLua` is `initCallFrame` with all its
cases; its steps, each of which may have to grow the array, are a sequence of
transformations, so that an overflow in step k (`EnterLuaFails`) leaves exactly
what steps 1 to k - 1 have done.  `raiseError` gives a full registry one more
slot for its message, as `forceResize` does, even beyond `RegistryMaxSize`.

Preconditions of the callers that the module relies on: `Set` is used at most
one register above the top, since the compiler gives registers out in order;
the ranges that `CopyRange` reads and writes do not overlap in the direction
that would read a written slot.

### ProtectedCalls

One thread's frames, its list of open upvalues and the nesting of `PCall`s.  A
frame is the kind of its function and has a fixed window of `Locals` registers,
so an upvalue is identified by its register.  What travels up the Go stack is
`raising`: an `ApiError`, one with the registry left full, or another Go panic.
`pcalls` are the activations of `PCall` on the Go stack with the Go locals they
restore from.  `PCall` sets flags and pushes a frame in one action; its two
deferred functions are the disjuncts of `Recover`.  Two ghosts say how the
sharing of a variable between its frame and closures can be broken: `detached`
(closed while the variable lives) and `orphans` (open while it is gone); the
ghost `raised` says which kinds of error have occurred, those that close
upvalues and those that keep them, since after these the code does break it.

`Call` covers OP_CALL and `L.Call`; a Go function that OP_TAILCALL calls has a
frame above that of the Lua function ("gotail"), which `RemoveCallerFrame` takes
away when it returns.  The program chooses freely among calls, returns,
captures, ends of blocks and errors.

### Coroutines

`stack` is the Go stack of main loops, which decides what runs; `CurrentThread`,
`Parent` and `Dead` are the interpreter's account.  `coResume` refuses, runs the
thread, calls a Go body, meets a thread without a frame (a Go panic) or enters a
thread that is active already; each is an action.  `Yield` distinguishes the
yield that ends `threadRun` from one under `pcall`, where only the inner main
loop ends.  The body of a coroutine may be a Go function, which returns, fails or
yields at once; one that calls Lua functions is not modelled.  `Escape` is the
recover of `threadRun`.  The constant `Habits` says
what programs do: let errors escape a wrapped coroutine, yield under `pcall`,
resume a coroutine that is resuming.  With none of them a program is called
disciplined.  After an active thread was resumed again two Go activations share
its frames; the module stops there (`control` is "entangled").

### LuaTable, LTable, TableTraversal

`LuaTable` is a function from keys to values.  `LTable` has the array part, the
hash part (`strdict` and `dict` in one function, as no operation treats keys in
both), the list `keys` and its index `k2i`.  Keys are names, integers up to
`MaxArrayIndex` and beyond; what nil means in the array, padding, trailing nils
and the migration by append are modelled as in the code.  `TableTraversal` adds a
`pairs` loop: `next` from the cursor, while the body assigns to existing fields.

The number `MaxArrayIndex` is a parameter of the model (67108864 in the code).
`Append` has no limit there, and beyond it Append and RawGet disagree: the
properties are stated below the limit, with `ArrayBound` bounding the array.  An
array that was never allocated is an empty one here; only `Next` tells them apart,
and only when asked for what follows an integer key that was never in the table.

### Syntax, FuncContext, Compiler, Machine, LuaSemantics, MCPrograms

`Syntax` has the trees of `ast/`, `FuncContext` the state of the compiler:
blocks with their names, the registers in use, the code so far, labels, gotos
and constants; its operators are the methods of `codeStore`, `codeBlock`,
`varNamePool` and `funcContext`, and `patchCode`.  `Compiler` has one operator
for each `compile...` function.  A function that appends code to its context
gives the new context, so a compilation is one value.  `Machine` has one action
for each instruction, on the registers of the thread with `reg.top`, where an
instruction that takes or leaves an open number of values finds or puts their
end.  A metamethod runs in a main loop of its own: a frame says what becomes of
its results.  Jumps have distances, upvalues are open or closed, constructors
are flushed in batches, all as in the code.

`LuaSemantics` knows none of this: it evaluates trees with a cell for each
variable, from left to right.  `MCPrograms` has the programs and the property
that relates both: what a program shows (`emit`), returns and raises is what it
means.  The compiler and the evaluator are recursive, so that these modules hold
no theorem; they reach TLC through the constants `CodeOf` and `MeaningOf`, which
make it evaluate each of them once for a program.

Correct means: whatever instructions a tree becomes, running them does what the
tree says; an open upvalue refers to a register of a frame that exists; a
program halts when its meaning does.

Numbers are integers, whose bits are those of `IntBits` bits, more than the sample
needs: quotients and powers in it are whole, and only numbers that are not negative are shifted to the right,
as the code shifts their sign in where Lua 5.3 has zeros.

Left out: line numbers and debug names, the growth of registers (Registry), the
limits of frames (the call frame stacks), coroutines (Coroutines), errors caught
by `pcall` (ProtectedCalls), strings that stand for numbers and the metatable of
strings, which the string library gives them.

### Channels, MCChannels

Each state of `State` is a goroutine with a main thread and one coroutine, in
which the host runs one script after the other.  Go's channels, `reflect.Select`
and contexts are external: which of the goroutines that wait is served is left
open, and what the runtime did for a state is the ghost `happened`.  A call of the
library is in steps: it gathers its cases (`selectCases`, `receiveCases`), waits,
meets a partner, a closed channel or the context, and makes its answer; the
handler of a select runs in the main loop and may be cancelled too.
`Interrupted` is the look that `mainLoopWithContext` takes before each
instruction; a coroutine that was created before SetContext has the main loop
without it.

Correct means: a script that is told "no value" by receive or select and goes on
was not cancelled (CancelNotClosed); the handler that runs and the values it gets
are those of the case that took place (AnswerIsOfCase);
a cancelled script comes back to its host (CancelEnds), unless it waits in a
`send`, which does not look at the context, or runs a coroutine older than it.

### TextFile, IoFile

`TextFile` is a file as a program sees it: a text, and handles with positions.
`IoFile` has the file of the system, and for each handle the offset of its
`os.File`, the `bufio.Reader` with what was read ahead, and the `bufio.Writer`
with what is held back.  Reading gives bytes, a line or the rest, and reads
ahead any number of bytes up to the reader's size; writing spills as a
`bufio.Writer` does.  A line ends in a newline, or in a carriage return and a
newline, which `bufio.ReadLine` drops together on every system; the iterators of
lines give no more than the reader has room for, and put a carriage return back
that the room ends in (`ReadLine`).  The refinement puts a handle behind its offset by what was
read ahead, or before it by what is held back, and the text is the disk with
what is held back written to it.  `Habits` says what programs do that the
buffers do not bear: writing where a handle has read ahead, and moving or
changing the buffer while it holds something back.  `process` is the one of
`popen`, whose child ends by itself, writes for as long as someone reads, or
reads until its input ends.

Correct means: behind its buffers a file is a text written where its handle is,
whatever is read, flushed, abandoned or closed (IsTextFile); what a read gives is
what stands there, and seeking from where one is starts there (ReadsTheText);
closing a process that is read from returns (CloseReturns).

### PatternCompiler, PatternMachine, PatternMeaning, PatternWays, MCPatterns

`PatternCompiler` is `parsePattern` and `compilePattern`: from a text, a sequence
of one-letter strings, to instructions.  `PatternMachine` has one action for
each instruction of `recursiveVM`; Go's recursion, which is how it goes back to
the last choice and restores a capture, is the variable `stack`.  `Find` tries
from each place, and `strFind`, `strMatch`, `strGsub`, `strGmatch` and its
iterator make what Lua gets.  `PatternMeaning` says what an *item* means (a class
with a least and a greatest number of repetitions, a capture, a reference, a
balanced text) and takes the first choice with which the rest succeeds.
`MCPatterns` has pieces, each a text with the item it stands for, and puts
patterns together from them: parser, compiler, machine and library function are
all compared at once (MatchesAsMeant), and each call ends (CallsEnd).
`recursiveVM` indexes the instructions, the subject and the captures without a
look; MachineInside says that it may.

`PatternWays` says what a program means without the machine's stack, for the
proofs.  A *game* is a program and its text, a *square* a place in it: the next
instruction, the position, and what the slots hold.  `Follows` gives where an
instruction leads, a choice to two squares in the order of preference; `Ways` are
the ways from a square to a match, and of these `Ends` follows the one that takes
the first branch wherever a match can be reached by it.  Slots of position
captures are no part of a square (`TextSlots`): `recursiveVM` does not restore
them, and no instruction but `%n` reads a slot.  A program in which `%n` refers to
a position is left out by the hypothesis `RefersToText`; what it does is up to
whatever was left in the slot.

## The runs

All bounds are constants in the .cfg files.

| run | shows | bounds, and why they are enough |
|---|---|---|
| FixedStack | the fixed stack is a bounded stack of linked frames; overflow is a Lua error | 4 frames, 2 functions: full, empty and each depth between |
| AutoStack | the same of the segmented stack, without the frame-dropping unwinding, in both representations of a boundary | depth 7 with segments of 3: two boundaries and a last segment that is not full size; 2 functions to tell a frame from a stale one |
| CoDisciplined | for disciplined programs the account of who runs is true | 3 coroutines, one of them wrapped, 4 nested resumes: a chain of all of them over the main thread |
| CoAnyProgram | a dead thread is never resumed, for all habits | 4 coroutines: two with Lua bodies and two with Go bodies, one of each wrapped; 4 nested resumes |
| Tables | an LTable is a Lua table; `pairs` over it is complete and ends | MaxArrayIndex 4, arrays to 3, far keys on both sides of the array's keys, a name, two values: nils inside and at the end of the array, migration of a key from list to array order, keys deleted and assigned again |
| Calls | upvalues and PCalls through all nestings of calls, tail calls, errors and error functions; only an error for which an error function waits keeps upvalues open | 4 frames of 2 locals: a PCall in a function that a PCall has called, an error function above a frame that failed, stack overflow while one is started, and two captured variables in a frame |
| Registry | the slots below the top are the registers through growth and overflow | 2 slots growing by 1 to 4, one error on a full registry; a fixed, a vararg and an arg function: every step of starting a function can be the one that overflows, and a resize is capped as well as padded |
| Programs | compiled and run, more than five thousand programs do what their trees mean, and halt | see below |
| CloseSkipped (violated) | leaving a block by break, return or with its loop skips its close operations | three programs |
| Channels | what scripts are told is what happened; cancelled scripts end | two goroutines, a channel without and one with a buffer for one value, selects with each kind of table first and last, a value that cannot be sent; three instructions and one pcall in one of the states, a coroutine that is older or younger than the context: each pair of waiting calls meets, or is closed or cancelled instead |
| Files | a file behind its buffers is a text, and what a read gives is what stands there; a close returns | two handles, one of which writes; a file of three bytes, each a newline, a carriage return or neither; readers of two bytes and a writer of one: a read within the buffer, at its end and beyond, a line longer than the reader, a carriage return at the end of the reader with the newline behind it, a write that fills, spills and goes around the buffer, seeks before, in and behind the text |
| Patterns | find, match, gsub and gmatch give what patterns mean, stay inside the program and the subject, and end | 18 pieces in sequences of up to nine, with captures, nested ones and references, anchored at either end or both, on five strings of up to four characters: repetitions that take all, some or nothing, captures that are set on branches that fail, empty matches between and behind others |

**The programs of the run Programs** are every combination of a few expressions
or statements in each context that the compiler treats in a way of its own:
conditions (12 atoms under two levels of `and` and `or`) as a branch, a value, an
argument, a result, a field, a loop's end; assignments of each kind of value to
each pair of targets, in a vararg function with an upvalue; parameters; lists of
expressions, cut or open, in each place where there is a list; constructors
around the batch size; loops of each kind, with pairs of statements that capture,
change, leave and continue; jumps over each length; tail calls; operators with
and without metamethods; attributes, scopes, labels and what is rejected.
`FieldsPerFlush` is 3 instead of 50, so that constructors of up to seven fields
reach the second and third batch.  `maxRegisters` is the code's 200.  Three predicates
take out of the sample what the code is known to get wrong, each with its
reason in a comment: `InPlace`, `Miscounted` and `BadBatch`; so does not sampling
what `LocalTargets`, `LeavingBlocks` and `CloseSkipped` hold.  Replacing the
programs of `Programs.cfg` by one of these (`Programs <- LocalTargets`) shows
what goes wrong.

The run Patterns leaves out what Lua gives no meaning: ranges of classes, `^` in
gmatch, gsub with a limit below 1, and references to an enclosing capture or to a
position, which are Go panics (the machine answers "panic" there, which no
meaning allows).

Deadlock is checked where the system cannot stop.  It is not in AutoStack (after
FreeAll the thread is over), in Tables (a loop that is done), in Calls (an
error that passed the last PCall has left the module), in CoAnyProgram (two
activations that share frames, where the module stops), in Channels (goroutines
that wait for each other, or have executed all their instructions), in Files (a
process whose close never returns) and in Programs and Patterns (a program or
call that is done).

**Fairness.**

* `TableTraversal`: weak fairness of `Step`.  The next step of a `pairs` loop is
  made by the loop itself: after its body, the main loop executes OP_TFORLOOP,
  which calls `next`.  Nothing is assumed of `Assign`, which may happen any number
  of times between two steps as long as the body ends.
* `Machine` and `PatternMachine`: weak fairness of the next-state relation.  Both are a Go loop
  that executes one instruction after the other and that nothing else interrupts.
* `Channels`: weak fairness of what a goroutine does by itself (`Run`), for each
  state: Go's scheduler runs every goroutine that can run.  A goroutine that
  waits for a channel can run when its context is done, if that is among its
  cases.  Nothing is assumed of the host, which need neither cancel nor start
  scripts, nor of which of several partners is served.
* `IoFile`: weak fairness of `ChildExits` and `Waited`: the operating system runs
  the child, and tells who waits for it.  Whether the child ends is up to its kind.

## The proofs

Every theorem holds for every value of the constants that the named
assumptions of the modules allow; TLC evaluates these on the runs' constants.

* **FixedCallFrameStackProofs.**  `Inv` (type, linked frames) is inductive.  It
  gives FramesLinked and OverflowIsLuaError; with it each operation maps to the
  one of its name of the bounded stack (OperationsMatch), hence the refinement.
* **AutoGrowingCallFrameStackProofs.**  `FramesLinked` talks of depths and the
  code of segments and slots; the inductive invariant `IInv` states linking by
  segment and slot (`SlotsLinked`) together with SegmentsAllocated, and lemmas
  about division connect both.  Type correctness, SegmentsAllocated,
  FramesLinked, LastIsTopFrame and OperationsMatch are proved of `Spec`, with
  every unwinding; the refinement of `SpecPopped`.
* **RegistryProofs.**  The inductive invariant is `Inv`: the slots below the top
  are the ghost's registers (`Represents`), the array stays within its bounds,
  and a refused size is beyond what the options allow.  `Represents` is stated
  of any array, top and row, so that each transformation of the registry (Push,
  Set, Insert, FillNil, CopyRange and the steps of `initCallFrame`) has one
  lemma; an overflow in step k of `EnterLua` leaves what steps 1 to k - 1 made,
  of which that lemma speaks.  It gives type correctness, HoldsRegisters
  and LimitMetExactly, without further assumptions.
* **LTableProofs.**  KeysIndexed is inductive with the type invariant.  For the
  refinement the array must stay below the limit (`Small`, preserved while
  `AppendsBelow`, which is `ArrayBound < MaxArrayIndex`).  The lemmas on
  InsertAt, RemoveAt and SelectLastInSeq state once what these functions do to a
  sequence; that a last element that is not nil exists is shown from the
  well-foundedness of < on Nat.

  For the `pairs` loop, `Place` orders keys as `Next` visits them: the array by
  index, then the list by `k2i`.  `Walk` says that all keys the loop was given
  are at or before the cursor, and that of those owed to it none at or before
  the cursor is missing.  It is inductive because assigning to a field that has
  a value moves no key (`AssignMovesNothing`), which is what KeysIndexed is
  needed for.  It gives NeverTwice and LoopComplete under `AppendsBelow`; and
  since the loop's steps are a table's (LoopUsesTable), the other theorems hold
  of the specification that the run Tables checks.
* **CoroutinesProofs.**  Three inductive invariants, each adding to the one
  before: of all programs (Main is at the bottom and never resumed), of programs
  that resume no active coroutine and do not yield under pcall (every
  coroutine's Parent is the activation below, and each is active once), and of
  disciplined ones (the account is true).  The last is needed as a whole:
  CurrentIsRunning is not preserved by a yield unless ParentIsResumer holds, and
  that not unless a suspended coroutine has no parent.  ErrorStopsAtResume follows
  from the second (the programs called `Untangled`): a thread other than Main has
  a parent, so the recover of `threadRun` has one to give the error to.
* **ProtectedCallsProofs.**  Of the stack:  `StackInv` places the PCalls among the frames
  (`PCallPlaced`, `Placed`): each on a Go function's frame or the host, above all
  earlier ones, each knowing its caller's panic function; running code is above
  the last of them (`CodeAbove`).  A Go function that was tail-called is never the
  one a PCall called, without which RemoveCallerFrame could take away the frame
  that PCall returns to.  It gives PCallsNested and PanicOfPCall.
  That the flag `hasErrorFunc` is up only while an error function waits below
  (`ErrorFuncExpected`) is part of it.

  Of upvalues: `UpvalueInv` adds that the list is sorted and exact.
  `WalkFacts` says where a walk along the list stops (it exists because < is
  well-founded on Nat), `CloseFacts` and `FindFacts` what cutting and inserting
  there do.  It gives type correctness, OpenListed and SharedUntilError.

  NoDangling is not inductive: that no open upvalue is an
  orphan now says nothing of the frames that return next.  `CleanInv` gives each
  open upvalue an owner (`Owned`), a Lua frame that has not tail-called; an error
  has closed all of them before it reaches a PCall; and while an error function
  runs none is older than it (`HandlersAbove`), as its PCall cuts the stack
  further down than the frames it ran above.  It gives NoDangling, as long as no
  error kept upvalues open, a condition that is needed (see below).

  KeptForErrorFunc speaks of the errors that do keep them.  `LiveInv`, that an open
  upvalue which is no orphan belongs to a frame that exists, makes an error that
  closes all upvalues leave none of these open; so one that leaves some found the
  flag up, and StackInv gives the error function that waits.
* **ChannelsProofs.**  The inductive invariant is local to each state (`Local`),
  as states share only channels: what Select returned is about the case that
  took place (`Matches`); the tables of a select come before the context's case
  (`TablesFirst`, what `TableCount` relies on after the wait); an answer keeps
  being about that case until the script goes on (`Told`); a context that ended a
  wait stays done; and nothing of a call is left when the host gets control,
  which is when it may change the context.  The last two are what CancelNotClosed
  needs: without them SetContext could hide that the context was done.  It gives
  type correctness, CancelNotClosed and AnswerIsOfCase, for any number of
  states and channels, every capacity and lists of tables of any length.
* **LibraryProofs**, patterns.  The machine goes back by its stack, and restores
  captures as it does; the theorems say that this finds what choosing means, for
  every program whose instructions lead to others of it (`IsProgram` in
  `CallsAssumption`, which TLC evaluates on what the compiler makes of the
  patterns of the run), every subject, offset and limit.

  `PatternInv` says that what the machine holds fits the program (`Fits`), and
  that an attempt is *on course* (`OnCourse`): the first of the places at hand -
  the one the machine is at, then the choices on the stack from the top, each with
  the captures as they will be when all entries above it have been undone
  (`SavedAt`) - from which a match can be reached leads where the beginning of the
  attempt leads, and if a match could be reached from there it still can.  It is
  needed of all places at once: that a choice is tried with its own captures
  follows only from the entries of save above it.  `AcceptsThrough`, `Fork` and
  their kin say what the first step of a way does to ways, `UndoAppended` and
  `SavePushed` that an entry of save changes nothing for the choices below it; each
  instruction then has a lemma by which it keeps the attempt on its course.  It
  gives MachineInside and `AttemptDecides`, which holds of each step that ends an
  attempt: where it ends is an end that choosing allows, and the only one
  (`OnlyEnd`, from the lemma PreferredEndIsOne).  `ScanInv` adds that the attempts of Find go on where the last match
  ended, or one further, and have left none out; its witness is the sequence of
  what was found with the place of each attempt, which the code does not keep.  It
  gives `FoundAsMeant`.  TLC cannot enumerate ways, so these two are no properties
  of a run: the run compares the machine with another definition of matching.

  Nothing is said of whether an attempt ends (CallsEnd), nor of the compiler.
* **LibraryProofs**, files.  Of programs that do only what the buffers bear (`Bearable`,
  which is `Habits = {}`, as in the run; with a habit the refinement fails, see
  below).  `Inv` says that one handle at most writes (`OneWriter`), that a handle
  holds something back or has read ahead but not both, and that its offset is not
  before what it has read ahead.  Then the text is the disk with what the one
  writer holds back written over it (`WholeFacts`), and that writing one piece
  after another is writing them at once (`OverOver`) makes it not matter how a
  `bufio.Writer` splits what it gets.  Each operation has a lemma that gives `Right`:
  the invariant again, a step of TextFile or none, and a true answer.  It gives the
  refinement (FilesAreTexts) and ReadsTheText.  A read is shown to be a step
  of TextFile as a move of its handle; how far it moves and what it returns is in
  ReadsTheText, which says of a line how it ends and where the next one begins;
  that a carriage return that was put back is still in front of the handle is the
  case `ReadLine` adds.

**Only model-checked.**  RunsAsMeant and OpenUpvaluesLive (Programs) and
MatchesAsMeant (Patterns): the compiler, the evaluator, the pattern compiler and
the definition of matching are RECURSIVE operators, with which the prover cannot
work, and what they compute for every tree or pattern needs induction over data,
whose theorems take operators as parameters.  Of the patterns the machine and Find
are proved right for every program, and what remains is the compiler and what the
library functions make of the matches.  No other module uses RECURSIVE:
recursion in the code is a CHOOSE, a quantifier or a function of the community
modules there.  LoopEnds, Halts, CancelEnds, CloseReturns and CallsEnd are
liveness properties, which are out of the prover's reach like everything about
ENABLED.  All other properties of the runs are theorems.

## Where code and documentation disagree

The run CloseSkipped ends in a violation; "findings" in `PROJECT.json` quotes what
the README of the repository and a comment of the compiler say of `<close>`.

Met while modelling, without a run of their own.  Those of the first list can be
seen with TLC by checking the definition that is named:

* `IsFull` of the segmented stack is never true (state.go:265), so deep recursion
  with MinimizeStackMemory is a Go panic: AutoGrowingCallFrameStack's
  OverflowIsLuaError is violated.
* `SetSp(Sp())` drops a full last segment (state.go:312): UnwindKeepsFrames of that
  module is violated under its `Spec`.
* A wrapped coroutine that failed can be called again (vm.go:281):
  EndedRefusedAsDead of Coroutines is violated with the habit "wrapped_error", and
  so are CurrentIsRunning, StatusIsTrue and EndedNeverRuns.  "yield_in_pcall"
  violates ParentIsResumer and ErrorStopsAtResume as well, "resume_active"
  ParentIsResumer alone.
* A PCall without an error function in the body of one that has one finds
  `hasErrorFunc` up (state.go:2035): an error keeps upvalues open for a function
  that will not run for it.  KeptForHandler of ProtectedCalls is violated.
* A carriage return before a newline is no part of a line for `bufio.ReadLine`
  (utils.go:208, iolib.go:471, 584), where in C only the newline is dropped:
  OnlyNewlinesDropped of IoFile is violated.
* Upvalues stay open when an error is raised under an error function, or by a Go
  panic (state.go:736): NeverDangling of ProtectedCalls is violated.
* The push of the error function on a full registry raises out of PCall
  (state.go:2054): NoPanicPastPCall of ProtectedCalls is violated.
* Assignments and constructors (`Programs <- LocalTargets`): `x, z = z, x` with two
  local variables, and `x, t[1] = 5, x`, read a value that has been overwritten
  (compile.go:731); `x = g and 5` leaves `x` as it was when `g` is nil
  (compile.go:1806); `x, h = ..., 5` cuts off the registers above `x`;
  `h, t[1] = 5, x` gives `h` another value (compile.go:839); `y = (f(y))`, with `y`
  the last parameter, makes the call in its register (compile.go:1821);
  `{x, k = f()}` has one element more, and a call after exactly FieldsPerFlush
  fields overwrites one (compile.go:1506); `global a, b = f()` gives the names other
  values.  The test `_lua5.1-tests/attrib.lua:334`, of a multiple assignment, is
  commented out.
* Blocks and jumps (`Programs <- LeavingBlocks`): `break` closes the upvalues of the
  loop's block only, not of the blocks inside that it leaves (compile.go:1106);
  every `goto` closes from register 0 on (compile.go:1219); a jump back to a jump
  whose distance has been filled in already takes that for a label
  (compile.go:1972).
* Files with a habit: a write where a handle has read ahead is put behind what
  was read ahead ("writes_after_reading"); seeking, reading or `setvbuf` while
  text is held back lets it appear elsewhere or never ("moves_unflushed").

And these are told by the modules' comments and guards:

* state.go:99-100 calls RegistryMaxSize the maximum size of the registry; each
  error that finds the registry full grows it by one slot beyond
  (LimitMetExactly states the bound that holds).
* `RawGetInt` and `RawSetInt` disagree about integer keys from MaxArrayIndex on,
  and `Append` has no limit (LengthIsBorderBelowLimit is limited accordingly).
* `table.remove(t)` removes the last slot of the array, which can be a padded nil.
* `coroutine.running` is stale after an error in a wrapped coroutine and after a
  yield under pcall (the habits that CoDisciplined excludes); a coroutine with a
  Go body is never marked dead when it returns.
* `>>` of a negative number shifts its sign in (vm.go:2404), and `__close` is found
  through `__index` (vm.go:2287), where later versions of Lua shift zeros and look
  in the metatable itself.
* closeAllUpvalues separates the variables of frames that survive the error from
  their closures (SharedUntilError says until when they are shared).
* A constant is known by its name: an inner variable with the name of a constant
  cannot be assigned to, and the end of an inner constant's block makes the outer
  one assignable (compile.go:595, 1928).  A generic `for` with fewer than three
  expressions leaves registers as they were.
* A `send` does not look at the context, so that a cancelled sender waits on; a
  coroutine older than the context is not stopped; `receive` answers alike for a
  channel that is closed and a context that is done, and a value that is received
  as the context ends is lost with the script.
* Closing a process that is written to waits for a child that waits for the end
  of its input (iolib.go:282); `setvbuf("no")` on a process stores no writer; the
  iterators of lines split lines longer than the reader's buffer; `io.output`
  with a name does not truncate.
* `string.match` returns nothing instead of nil; `gsub` with a limit of 0 replaces
  like one without, if the first place matches; a `gmatch` iterator that is called
  after its end, a plain `find` from behind the end, and a reference to the
  capture that it stands in or to a position are Go panics; `%a-z` in a set
  matches nothing.

## What is not modelled

In the modelled parts: error messages, levels and tracebacks, the boxing of
numbers (`alloc.go`), debug.upvaluejoin; of the tables MaxN, ForEach, sort and
concat; of the coroutines the values that resumes and yields pass on, Go bodies that call
Lua functions and the Go API `LState.Resume`; of the instructions division by zero, strings as numbers and
hooks; of the io library numbers, temporary files, and errors of the operating
system, among them the file that is marked closed before its last buffer is
flushed (iolib.go:261); of the patterns the limit on recursion and functions as
replacements.

Not modelled at all: `require`, the http library, the life cycle of a state, the
agent's scripts; the lexer and parser (generated for the most part); the
libraries of conversions and wrappers (string formatting, math, os, debug, json)
and the interpreter command, which have little state of their own or are pure
input and output.

## The plan

In order of importance:

1. Proofs: of IoFile without `Bearable`, which of the two properties survives
   which habit.
2. `Require`: the sentinel in package.loaded with failing and recursive loaders.
3. `HttpStream`, the life cycle of a state (SetMx, Close), the agent's loop.
4. Coroutines and errors in `Machine`, which composes it with ProtectedCalls and
   Coroutines.
