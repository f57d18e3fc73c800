# ScriptCompiler in TLA+

A verification project for ScriptCompiler: a parser for an assembler-like script
language, an interpreter and a JIT translator for what it produces, and the
libraries under them, a stack and a system of chained exceptions. Paths are
relative to `src/`.

## The system

The program is sequential: one thread parses a script or runs one. What is hard
about it is not interleaving. It is failure (every layer may throw out of the
middle of a command, and the user may choose to go on), state that survives a
failure, undefined behaviour at the edges of the stacks, and a one-pass parser
whose tables depend on the order of the lines.

| Component | State | Operations | Meets the others by |
|---|---|---|---|
| stack library (`Stack/`) | a block (`data`, `currSize`) and a count (`currSize_`) | push, pop, top, At, size, destructor | called by the interpreter; takes exception records |
| exception pool (`Stack/Exception.h`) | records used and left, the log file | take a record, chain it, write the chain | every throw of every component |
| parser (`Builder.h`, `BuilderCases.h`, `Types.h`) | the file's lines, maps of names, scopes (`func_level_`, `die_requests_`), types, the struct being read | one case per command, outside and inside a struct; ResolvePrototypes; Save | writes the program file |
| lexing (`ScriptLine.h`, `CMD.h`, `Argument.h`, `Map.cpp`) | constant tables | split a line, classify a command, an argument | called by the parser |
| program file (`Save`, `ScriptLoader.h`) | tables | save, load, resolve the DLLs | parser to interpreter |
| interpreter (`Compiler.h`, `Functions.h`, `DataHandling.h`, `RegInfo.h`) | line, compare flag, variables, registers, two stacks, dump point, last result | one handler per command; the loop with its catch and its message box | stack library, embedder's functions, DLL functions |
| JIT translator (`Compiler.h`, `Functions.h`, `Jit_Compiler.h`) | code buffer, line offsets, jumps to patch, which outlive a run | translate a line, patch, run | the code calls back the interpreter's handlers |
| instruction encoder (`Instruction.h`, `MCode.h`) | none | encode | called by the translator and by the commands that call a DLL function |
| DLL resolution (`ScriptLoader.h`, `HelpFuncs.cpp`) | addresses found | load, find; emit the parameters of a call | called by the loader and by `jit_call_*` |
| signal handling (`SignalHandling.cpp`) | | dead code: its registration is commented out | |
| programs (`main.cpp`, `compiler.cpp`, `tester.cpp`) | | construct and run | |

What makes each correct:

- stack library: the two counters, kept by two classes, agree at every call
  boundary; a call takes effect or leaves the contents alone; what an overflow
  breaks stays broken.
- interpreter: the call stack and the line counter tell one story; a method works
  on the object it was called on; an exception the user steps over costs a command
  its operands and nothing else; every run ends.
- parser: a name has one meaning; a local is used in its function only and ends
  with it; storage numbers do not collide; what was built has no loose ends; the
  fields of a struct lie apart.
- program file: what is loaded is what was saved, by number.
- JIT: a script translated does what it does interpreted; a handler finds the
  line it was compiled for; jumps land, in a second translation too; the
  processor's stack and the script's tell one story.
- calls of DLL functions: the parameters arrive, and the call comes back.
- exceptions and log: the log tells the whole of a chain and where it came from.
- embedding program: a run does not depend on how the last one ended.

## Modules

```
Words        two's complement at a width
StackOps     the outcomes a call on a stack may have (operators)
  LifoStack      a client calling one such stack: the abstract specification
  StackMem       the three layers of the stack library; implements LifoStack
    StackMemProofs   theorems about StackMem
    MCStack          instance for TLC
  Interpreter    RunScript and the handlers, with two stacks of StackOps
    InterpreterProofs  theorems about Interpreter
    MCInterpreter    programs and instance for TLC
Builder      the parser
  BuilderProofs  theorems about Builder
  MCBuilder      scripts and instance for TLC
Encoder      lengths of instructions, values that instruction sequences leave
  JitCode        the code of a script, and PatchJmp (operators)
  ScriptLines    a script run line by line: the abstract specification of
  Jit            RunScriptJit: translation, patching, the processor
    JitProofs        theorems about JitCode and Jit
    MCJit            scripts and instance for TLC
  ForeignCall    the machine code of one call of a DLL function, and its run
    ForeignCallProofs  theorems about Encoder and ForeignCall
    MCForeignCall    parameters and instance for TLC
ProgramFile  Save and the loader (operators)
  ProgramFileProofs  what Save writes, Load reads
  Session        an embedding program with one processor, the exception pool, the logs
    SessionProofs    theorems about Session
    MCSession        scripts and instance for TLC
SequenceFacts  lemmas on sequences of anything, and induction; used by the proofs
```

**StackOps, LifoStack, StackMem.** `StackOps` says what `stack<T>` promises, as
the set of outcomes of each call: returned, threw (with the number of exception
records the cascade takes) or faulted. `LifoStack` is a state machine over them.
`StackMem` is the code: `DynamicMem` reallocates its block on every push and pop
(`GetMem1`, `FreeMem1`), `Array` counts the elements, `stack` wraps both; each
layer's `ok ()` is the guard of every disjunct. `Store` and `Overflow` are the two
ends of a push: the check of the bound comes after the block has grown, so an
overflow leaves a block one cell too large, and `~ok` for ever. `Narrow` is what
pop does to a value: it reads one byte of it. `Wild` is memory before the block,
which top () of an empty stack reads.

**Interpreter.** A program is what `ScriptLoader_t` holds: lines with a command and
two classified arguments, and the types of the variables. One action per handler;
an action is the whole iteration of the loop in `RunScript`: the argument check
(`Listed`, `BadArguments`), the handler, `CHECK_ERROR`, and the loop's increment.
An exception moves `status` to "asking": the message box, which `Proceed` and
`Refuse` answer. The two stacks are records of `StackOps` and each use takes one of
its outcomes, so the interpreter is built on what the theorem `Implements` proves
of the library. Undefined behaviour is a choice: uninitialised variables
(`Garbage`), memory before the call stack's block (`WildFrames`), what a DLL
function stores or returns (`Foreign`). A struct variable has one cell per scalar
field; nested structs are flattened.

**Builder.** One action per command case, outside and inside a struct, and
`ReachEnd` for `ResolvePrototypes`. The maps keep their names. `Classify` is
`_in_clsf_arg`: the meanings of a name in the order they are tried; `Visible` its
search of the levels; `ManageStructVar` the path through a dotted name. `args_`
holds what `PushData` stores, both arguments, each classified and resolved; the second
has its own shift in `ResolvePrototypes`, which `Misnamed2` describes. A name is a
string and a dotted name a sequence.

**Encoder, JitCode, ScriptLines, Jit.** `JitCode` holds operators on a script `p`: the code `FillJitCompiler` produces is a sequence of
units, pieces only ever entered at their first byte, each with its place and length:
a call of a handler, a jump, a comparison. `Encoder` gives the lengths, which is
what jumps are counted in. In `Jit`, `Translate` is one turn of the loop over the lines:
`LineUnits` the code of a line, `Requests` what `JmpPatchRequestLine` and
`JmpPatchRequestOffset` add to `patch_jmp_`, `func_offsets_` the place of the line
counted from 1, `need_realignment` the correction of `run_line_`. `GiveUp` is a line
that cannot be translated. `Finish` is `PatchJmp`: `Patched` applies the requests in
order, those of earlier translations too, and turns a unit whose other bytes are
overwritten into garbage, which may do anything. Then one action per kind of unit
runs it on registers and a native stack of words. A handler that only works on the
script's own stacks or registers is opaque: its name and its line are seen.

`ScriptLines` is what compiled code should do: one step per line, `ret` resuming
after the call. `was` in `Jit` holds the script's state when its last line began
and is the refinement mapping: `ImplementsLines` says that from the beginning of a
line to that of the next the code does one step of `ScriptLines`. `Differs` lists
the lines that are translated to something else, so they may do anything; it is part of the
statement and a reader should know it: compare of two variables (finding
`jit_cmpr`), of a number with anything, and of a negative narrow variable; mov of
a narrower negative variable, or of one to itself, which clears it; add and sub to
a wider variable; ja and jae before any cmpr; divs, which runs muls; a call of an
embedder's function, which gets its arguments on the stack and leaves them there;
and a function whose ret is the last line.

A C++ exception thrown by a handler cannot pass generated code, which has no
unwind information: the process is terminated (`Terminate`).

**ForeignCall.** `JIT_Call_Void` and `JIT_Call_Value` are the instruction sequences
`jit_call_void` and `jit_call_dword`, `jit_call_qword` emit; each step runs one. `rsp` is
counted from where the code must return. `ParameterLow` and `ParameterHigh` compute
what the sequences of mov, shld and or leave in rcx, rdx and r8, r9. What they show:

- with one to four parameters a call that does not need an aligned stack comes
  back; with none, five or six, or fewer elements than at the dump point, it never
  does; with up to four, rsp is not a multiple of 16 where the function is called;
- of the parameters the low half arrives; r8 and r9 are all ones if the value is
  negative; from the fifth on the loop starts one element too early;
- a call with a result comes back only without parameters: the add of rsp is
  commented out. The result is stored relative to rip.

**ProgramFile, Session.** `Save` and `Load` are the two ends of a file of tokens,
with strings that end at the control character. `Session` composes them with
`VirtualProcessor_t` as `main.cpp` uses it, in any order and any number of times:
`Compile`, `RegFuncs`, `ClearFuncs`, `RunScript`, `RunScriptJit`, each with its
failures, and `Catch`, which logs. A record of the pool has its kind, what it is
about and its cause; `statics` are the static strings messages are built in;
`WriteLog` writes one chain and forgets the one before. A line of a script is only
what it comes to. A string with the control character ends early in the file, and the
loader reads what follows out of place without noticing: if the memory holds it, the
run goes on with lines that are any of `Misread`, some of them `Wild`, which ends the
process. A run that throws leaves its log open; the next `OpenLog` loses the handle
with what is in its buffer (`lost_log`), and `Exit` writes it out over what a later
run has written there. What they show: a throw leaves the instance, the log and
`currentlyExecuting_` as they are, and the next run replaces them; a run without a
log name turns MODE_LOG off for good; compiled runs never open the log, so a line
that cannot be translated under MODE_LOG ends the process; functions of the
embedder are called by the position of their name in the alphabet.

## Runs

| Run | Expectation | Shows |
|---|---|---|
| `stack` | holds | `TypeOK`; `CountsAgree`: the counters agree; `BrokenForever`: an overflow is final; `ImplementsLifo`: refinement |
| `stack_pop` | violated | `PopReturnsTop`: pop returns a byte of the top |
| `interp` | holds | `TypeOK`; `ControlFollowsCalls`: line and call stack agree; `MethodsKeepTheirObject`: the object a method works on; `ThrowsLoseOperands`: what an exception leaves behind; `EventuallyEnds` |
| `interp_ret` | violated | `RetResumesAfterCall`: ret passes over a line |
| `interp_flag` | violated | `UnsetFlagIsAnError`: a conditional jump before any cmpr reports success |
| `builder` | holds | `TypeOK`; `LocalsDieTogether`, `LocalsStayLocal`: scopes; `StorageApart`: numbers; `BuiltResolves`: prototypes, in both arguments; `OneMeaning`: names; `FieldsApart`: layout; `MethodsSeeTheirOwn`: a method's members |
| `builder_var` | violated | `RedeclaredIsRebuilt`: a global declared again is numbered anew, not rebuilt |
| `builder_class` | violated | `VariablesAreFound`: after a class with a method, the script's variables are lost |
| `jit` | holds | `TypeOK`; `JumpsLand`: patching; `HandlersOnTheirLine`: `run_line_`; `AlignedAtCalls`, `StacksAgree`: the native stack; `ImplementsLines`: refinement; `RunEnds` |
| `jit_cmpr` | violated | `ComparesVariables`: a compiled cmpr of two variables compares one with itself |
| `foreign` | holds | `TypeOK`; `ComesHome`, `ResultsAreLost`: which calls come back; `ParametersArrive`: what the function finds |
| `session` | holds | `TypeOK`; `LogTellsChain`, `TextsTell`: the exception log; `LoggedWhereAsked`: the script's log, also after the program has ended; `CallsByName`: the embedder's functions; `LoadedIsCompiled`: what of a program comes back from its file |

The violated properties are six disagreements between the code and what the
repository says of it; `PROJECT.json` quotes the lines.

`ControlFollowsCalls` holds of scripts with no stray ret and a blank line after each
call. `test.txt` is not one of them: its function Init ends with `call Input` and
`ret` (lines 50-51), and interpreted, the ret is passed over. `main.cpp` runs it with
the JIT, where it is not.

### Bounds, and why they are enough

- `stack`: three elements reach empty, one, several, full and overflown; the code
  distinguishes no more (the first cell, one cell, more, the bound). The values
  are two that fit a byte, one that does not, and its low byte.
- `interp`: eight written programs reach every handler and each of its ends; the
  625 generated ones are all combinations of calls, jumps and stack work in two
  functions of two lines and a main of four. The data stack holds three values,
  enough for a stack command with one left over; the call stack two frames, enough
  for a nested call and for the overflow of a recursion. The pool has 12 records
  (100 in `main.cpp`, 5 in `compiler.cpp`): two exceptions, or three, exhaust it.
  Allocation failures are left to `stack`. Widths above 16 bits are taken to be
  wide enough. A `Garbage` of two values tells apart 0 (which print treats
  specially) and the rest.
- `builder`: every script of at most six lines about scopes, four about the
  meanings of one name, five about structs, and nine longer ones. Six lines are a
  variable, a function, a local, a ret, a second function and a use; a collision
  of names needs two declarations, a use and the end. Line numbers that do not fit
  16 bits are out of reach. `EntryFirst` says in which order the compiler evaluates
  `vars_[key] = {size () - 1}`; the runs take the order in which `test.txt` loads.
  `Asserts` is true: nothing in the repository defines NDEBUG. Three longer
  scripts have two structs with methods, named in order, out of order and alike; one
  has methods announced and given as second arguments, first and not first of their kind.
- `jit`: ten scripts reach every unit: a loop with each conditional jump, functions
  that call each other with blank lines around them, a recursion up to the bound of
  two calls, every pair of widths, a translation that fails half way, an assignment to a
  number. `MaxRuns` of two
  gives a second translation of the same script and of another. Variables have 1,
  2 or 8 bytes, with values an immediate of 32 bits holds; addresses are below 2^31,
  that of the native stack too: the prologue's `mov ebp, esp` (`Compiler.h:396`) has
  32-bit operands, and `ParameterPush` keeps the low half of the pointers it passes.
- `foreign`: a quarter of a register has 4 values instead of 65536, so that all
  signs of both halves occur; zero to seven parameters (past the sixth RspAdd
  counts), of every size push knows and one it does not.
- `session`: four calls of the embedding program are a compilation, a registration and
  two runs, or a failure and its repetition; the pool of five records is that of
  `compiler.cpp`, and is exhausted. One script has a string with the control character,
  and its lines are then misread in four ways; another has two variables of one number.
  The processor starts in MODE_LOG, the mode that
  the others are left to.

Deadlock is not checked: a stack is destroyed, a script ends, a build ends.

### Fairness

`EventuallyEnds` assumes weak fairness of `Execute`, for the loop in `RunScript`
runs as long as it can, and of `Answer`, for a user closes the message box. The
programs of the run have no endless loop of jumps; that a jump goes the right way
is what makes them end.

`RunEnds` assumes weak fairness of `Compile \/ Process`, a step of the translator or
of the processor: `RunScriptJit` runs on one thread and waits for nothing. The
scripts' own loops end; that a jump is taken when its flag says so is what
makes them end.

## Proofs

`StackMemProofs` proves for every set of values, every bound and every behaviour of
`operator new`, from the assumptions `StackMemAssumption` (the bound is positive,
`Narrow` and `Wild` stay within `Value`, `Junk` is no value):

- `TypeCorrect`: `Spec => []TypeOK`
- `CountsCorrect`: `Spec => []CountsAgree`
- `BrokenStaysBroken`: `Spec => BrokenForever`
- `Implements`: `Spec => ImplementsLifo`

The invariant is `IInv`: `TypeOK`, `CountsAgree` and that the last call of a broken
stack threw. `CountsAgree` alone is inductive only with the type of the block; the
third part is what `BrokenForever` needs when the step is the destruction, which
leaves `last` as it was. `InitIInv` and `NextIInv` make it an invariant, with one
step per call and one per way the call may end. The block after each of them is
the subject of three lemmas (`GrownBlock`, `StoredBlock`, `ShrunkBlock`).

The refinement maps the block to its first `currSize_` cells and `broken` to `~ok`.
`PrefixElements`, `SamePrefix`, `LongerPrefix` and `ShorterPrefix` say what the
prefix of a sequence is when the sequence is kept, grows or shrinks; `PushRefines`,
`PopRefines`, `PeekRefines`, `AtRefines` take each end of each call to the outcome of
`StackOps` it is, and `NextRefines` collects them.

`InterpreterProofs` proves, for every program and both bounds, the pool and the
answers of the user, from `ProgramsAssumption` (a program's lines are finitely many):

- `ControlFollows`: `Spec => []ControlFollowsCalls`
- `ObjectsKept`: `Spec => []MethodsKeepTheirObject`
- `ThrowsLose`: `Spec => ThrowsLoseOperands`

The invariant has three parts. `Shape`: the stacks are records of `StackOps`, without
which no outcome of a call is known. `Orderly => ControlOK`: in a disciplined
script whose call stack is whole, the frames were pushed by calls, each from the
function the frame below entered (`PushedByCall`), and the line lies in the function
of the top frame (`Around`); since a throw leaves the line where it was and `Proceed`
adds one to it, `AskedOK` says of a line the user is asked about that the one after it
lies there too. The discipline cannot be left out: a ret outside a function,
or a call whose next line is a command, breaks the property in the code. Third,
`MethodsKeepTheirObject` itself: a call pushes the object of the top frame or its own,
and nothing but push and pop changes the frames.

`ThrowsLoseOperands` is about one step and says what "leaves behind" means: not that
nothing has happened. A stack command that throws has lost its operands, and a ret
that throws has set the line, if there was no frame (it read memory below the
block) or no memory to pop it.

`ForeignCallProofs` proves, for every list of parameters and every
width of a register, from `QuarterAssumption` (a quarter has an even number of values,
two or more), `TargetAssumption` and `CallsAssumption` (addresses and parameters fit a
register):

- `LoadImmLoads`: the instructions of mov <int64_t> load every 64-bit value whole
- `TypeCorrect`, `CallsComeHome`, `ResultsLost`, `ParametersReachTheFunction`:
  `Spec => []P` for each of the properties of the run `foreign`

The invariant says where the run is: the code left is the end of what was emitted
(`RunsEmitted`, `ProgramOK`), `rsp` is what the instructions run make it (`RspKnown`),
each register holds its parameter once its turn has been (`RegsKnown`), and what the
function found is what they held (`ArrivedKnown`). `RspAdd` is a sum over the
parameters; for one to six of them it is 48, which is the whole reason a call returns.

`BuilderProofs` proves, for scripts of any length over any names:

- `LocalsDie`: `Spec => []LocalsDieTogether`
- `LocalsStay`: `Spec => []LocalsStayLocal`, if `LinesWritten`
- `PlacesApart`: `Spec => []StorageApart`, if `EntryFirst`
- `MeaningsApart`: `Spec => []OneMeaning`
- `FieldsDisjoint`: `Spec => []FieldsApart`, if `LinesWritten`
- `TypeCorrect`: `Spec => []TypeOK`, if both

`LinesWritten` says that the argument of a line is nothing, a number or a name, which is
what `ScriptLine_t` makes of text and what the scripts of the run are. `EntryFirst` is
the order of evaluation explained under Bounds. The invariants: `ScopesInv` adds to the
shape of the tables (`ReadOK`, `VarsOK`) that every local alive has been put on
`die_requests_` (`AllRequested`) and that what is on it was declared since the last ret
(`DeclaredHere`); `StructLevelOK` bounds `struct_func_level_`, without which a method's
locals could be taken for those of a function; `NamesInv` holds during the pass what
`OneMeaning` says at its end, and that `AllDefined` was checked there; `TypesInv` holds
types and their sizes apart (`ConstsOK`, `SizesOK`, `FieldsOK`) and places each field at
or after the end of those before it (`Placed`); `TablesOK` is the rest of `TypeOK`.
`PlaceInv` ties the level and the struct of the parser to the lines read, so that a
global in `vars_` was declared by one of them, and `EmbedderNames` says the same of
the embedder's commands: `StorageApart` and `OneMeaning` speak of the file.

The attempts showed where these properties end, and the statements say so.
`LocalsDieTogether` is false from line 65535 on: `die` has 16 bits, and -1 is also "still
alive". `LocalsStayLocal` can only be about the line just read: a global declared again
may be given the number of a local of an earlier line. `StorageApart` excepts a number that
a global shares, and only one that the script declares twice (`DeclaredTwice`).
`OneMeaning` has to except the names `type_` and a struct's name, constants that are
defined unchecked, and a command of the embedder that is declared a constant later,
which `Const` does not check (`BuilderCases.h:105-111`); the other order is refused.
`FieldsApart` excepts the fields whose type is not one declared before the struct.

`JitProofs` proves, for every set of scripts and every order in which a processor is
given them,

- `JumpsAlwaysLand`: `Spec => []JumpsLand`
- `HandlersAlwaysOnTheirLine`: `Spec => []HandlersOnTheirLine`
- `CallsAlwaysAligned`: `Spec => []AlignedAtCalls`
- `StacksAlwaysAgree`: `Spec => []StacksAgree`

from `QuarterAssumption` (the encoder's), `OpaqueAssumption` (the opaque commands are
none of those `Jit` translates itself) and `ScriptsAssumption` (what the loader hands
over: finitely many lines, jumps that name a line, sizes that are numbers; `IsScript`).
The argument for the jumps is about `JitCode` and hardly about steps:

- Every line is translated to units (`GoodLine`): each has bytes, a jump has at least
  five, and a jump within a line stays within it, the three of a comparison reaching
  the unit that counts the line (`GoodFlags`).
- Units laid out by `Placed` lie one after the other (`PlacedUnits`, `CodeJoin`), so
  that no two overlap (`CodeInOrder`). `CodeOf (p, i)` is the code of the first i lines,
  a function defined by recursion (`WholeSteps`); the code of more lines begins with the
  code of fewer (`EarlierLines`), and line l begins where the code of the lines before
  it ends (`FullSound`), which is what `func_offsets_` holds.
- `Requests` holds one request for each jump and nothing else (`RequestsGathered`), and
  a request made while a line is compiled is that of the whole code (`RequestsOfJoin`).
- If every request is one of this code and every jump is requested, `Patched` writes
  each jump's own four bytes, with the target requested, and nothing else, however often
  requests are repeated and in whatever order (`PatchedCode`, `FinishedCode`).

The invariant `TransInv` then says that the translator is at `CodeOf (Program, next)`
(`Translated`), that the code that runs is `Patched` (`Finished`), and that every
request in `patch_jmp_` is one of the whole code of a script translated so far, whether
that translation ended or was given up (`PatchesKnown`). The last is why a second
translation of the same script is harmless, and a second script is not.

The other three are about the processor, and none of them is inductive alone: a handler
is on its line because the units before it counted `run_line_`, a call returns where it
should because the word on top of the native stack was pushed by it, and that depends on
what lines without a call have pushed and popped. `ProcInv` adds `Posture` to `TransInv`:
the processor is at the prologue, in the epilogue, nowhere (after a jump to a line that
does not exist), or at the j-th unit of a line (`InLine`), and then

- `RunFits`: `run_line_` is that line, the line a taken jump goes to, or, before a
  `setline`, anything; between the handler of a jump and the jump itself, `cmpr_flag_`
  and the processor's own comparison decide alike (`Takes`, `Goes`);
- `Holding`: the native stack is the frame, the return addresses of the calls on
  `callStack_` at increasing even places, and words that are no addresses, of which the
  last few are yet to be popped (`Pending`): two between `save` and the unit that uses
  both addresses, one around a call;
- `FramesFit`: between the handler of a call or ret and its instruction `callStack_` is
  one ahead.

What a unit may be followed by in its line is a lemma per command (`JmpFlows` to
`CompareFlows`, together `Kinds`); what one step of the processor does to the posture is a
lemma per kind of unit (`StepSetLine` to `StepLeave`); where a line ends and the next
begins, over lines without code, is `LineStart`, `Arrive` and `GoOn`. A function of the
embedder may write over what it takes for its arguments, which are return addresses when
a script function calls it: `GoesBack` allows for `Spoilt` words, `StacksAgree` excepts
such scripts, and the other two hold for them as well.

`ProgramFileProofs` proves `RoundTrip`: of any program `p`, `Load (Save (p))` has the
same DLLs and imports, the names of the embedder's functions in the order of
`std::map`, for each number of a variable the type and size of the last variable of
that number (the loader overwrites, `ScriptLoader.h:111-114`), and the strings before
the first with the control character. If no string has it, it has all strings and
lines, and every count is where the loader looks for it (`ok`). Otherwise `Load` finds
no count where it looks for that of the lines and gives none; what the code reads there
is `Misread` in `Session`. `p` is any program (`IsProgram`: names come
from `NameOrder`, of which `NamesAssumption` says that it lists each name once and the
control character not at all; tables are finite; no function imported from a DLL has the
control character in its name, since a name is cut from a string constant,
`BuilderCases.h:128-156`, and would end there). The
proof has a lemma for what a sequence of words comes to when they are written one
after the other (`Flattened`), one for a table of words each of which its reader reads
(`TableRead`), and then one for each table. `SortedNames` says that `Sorted` lists each
name of a set once, behind as many as come before it.

`SessionProofs` proves all properties of the run `session`, for all scripts, any size
of the exception pool and any number of calls, from `SessionAssumption` (the size is a
number), `MisreadAssumption` (what a file is misread as is finitely many lines) and
`ScriptsAssumption` (a script that parses comes to a program whose embedder's
functions are numbered from 0 as declared, `Builder.h:543-545`, and whose lines call
declared ones):

- `SessionTypes`: `Spec => []TypeOK`
- `ChainsAreLogged`: `Spec => []LogTellsChain`
- `MessagesTell`: `Spec => []TextsTell`
- `ErrorsAreLogged`: `Spec => []LoggedWhereAsked`
- `FilesTell`: `Spec => []LoadedIsCompiled`
- `NamesCall`: `Spec => []CallsByName`

There are four invariants, of as many parts of the state. `PoolInv`: a record's cause is
an older record, so that `WriteLog` ends; the exception in flight is a chain of the
layers its kind passes, and its static string ends with what it is about; so the
log is one such chain. `CountsInv` adds to `LoggedWhereAsked` that a script being
translated is not interpreted, and that a log handle is lost only behind a run that an
exception ended. `FileInv`: the file is none the loader takes, or what
`Save` made of the program compiled last, and while a script runs what was loaded is of that
program what `RoundTrip` says comes back; a line that calls then finds its function by `CallFound`: if the
numbers follow the names, as many names come before the k-th as there are numbers
below k. `FieldsOK` is the rest of `TypeOK`.

`SequenceFacts` holds what all of these share: sequences of which only the length is
known, and `Induction`, induction over the natural numbers for a set of numbers instead
of a predicate. The library's theorem takes an operator, which none of the
provers instantiates; for the set of numbers of which something holds it follows from
the well-foundedness of `<`. It is how the functions defined by recursion over a
sequence (`FlattenSeq`, the chain of a log, the tables of a file) are reasoned about.

Only model-checked:

- `EventuallyEnds` and `RunEnds`: liveness is out of the prover's reach.
- `Interpreter.TypeOK`: it is true of programs whose arguments are of the types their
  commands are given, which the run's programs are and `Programs` need not be.
- `Builder.BuiltResolves` and `MethodsSeeTheirOwn`: they speak of the path through a
  dotted name, a fold over the fields of the types as they are at the end of the script.
- `Jit.TypeOK` and that `Jit` implements `ScriptLines`: both speak of what variables hold,
  the arithmetic of the generated code on 1, 2 and 8 bytes, of which the processor's
  invariant says nothing.

## Not modelled

- Link files and string constants in the parser.
- The splitting of a line into tokens: the lexer has no state, and its failures are
  the parser's.
- The bytes of instructions: tables whose meaning is outside the repository.
- Operands of compiled mov, add, sub and cmpr of 4 bytes, and registers as operands
  of compiled commands other than opaque ones.
- A processor that compiles two different scripts: the model runs it, and says only
  that the code may then be overwritten (`Patched`); the properties of `Jit` ask that
  the earlier translations were of the same script.
- `FreeLibrary` after `GetProcAddress`: whether the DLL stays is the system's state.
- Console output and the wording of messages: pure input and output.
- Signal handling: dead code.
- A destination of struct type for the result of a DLL function: the code writes
  it when the struct has the size of an integer, the model does not.

## What is left

1. `Jit`: what variables and the flag hold, added to the processor's invariant; from it
   the refinement of `ScriptLines`.
2. `Builder`: `BuiltResolves`, by induction over the path of a dotted name.
3. Modelling that remains: link files.
