---------------------------- MODULE ForeignCall ----------------------------
(***************************************************************************)
(* The machine code that jit_call_void, jit_call_dword and jit_call_qword    *)
(* emit for one call of a DLL function (Functions.h), and its run on the     *)
(* processor, one instruction a step.  The parameters are the elements of    *)
(* the data stack above the dump point.  Stack addresses count in bytes from  *)
(* home, where rsp stands when BuildAndRun enters the code and where the      *)
(* address to return to lies.                                                *)
(*                                                                         *)
(* Of the memory only that return address is kept: what is pushed matters by  *)
(* how far it moves rsp.                                                    *)
(***************************************************************************)
EXTENDS Encoder, Sequences, FiniteSets

CONSTANTS
  Commands,   \* the commands tried, of "void", "dword" and "qword"
  Calls,      \* the lists of parameters tried, bottom first, of [data, size]
  Target,     \* where GetProcAddress found the function
  Unknown     \* a register whose value no one has set

ASSUME TargetAssumption == Target \in 0 .. Full - 1

\* An element of the data stack has at most the width of a register.
Parameter == [data : 0 .. Full - 1, size : Nat]
ASSUME CallsAssumption == Calls \subseteq Seq(Parameter)

VARIABLES
  cmd,      \* the command
  params,   \* the elements above the dump point
  missing,  \* or fewer elements than at the dump point
  careful,  \* whether the function faults on a stack not aligned to 16
  code,     \* what is left to run
  rsp, regs,
  intact,   \* the return address is still at home
  arrived,  \* the registers the function found
  status    \* "emitting", "running", "returned", "lost", "fault" or "threw"

vars == <<cmd, params, missing, careful, code, rsp, regs, intact, arrived, status>>

-----------------------------------------------------------------------------
\* Emission.
In(op, n) == [op |-> op, n |-> n]
ToReg(r, v) == [op |-> "mov", reg |-> r, n |-> v]

FromTop(ps, k) == IF k <= Len(ps) THEN ps[Len(ps) + 1 - k].data ELSE 0

\* Mutant: the room is for two parameters.
ParameterPushTight(ps) ==
  << In("sub", 16),
     ToReg("rcx", ParameterLow(FromTop(ps, 1))), ToReg("rdx", ParameterLow(FromTop(ps, 2))),
     ToReg("r8", ParameterHigh(FromTop(ps, 3))), ToReg("r9", ParameterHigh(FromTop(ps, 4))) >>

\* Mutant: the first element pushed is the first parameter.
ParameterPushBottom(ps) ==
  LET From(k) == IF k <= Len(ps) THEN ps[k].data ELSE 0
  IN  << In("sub", 48),
         ToReg("rcx", ParameterLow(From(1))), ToReg("rdx", ParameterLow(From(2))),
         ToReg("r8", ParameterHigh(From(3))), ToReg("r9", ParameterHigh(From(4))) >>

\* Mutant: no room is made.
ParameterPushBare(ps) ==
  << ToReg("rcx", ParameterLow(FromTop(ps, 1))), ToReg("rdx", ParameterLow(FromTop(ps, 2))),
     ToReg("r8", ParameterHigh(FromTop(ps, 3))), ToReg("r9", ParameterHigh(FromTop(ps, 4))) >>

\* JitCompiler_t::ParameterPush makes room for the called function, then fills
\* four registers.
ParameterPush(ps) ==
  << In("sub", 48),
     ToReg("rcx", ParameterLow(FromTop(ps, 1))), ToReg("rdx", ParameterLow(FromTop(ps, 2))),
     ToReg("r8", ParameterHigh(FromTop(ps, 3))), ToReg("r9", ParameterHigh(FromTop(ps, 4))) >>

\* push of an immediate: one byte is widened to eight by the processor.
Pushed(size) == IF size = 1 THEN 8 ELSE size

\* With five or more, the iterator runs from the fourth from the top, in r9
\* already, down to the second: the element at the dump point is left out.
OnStack(ps) == IF Len(ps) <= 4 THEN <<>> ELSE [j \in 1 .. Len(ps) - 4 |-> ps[Len(ps) - 2 - j]]
BadSize(ps) == \E j \in DOMAIN OnStack(ps) : OnStack(ps)[j].size \notin {1, 2, 4, 8}

PushStackValueJit(ps) ==
  IF ps = <<>> THEN <<>>
  ELSE ParameterPush(ps) \o
       [j \in DOMAIN OnStack(ps) |-> In("push", Pushed(OnStack(ps)[j].size))]

\* What the code adds to rsp after the call: the room, and something for each
\* parameter from the seventh on.
RspAdd(ps) ==
  LET rest == 7 .. Len(ps)
  IN  48 + 4 * Cardinality(rest) + 4 * Cardinality({i \in rest : ps[i].size = 8})

CallTarget == << ToReg("rax", LoadImm(Target)), In("call", 0) >>

JIT_Call_Void(ps) ==
  PushStackValueJit(ps) \o CallTarget \o << In("add", RspAdd(ps)), In("retn", 0) >>

\* The result is stored at an address the encoding takes relative to rip, and
\* the add is a comment.
JIT_Call_Value(ps) ==
  PushStackValueJit(ps) \o CallTarget \o << In("store", 0), In("retn", 0) >>

-----------------------------------------------------------------------------
\* With fewer elements than at the dump point RspAdd counts in size_t, through
\* memory; the commands with a result do not call it.
Emit ==
  /\ status = "emitting"
  /\ \/ /\ missing /\ cmd = "void"
        /\ status' = "fault"
        /\ UNCHANGED code
     \/ /\ BadSize(params)
        /\ status' = "threw"
        /\ UNCHANGED code
     \/ /\ ~(missing /\ cmd = "void") /\ ~BadSize(params)
        /\ code' = IF cmd = "void" THEN JIT_Call_Void(params) ELSE JIT_Call_Value(params)
        /\ status' = "running"
  /\ UNCHANGED <<cmd, params, missing, careful, rsp, regs, intact, arrived>>

Next1 == Head(code)

Fetch(op) ==
  /\ status = "running"
  /\ Next1.op = op
  /\ code' = Tail(code)
  /\ UNCHANGED <<cmd, params, missing, careful>>

MoveStack ==
  /\ \/ Fetch("sub") /\ rsp' = rsp - Next1.n
     \/ Fetch("push") /\ rsp' = rsp - Next1.n
     \/ Fetch("add") /\ rsp' = rsp + Next1.n
  /\ UNCHANGED <<regs, intact, arrived, status>>

Mov ==
  /\ Fetch("mov")
  /\ regs' = [regs EXCEPT ![Next1.reg] = Next1.n]
  /\ UNCHANGED <<rsp, intact, arrived, status>>

\* At home rsp is 8 above a multiple of 16, as at every entry of a function.
Aligned == (rsp + 8) % 16 = 0

\* The called function owns the 32 bytes above its return address and every
\* register used here; it may give any result.
HomeSpaceHitsHome == rsp < 8 /\ rsp + 32 > 0

Call ==
  /\ Fetch("call")
  /\ arrived' = regs
  /\ regs' = [r \in DOMAIN regs |-> Unknown]
  /\ intact' \in IF HomeSpaceHitsHome THEN {FALSE, intact} ELSE {intact}
  /\ status' = IF regs["rax"] # Target THEN "lost"
               ELSE IF careful /\ ~Aligned THEN "fault" ELSE "running"
  /\ UNCHANGED rsp

\* A store somewhere within 2 GB of the code, or to nowhere.  For a destination of
\* eight bytes EmitMov emits an address of eight where the encoding takes four: the
\* rest of it, zeros below 4 GB, runs as add [rax], al twice, which faults or adds to
\* what the result points to, the return address not excepted.
Store ==
  /\ Fetch("store")
  /\ status' \in {"running", "fault"}
  /\ intact' \in {intact, FALSE}
  /\ UNCHANGED <<rsp, regs, arrived>>

Retn ==
  /\ Fetch("retn")
  /\ status' = IF rsp = 0 /\ intact THEN "returned" ELSE "lost"
  /\ UNCHANGED <<rsp, regs, intact, arrived>>

NoRegs == [r \in {"rax", "rcx", "rdx", "r8", "r9"} |-> Unknown]

Init ==
  /\ cmd \in Commands
  /\ params \in Calls
  /\ missing \in BOOLEAN
  /\ missing => params = <<>>
  /\ careful \in BOOLEAN
  /\ code = <<>>
  /\ rsp = 0
  /\ regs = NoRegs
  /\ intact = TRUE
  /\ arrived = NoRegs
  /\ status = "emitting"

Next == Emit \/ MoveStack \/ Mov \/ Call \/ Store \/ Retn

Spec == Init /\ [][Next]_vars

-----------------------------------------------------------------------------
TypeOK ==
  /\ cmd \in Commands
  /\ missing \in BOOLEAN /\ careful \in BOOLEAN /\ intact \in BOOLEAN
  /\ \A i \in DOMAIN code : code[i].n \in 0 .. Full - 1 \/ code[i].op \in {"sub", "add"}
  /\ rsp \in Int
  /\ \A r \in DOMAIN regs : regs[r] \in {Unknown} \cup 0 .. Full - 1
  /\ status \in {"emitting", "running", "returned", "lost", "fault", "threw"}

(***************************************************************************)
(* Which calls come back.  A jit_call_void with one to four parameters        *)
(* reaches its function and finds the way home from it, if the function does   *)
(* not need the stack aligned: the room ParameterPush makes keeps the return    *)
(* address out of the function's reach, and RspAdd gives back exactly that      *)
(* room.  With none, five or six parameters, or fewer elements than at the      *)
(* dump point, it never does: RspAdd gives back what was not taken, or not      *)
(* what was pushed.                                                          *)
(***************************************************************************)
ComesHome ==
  cmd = "void" =>
    /\ Len(params) \in 1 .. 4 /\ ~careful => status \notin {"lost", "fault", "threw"}
    /\ status = "returned" => Len(params) \notin {0, 5, 6} /\ ~missing

(***************************************************************************)
(* What a call with a result comes to.  It comes back only if it had no         *)
(* parameters: with any, rsp is 48 bytes from home when the code returns.        *)
(***************************************************************************)
ResultsAreLost == cmd # "void" /\ status = "returned" => params = <<>>

(***************************************************************************)
(* The parameters the function finds.  The last four elements pushed are in     *)
(* rcx, rdx, r8 and r9, the last one first, whole if they are not negative and    *)
(* fit 31 bits.  Of larger values the low half arrives, and in r8 and r9 not      *)
(* even that if they are negative: a pointer above 4 GB is lost (ParameterPush of *)
(* Instruction.h, whose last or has 32 bits and clears the upper half).           *)
(***************************************************************************)
Place == [rcx |-> 1, rdx |-> 2, r8 |-> 3, r9 |-> 4]
ParametersArrive ==
  arrived # NoRegs =>
    \A r \in {q \in DOMAIN Place : Place[q] <= Len(params)} :
      LET v == FromTop(params, Place[r])
      IN  arrived[r] = IF Place[r] <= 2 \/ v < Full \div 2 THEN v % Half ELSE Half - 1
=============================================================================
