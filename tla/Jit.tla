-------------------------------- MODULE Jit --------------------------------
(***************************************************************************)
(* VirtualProcessor_t::RunScriptJit (Compiler.h): FillJitCompiler turns the  *)
(* lines of a script into machine code, PatchJmp fills in the jumps, and the    *)
(* processor runs the code.                                                   *)
(*                                                                         *)
(* The code is that of JitCode.  Of the registers the outcome of the last      *)
(* comparison matters; of the native stack, what kind of word is where.         *)
(*                                                                         *)
(* The variables hold numbers of 1, 2 or 8 bytes, those of 8 within the range   *)
(* of an immediate of 32 bits; a type of another size is only refused.          *)
(* Addresses are below 2^31, where ParameterPush and mov ebp, esp are exact.   *)
(***************************************************************************)
EXTENDS JitCode, Words

CONSTANTS
  Programs,  \* name -> [lines : of [flag, cmd, dst, src, to], sizes : of variables]
  Garbage,   \* what uninitialised memory may hold
  MaxCalls,  \* maxElements of the call stack
  MaxRuns    \* bound on the scripts given to one processor

ASSUME ScriptsAssumption == \A s \in DOMAIN Programs : IsScript(Programs[s])

VARIABLES
  status,    \* "idle", "translating", "running", "terminated" or "wild"
  script, before, runs,  \* the script, those translated earlier, how many
  next, need_realignment, mcode_, func_offsets_,   \* the translator
  patch_jmp_,            \* of [first, second, offset]
  rip, stack, order,     \* the processor
  run_line_, cmpr_flag_, vars_, callStack_,        \* the run instance
  ran,       \* the last opaque handler and the line it worked on
  was        \* the script's state when its current line began

translator == <<script, before, runs, next, need_realignment, mcode_, func_offsets_, patch_jmp_>>
memory == <<run_line_, cmpr_flag_, vars_, callStack_, ran>>
vars == <<status, translator, rip, stack, order, memory, was>>

Program == Programs[script]
Lines == Program.lines
Sizes == Program.sizes
Size(a) == SizeIn(Program, a)

-----------------------------------------------------------------------------
\* Words of the native stack, besides the places calls return to.
Home   == -1   \* in BuildAndRun
Rbp    == -2   \* the caller's frame
Filler == -3   \* rax, the zeros, arguments
Spoilt == -4   \* what a function of the embedder wrote

Starting == {k \in DOMAIN mcode_ : k > 1 /\ mcode_[k].line # mcode_[k - 1].line}

\* The last conjunct of every step of the processor: when a line begins, what the
\* script knows of itself is noted.
Observe ==
  was' = IF status' # "running" THEN was
         ELSE LET begun == {k \in Starting : mcode_[k].at = rip'}
              IN  IF begun = {} THEN was
                  ELSE [script |-> script, line |-> mcode_[CHOOSE k \in begun : TRUE].line,
                        frames |-> callStack_', flag |-> cmpr_flag_', values |-> vars_',
                        ran |-> ran']

\* RunScriptJit: a new instance, a new compiler; patch_jmp_ is the processor's.
Begin ==
  /\ status = "idle"
  /\ runs < MaxRuns
  /\ \E s \in DOMAIN Programs, g \in Garbage :
       /\ script' = s
       /\ vars_' = [v \in DOMAIN Programs[s].sizes |-> g]
  /\ status' = "translating"
  /\ runs' = runs + 1
  /\ next' = 0 /\ need_realignment' = FALSE /\ func_offsets_' = <<>>
  /\ mcode_' = Placed(<<Prologue>>, -1, 0)
  /\ run_line_' = 0 /\ cmpr_flag_' = 2 /\ callStack_' = <<>> /\ ran' = <<>>
  /\ UNCHANGED <<before, patch_jmp_, rip, stack, order, was>>

\* Mutant: the offset of a line is stored as it is, not counted from 1.
TranslateFromZero ==
  /\ status = "translating"
  /\ next < Len(Lines)
  /\ ~Untranslatable(Program, Lines[next + 1])
  /\ LET placed == Placed(LineUnits(Program, next, need_realignment), next, CodeSize(mcode_))
     IN  /\ mcode_' = mcode_ \o placed
         /\ patch_jmp_' = patch_jmp_ \o Requests(placed)
  /\ func_offsets_' = Append(func_offsets_, CodeSize(mcode_))
  /\ need_realignment' = IF Lines[next + 1].flag = "Func" THEN FALSE
                         ELSE need_realignment \/ Lines[next + 1].flag \notin {"UFunc", "CFunc"}
  /\ next' = next + 1
  /\ UNCHANGED <<status, script, before, runs, rip, stack, order, memory, was>>

Translate ==
  /\ status = "translating"
  /\ next < Len(Lines)
  /\ ~Untranslatable(Program, Lines[next + 1])
  /\ LET placed == Placed(LineUnits(Program, next, need_realignment), next, CodeSize(mcode_))
     IN  /\ mcode_' = mcode_ \o placed
         /\ patch_jmp_' = patch_jmp_ \o Requests(placed)
  /\ func_offsets_' = Append(func_offsets_, CodeSize(mcode_) + 1)
  /\ need_realignment' = IF Lines[next + 1].flag = "Func" THEN FALSE
                         ELSE need_realignment \/ Lines[next + 1].flag \notin {"UFunc", "CFunc"}
  /\ next' = next + 1
  /\ UNCHANGED <<status, script, before, runs, rip, stack, order, memory, was>>

\* CHECK_ERROR throws: the requests made so far stay in patch_jmp_.
GiveUp ==
  /\ status = "translating"
  /\ next < Len(Lines)
  /\ Untranslatable(Program, Lines[next + 1])
  /\ status' = "idle"
  /\ before' = before \cup {script}
  /\ UNCHANGED <<script, runs, next, need_realignment, mcode_, func_offsets_, patch_jmp_,
                 rip, stack, order, memory, was>>

\* The epilogue, PatchJmp, BuildAndRun.  A patch beyond the code is written where
\* the vector may have no memory.
Finish ==
  /\ status = "translating"
  /\ next = Len(Lines)
  /\ LET code == mcode_ \o Placed(Epilogue, next, CodeSize(mcode_))
     IN  /\ mcode_' = Patched(code, patch_jmp_, func_offsets_)
         /\ \/ status' = "running"
            \/ /\ \E n \in DOMAIN patch_jmp_ : patch_jmp_[n].first + 4 > CodeSize(code)
               /\ status' = "wild"
  /\ rip' = 0 /\ order' = 0
  /\ stack' = <<Home>>
  /\ UNCHANGED <<script, before, runs, next, need_realignment, func_offsets_, patch_jmp_,
                 memory, was>>

-----------------------------------------------------------------------------
\* The processor.
At == {k \in DOMAIN mcode_ : mcode_[k].at = rip}
U  == mcode_[CHOOSE k \in At : TRUE]
Command0 == Lines[U.line + 1]

Fetched(op) == status = "running" /\ At # {} /\ U.op = op

Onward == rip' = rip + U.length /\ UNCHANGED <<status, translator>>
Push(word) == stack' = Append(stack, word)

\* C++ code threw through generated code, which has no unwind information.
Terminate ==
  /\ status' = "terminated"
  /\ UNCHANGED <<translator, rip, stack, order, memory>>

\* Nothing more is known of the process.
GoesWild ==
  /\ status' = "wild"
  /\ UNCHANGED <<translator, rip, stack, order, memory>>

Enter ==
  /\ Fetched("enter")
  /\ Push(Rbp)
  /\ Onward
  /\ UNCHANGED <<order, memory>>
  /\ Observe

SetRunLine ==
  /\ Fetched("setline")
  /\ run_line_' = U.arg
  /\ Onward
  /\ UNCHANGED <<stack, order, cmpr_flag_, vars_, callStack_, ran>>
  /\ Observe

IncRunLine ==
  /\ Fetched("incline")
  /\ run_line_' = run_line_ + 1
  /\ Onward
  /\ UNCHANGED <<stack, order, cmpr_flag_, vars_, callStack_, ran>>
  /\ Observe

\* A handler takes its arguments from the line run_line_ names.
Argument == Lines[run_line_ + 1]

\* Jit_Divs calls Muls.  An error the handler returns is not looked at.
RunOpaque ==
  /\ Fetched("handler")
  /\ Command0.cmd \in Opaque
  /\ \/ /\ ran' = <<IF Command0.cmd = "Divs" THEN "Muls" ELSE Command0.cmd, run_line_>>
        /\ Onward
        /\ UNCHANGED <<stack, order, run_line_, cmpr_flag_, vars_, callStack_>>
     \/ Terminate
  /\ Observe

TakenBy(cmd) ==
  CASE cmd = "Jmp" -> TRUE
    [] cmd = "Je"  -> cmpr_flag_ = 0
    [] cmd = "Jne" -> cmpr_flag_ # 0
    [] cmd = "Ja"  -> cmpr_flag_ = 1
    [] cmd = "Jb"  -> cmpr_flag_ = -1
    [] cmd = "Jae" -> cmpr_flag_ \in {0, 1}
    [] cmd = "Jbe" -> cmpr_flag_ \in {0, -1}

RunJump ==
  /\ Fetched("handler")
  /\ Command0.cmd \in {"Jmp"} \cup DOMAIN Conditional
  /\ run_line_' = IF TakenBy(Command0.cmd) THEN Argument.to ELSE run_line_
  /\ Onward
  /\ UNCHANGED <<stack, order, cmpr_flag_, vars_, callStack_, ran>>
  /\ Observe

\* Mutant: the frame stays when its function returns.
RunRetKept ==
  /\ Fetched("handler")
  /\ Command0.cmd = "Ret"
  /\ IF callStack_ = <<>> THEN Terminate
     ELSE /\ run_line_' = Last(callStack_) + 1
          /\ Onward
          /\ UNCHANGED <<stack, order, cmpr_flag_, vars_, callStack_, ran>>
  /\ Observe

RunRet ==
  /\ Fetched("handler")
  /\ Command0.cmd = "Ret"
  /\ IF callStack_ = <<>> THEN Terminate
     ELSE /\ run_line_' = Last(callStack_) + 1
          /\ callStack_' = Front(callStack_)
          /\ Onward
          /\ UNCHANGED <<stack, order, cmpr_flag_, vars_, ran>>
  /\ Observe

\* Mutant: the bound of callStack_ is not looked at.
RunCallUnbounded ==
  /\ Fetched("handler")
  /\ Command0.cmd = "Call"
  /\ callStack_' = Append(callStack_, run_line_)
  /\ run_line_' = Argument.to
  /\ Onward
  /\ UNCHANGED <<stack, order, cmpr_flag_, vars_, ran>>
  /\ Observe

RunCall ==
  /\ Fetched("handler")
  /\ Command0.cmd = "Call"
  /\ IF Len(callStack_) = MaxCalls THEN Terminate
     ELSE /\ callStack_' = Append(callStack_, run_line_)
          /\ run_line_' = Argument.to
          /\ Onward
          /\ UNCHANGED <<stack, order, cmpr_flag_, vars_, ran>>
  /\ Observe

CallGetPtr ==
  /\ Fetched("getptr")
  /\ Onward
  /\ UNCHANGED <<stack, order, memory>>
  /\ Observe

\* Mutant: push rax alone, without the zeros that keep the stack aligned.
SavePtrAlone ==
  /\ Fetched("save")
  /\ Push(Filler)
  /\ Onward
  /\ UNCHANGED <<order, memory>>
  /\ Observe

SavePtr ==
  /\ Fetched("save")
  /\ stack' = stack \o <<Filler, Filler>>
  /\ Onward
  /\ UNCHANGED <<order, memory>>
  /\ Observe

\* The saved address is popped where two addresses were needed.
Popped(n) == SubSeq(stack, 1, Len(stack) - n)
Unsaved == IF IsVar(Command0.src) THEN Popped(2) ELSE stack

\* A value as the low bytes of memory without its sign.
Bytes(v, size) == IF size = 1 THEN v % 256 ELSE IF size = 2 THEN v % 65536 ELSE v

\* What a variable holds when the low bytes of it are replaced.
Stored(v, low, size, whole) ==
  IF size >= whole THEN SignExtend(low, whole)
  ELSE LET unit == IF size = 1 THEN 256 ELSE 65536
       IN  SignExtend(v - (v % unit) + (low % unit), whole)

Sum(cmd, a, b) == IF cmd = "Add" THEN a + b ELSE a - b

\* What the variable of l.dst holds afterwards.  mov clears it, if it is not the
\* narrower one, before it loads the source.
Assigned(l) ==
  LET d  == l.dst.var
      s1 == Size(l.dst)
      sm == MinOf(s1, Size(l.src))
      cleared == IF s1 >= Size(l.src) THEN 0 ELSE vars_[d]
  IN  CASE l.cmd = "Mov" /\ ~IsVar(l.src) -> SignExtend(l.src.num, s1)
        [] l.cmd = "Mov" /\ IsVar(l.src) ->
             Stored(cleared, IF l.src.var = d THEN cleared ELSE vars_[l.src.var], sm, s1)
        [] ~IsVar(l.src) -> SignExtend(Sum(l.cmd, vars_[d], l.src.num), s1)
        [] OTHER -> Stored(vars_[d], Sum(l.cmd, vars_[d], vars_[l.src.var]), sm, s1)

\* The address of what is no variable is nullptr: Jit_Mov does not look at the
\* error its arguments make.
Assignment ==
  /\ Fetched("assign")
  /\ IF ~IsVar(Command0.dst) THEN GoesWild
     ELSE /\ vars_' = [vars_ EXCEPT ![Command0.dst.var] = Assigned(Command0)]
          /\ stack' = Unsaved
          /\ Onward
          /\ UNCHANGED <<order, run_line_, cmpr_flag_, callStack_, ran>>
  /\ Observe

SignOf(n) == IF n > 0 THEN 1 ELSE IF n < 0 THEN -1 ELSE 0

\* A variable is loaded without its sign and compared with the number; a number
\* on the left gives the variable's number instead; of two variables the first
\* is compared with itself; of two numbers the address is nullptr.
Comparison ==
  /\ Fetched("compare")
  /\ LET l == Command0
     IN  IF ~IsVar(l.dst) /\ ~IsVar(l.src) THEN GoesWild
         ELSE /\ order' = CASE IsVar(l.dst) /\ ~IsVar(l.src) ->
                                 SignOf(Bytes(vars_[l.dst.var], Size(l.dst)) - l.src.num)
                            [] IsVar(l.src) /\ ~IsVar(l.dst) ->
                                 SignOf(Bytes(vars_[l.src.var], Size(l.src)) - (l.src.var - 1))
                            [] OTHER -> 0
              /\ stack' = IF IsVar(l.dst) /\ IsVar(l.src) THEN Popped(2) ELSE stack
              /\ Onward
              /\ UNCHANGED memory
  /\ Observe

SetFlag ==
  /\ Fetched("flag")
  /\ cmpr_flag_' = U.arg
  /\ Onward
  /\ UNCHANGED <<stack, order, run_line_, vars_, callStack_, ran>>
  /\ Observe

\* cmp byte [cmpr_flag_], 0.
TestFlag ==
  /\ Fetched("test")
  /\ order' = SignOf(cmpr_flag_)
  /\ Onward
  /\ UNCHANGED <<stack, memory>>
  /\ Observe

\* Mutant: jg has the opcode of jge.
HoldsLoosely(op) ==
  CASE op = "jmp" -> TRUE
    [] op = "je"  -> order = 0
    [] op = "jne" -> order # 0
    [] op \in {"jg", "jge"} -> order >= 0
    [] op = "jl"  -> order < 0
    [] op = "jle" -> order <= 0

Holds(op) ==
  CASE op = "jmp" -> TRUE
    [] op = "je"  -> order = 0
    [] op = "jne" -> order # 0
    [] op = "jg"  -> order > 0
    [] op = "jge" -> order >= 0
    [] op = "jl"  -> order < 0
    [] op = "jle" -> order <= 0

Branch ==
  /\ \E op \in {"jmp", "je", "jne", "jg", "jge", "jl", "jle"} :
       /\ Fetched(op)
       /\ rip' = IF Holds(op) THEN U.target ELSE rip + U.length
  /\ UNCHANGED <<status, translator, stack, order, memory>>
  /\ Observe

\* push rax and the line of the function's first line.
Bump ==
  /\ Fetched("bump")
  /\ Push(Filler)
  /\ run_line_' = run_line_ + 1
  /\ Onward
  /\ UNCHANGED <<order, cmpr_flag_, vars_, callStack_, ran>>
  /\ Observe

CallFunction ==
  /\ Fetched("call")
  /\ Push(rip + U.length)
  /\ rip' = U.target
  /\ UNCHANGED <<status, translator, order, memory>>
  /\ Observe

PopRax ==
  /\ Fetched("pop")
  /\ stack' = Popped(1)
  /\ Onward
  /\ UNCHANGED <<order, memory>>
  /\ Observe

\* retn goes where the top of the stack says.
Return ==
  /\ Fetched("retn")
  /\ IF Last(stack) >= 0
     THEN /\ rip' = Last(stack)
          /\ stack' = Popped(1)
          /\ UNCHANGED <<status, translator, order, memory>>
          /\ Observe
     ELSE Last(stack) # Home /\ GoesWild /\ Observe

\* The code has returned to BuildAndRun: the instance is deleted.
ReturnHome ==
  /\ Fetched("retn")
  /\ Last(stack) = Home
  /\ status' = "idle"
  /\ before' = before \cup {script}
  /\ was' = [was EXCEPT !.line = -1]
  /\ UNCHANGED <<script, runs, next, need_realignment, mcode_, func_offsets_, patch_jmp_,
                 rip, stack, order, memory>>

\* mov esp, ebp drops what is above the frame, whatever it is.
Leave ==
  /\ Fetched("leave")
  /\ IF stack[2] = Rbp
     THEN /\ stack' = SubSeq(stack, 1, 1)
          /\ Onward
          /\ UNCHANGED <<order, memory>>
     ELSE GoesWild
  /\ Observe

PushArguments ==
  /\ Fetched("pushargs")
  /\ stack' = stack \o <<Filler, Filler>>
  /\ Onward
  /\ UNCHANGED <<order, memory>>
  /\ Observe

\* A function of the embedder looks for its arguments in rcx and rdx, where there
\* is anything, and may use the four words above its return address.
CallForeign ==
  /\ Fetched("foreign")
  /\ \/ GoesWild
     \/ /\ \E n \in {0, 4} :
             stack' = [k \in DOMAIN stack |->
                         IF k > Len(stack) - n THEN Spoilt ELSE stack[k]]
        /\ Onward
        /\ UNCHANGED <<order, memory>>
  /\ Observe

\* Bytes that are no unit of the code, or no longer the unit that was there.
RunGarbage ==
  /\ status = "running"
  /\ At # {} => U.op = "garbage"
  /\ GoesWild
  /\ Observe

-----------------------------------------------------------------------------
Init ==
  /\ status = "idle"
  /\ script \in DOMAIN Programs
  /\ before = {} /\ runs = 0
  /\ next = 0 /\ need_realignment = FALSE /\ mcode_ = <<>> /\ func_offsets_ = <<>>
  /\ patch_jmp_ = <<>>
  /\ rip = 0 /\ stack = <<>> /\ order = 0
  /\ run_line_ = 0 /\ cmpr_flag_ = 2 /\ vars_ = <<>> /\ callStack_ = <<>> /\ ran = <<>>
  /\ was = [script |-> script, line |-> -1, frames |-> <<>>, flag |-> 2,
             values |-> <<>>, ran |-> <<>>]

Compile == Translate \/ GiveUp \/ Finish

Process ==
  \/ Enter \/ SetRunLine \/ IncRunLine \/ RunOpaque \/ RunJump \/ RunRet
  \/ RunCall \/ CallGetPtr \/ SavePtr \/ Assignment \/ Comparison \/ SetFlag \/ TestFlag
  \/ Branch \/ Bump \/ CallFunction \/ PopRax \/ Return \/ ReturnHome \/ Leave
  \/ PushArguments \/ CallForeign \/ RunGarbage

Next == Begin \/ Compile \/ Process

\* RunScriptJit runs on one thread without waiting for anything.
Spec == Init /\ [][Next]_vars /\ WF_vars(Compile \/ Process)

-----------------------------------------------------------------------------
TypeOK ==
  /\ status \in {"idle", "translating", "running", "terminated", "wild"}
  /\ next \in 0 .. Len(Lines) /\ Len(func_offsets_) = next
  /\ \A k \in DOMAIN mcode_ : mcode_[k].line \in -1 .. Len(Lines)
  /\ stack \in Seq(Int) /\ rip \in Int
  /\ order \in {-1, 0, 1} /\ cmpr_flag_ \in {2, 0, 1, -1}
  /\ run_line_ \in 0 .. Len(Lines) + 1
  /\ Len(callStack_) <= MaxCalls
  /\ status = "running" => \A v \in DOMAIN Sizes : vars_[v] = SignExtend(vars_[v], Sizes[v])

\* No other script has left requests in patch_jmp_.
Fresh == before \subseteq {script}

\* The first unit at or after a line, as a byte.
Landing(l) ==
  LET ks == {k \in Starting : mcode_[k].line >= l}
  IN  mcode_[CHOOSE k \in ks : \A j \in ks : k <= j].at

(***************************************************************************)
(* Every jump of the code that runs goes where it was meant to: to the first  *)
(* byte of its label's, function's or next line's code, or of the unit that    *)
(* stores the flag, and no patch has overwritten anything else.  (PatchJmp:    *)
(* offsets counted from 1 and back, requests kept from earlier translations    *)
(* of the same script, translations that failed half way.)  A jump to a line    *)
(* that does not exist, after a ret on the last, is left out.                  *)
(***************************************************************************)
JumpsLand ==
  status = "running" /\ Fresh =>
    \A k \in DOMAIN mcode_ :
      LET u == mcode_[k]
      IN  /\ u.op # "garbage"
          /\ u.to # <<>> /\ u.to[1] = "unit" => u.target = mcode_[k + u.to[2]].at
          /\ u.to # <<>> /\ u.to[1] = "line" /\ u.to[2] < Len(Lines) =>
               u.target = Landing(u.to[2])

(***************************************************************************)
(* Handlers take their arguments from the line run_line_ names.  Whenever one  *)
(* is called that is the line it was compiled for, whichever way control came: *)
(* by a jump the handler and the machine decide separately, over lines without *)
(* code, through calls and back.                                               *)
(***************************************************************************)
HandlersOnTheirLine == Fresh /\ Fetched("handler") => run_line_ = U.line

(***************************************************************************)
(* The native stack is aligned to 16 bytes at every call of a C++ function,     *)
(* in any depth of script functions, as the calling convention demands: the      *)
(* reason for the zeros pushed next to a saved address and for the rax saved     *)
(* around a call.                                                              *)
(***************************************************************************)
AlignedAtCalls ==
  \A op \in {"handler", "getptr", "foreign"} : Fresh /\ Fetched(op) => Len(stack) % 2 = 0

(***************************************************************************)
(* The two call stacks agree: the return addresses on the native stack are, in  *)
(* order, the places after the calls of the lines on callStack_.  Between the   *)
(* handler of a call or ret and its instruction one is ahead.  A function of    *)
(* the embedder leaves its arguments on the native stack, and a script function *)
(* that calls one returns into them: such scripts are excepted.                 *)
(***************************************************************************)
StacksAgree ==
  LET PopOf(l) == (CHOOSE u \in {mcode_[k] : k \in DOMAIN mcode_} :
                     u.line = l /\ u.op = "pop").at
      Uses(flag) == \E i \in DOMAIN Lines : Lines[i].flag = flag
  IN  status = "running" /\ Fresh /\ ~Uses("UFunc") /\ rip = Landing(was.line) =>
        \E place \in [DOMAIN callStack_ -> DOMAIN stack] :
          /\ \A n, m \in DOMAIN callStack_ : n < m => place[n] < place[m]
          /\ \A n \in DOMAIN callStack_ : stack[place[n]] = PopOf(callStack_[n])
          /\ \A k \in DOMAIN stack : stack[k] >= 0 => \E n \in DOMAIN callStack_ : k = place[n]

S == INSTANCE ScriptLines WITH
       script <- was.script, line <- was.line, frames <- was.frames, flag <- was.flag,
       values <- was.values, ran <- was.ran

(***************************************************************************)
(* Compiled code runs the script: from the beginning of a line to the         *)
(* beginning of the next it does what ScriptLines does in one step, however     *)
(* often the processor has translated this script before.  (FillJitCompiler    *)
(* and all Jit_ handlers against the handlers they stand for.)                  *)
(***************************************************************************)
ImplementsLines == S!Init /\ [][Fresh => S!Next]_(S!vars)

\* A compiled script ends: its loops are those of the script, and unbounded
\* recursion stops at the bound of callStack_.
RunEnds ==
  status \in {"translating", "running"} ~> status \in {"idle", "terminated", "wild"}

\* README.md:21: a script may be interpreted or run through JIT compilation, and
\* README.md:6 has cmpr compare two values as asm does: after a cmpr of two
\* variables the flag tells how they stand to each other, as Cmpr makes it.
ComparesVariables ==
  [][Fetched("incline") /\ Command0.cmd = "Cmpr" /\ IsVar(Command0.dst) /\ IsVar(Command0.src)
       => cmpr_flag_ = SignOf(vars_[Command0.dst.var] - vars_[Command0.src.var])]_vars
=============================================================================
