---------------------------- MODULE Interpreter ----------------------------
(***************************************************************************)
(* VirtualProcessor_t::RunScript (Compiler.h) and the handlers of            *)
(* Functions.h over the run instance of DataHandling.h: the line counter,    *)
(* the compare flag, the variables, the registers and two stacks, which are  *)
(* the bounded stacks of StackOps.  One action per kind of source line: the  *)
(* argument check, the handler, CHECK_ERROR and the loop's run_line_ ++ are   *)
(* one step.  An exception stops the script at its line until the user       *)
(* answers the message box; its records come from the exception pool.        *)
(*                                                                         *)
(* A variable holds one cell per scalar field of its type, and a member names *)
(* one.  The '*' of an argument is masked by every handler: p and *p are the   *)
(* same here.  Of the registers that share bytes (Map.cpp) Reg holds disjoint ones.  *)
(***************************************************************************)
EXTENDS Integers, Sequences, Words
LOCAL INSTANCE Functions

CONSTANTS
  Programs,     \* name -> [lines, vars]: what ScriptLoader reads from a file
  Structs,      \* struct type -> the sequence of its scalar fields
  Reg,          \* register -> its size in bytes
  Address(_),   \* the number GetVal gives for a string or a variable's place
  Strings,      \* those numbers that are strings print may dereference
  Garbage,      \* what uninitialised memory may hold
  Foreign,      \* what a function of a DLL may return or store
  WildFrames,   \* what lies before the call stack's block, as CallInfo_t
  MaxData, MaxCalls,  \* maxElements of the two stacks
  AllocFails,   \* whether operator new may throw
  PoolSize      \* records in the exception pool

\* The lines of a program are a sequence.
ASSUME ProgramsAssumption == \A p \in DOMAIN Programs : Len(Programs[p].lines) \in Nat

VARIABLES
  script,         \* the loaded program's name
  run_line_,      \* counted from 0
  cmpr_flag_,     \* 2 not set, 0 equal, 1 high, -1 low
  vars_,          \* variable -> [code, cells]
  registers_,
  dataStack_,
  callStack_,     \* of [retLine, var], var 0 outside a method
  stackDumpPoint_,
  currentReturn_, \* "success", "fatal" or "continue"
  usedMem_,       \* exception records taken
  status          \* "running", "asking", "done", "thrown" or "crashed"

machine == <<cmpr_flag_, vars_, registers_, stackDumpPoint_>>
vars == <<script, run_line_, cmpr_flag_, vars_, registers_, dataStack_,
          callStack_, stackDumpPoint_, currentReturn_, usedMem_, status>>

D == INSTANCE StackOps WITH Value <- Int, Wild <- Garbage, Narrow <- LowByte,
                            MaxElements <- MaxData

\* CallInfo_t (int8_t): the one byte Array::pop reads becomes the line.
NarrowFrame(f) == [retLine |-> LowByte(f.retLine), var |-> 0]

C == INSTANCE StackOps WITH Value <- [retLine : Int, var : Int],
                            Wild <- WildFrames, Narrow <- NarrowFrame,
                            MaxElements <- MaxCalls

-----------------------------------------------------------------------------
\* The program.
Lines == Programs[script].lines
Line  == Lines[run_line_ + 1]
arg1  == Line.arg1
arg2  == Line.arg2

Width == [byte |-> 1, word |-> 2, dword |-> 4, ptr |-> 4, qword |-> 8]
Scalars == DOMAIN Width
TypeSizes == [Width EXCEPT !.ptr = 8]
Fields(code) == IF code \in Scalars THEN <<code>> ELSE Structs[code]

\* The flags each handler's FUNCTION_BEGIN lists for its two arguments.
Places == {"var", "member", "reg"}
Jumps  == {"Jmp", "Je", "Jne", "Ja", "Jae", "Jb", "Jbe"}
DllCalls == {"JIT_Call_Void", "JIT_Call_DWord", "JIT_Call_QWord"}
Arithmetic == {"Add", "Sub", "Mul", "Div"}
StackArithmetic == {"Adds", "Subs", "Muls", "Divs"}

Expected1(cmd) ==
  CASE cmd = "Push" -> Places \cup {"num", "str"}
    [] cmd = "Pop" -> Places \cup {"null"}
    [] cmd \in {"Mov", "Decr", "Sqrt"} \cup Arithmetic -> Places
    [] cmd = "Lea" -> {"var", "member"}
    [] cmd = "RebuildVar" -> {"var", "null"}
    [] cmd = "Print" -> {"num"}
    [] cmd = "Cmpr" -> Places \cup {"num"}
    [] cmd \in Jumps -> {"label"}
    [] cmd = "Call" -> {"func", "funcMember"}
    [] cmd \in DllCalls -> {"dllFunc"}
    [] OTHER -> {"null"}

Expected2(cmd) ==
  CASE cmd \in {"Mov", "Print"} -> Places \cup {"num", "str"}
    [] cmd = "Lea" -> Places \cup {"str"}
    [] cmd = "RebuildVar" -> {"num"}
    [] cmd \in {"Cmpr"} \cup Arithmetic -> Places \cup {"num"}
    [] cmd \in {"JIT_Call_DWord", "JIT_Call_QWord"} -> Places
    [] OTHER -> {"null"}

\* ManageInputArgs_t.  RebuildVar declares one flag more than it passes, so its
\* handler may or may not take the null of a variable without a type.
Odd == Line.cmd = "RebuildVar" /\ arg2.kind = "null"
Listed == arg1.kind \in Expected1(Line.cmd) /\ arg2.kind \in Expected2(Line.cmd)

-----------------------------------------------------------------------------
\* How a line ends.  Ends is the end of a handler: CHECK_ERROR, then the loop's
\* ++.  Throws is an exception of n records reaching the catch in the loop.
Throws(line, n) ==
  /\ run_line_' = line
  /\ usedMem_' = usedMem_ + n
  /\ status' = IF usedMem_ + n > PoolSize THEN "crashed" ELSE "asking"
  /\ UNCHANGED script

CheckError(line, ret) ==
  IF ret = "fatal" THEN Throws(line, 1)
  ELSE run_line_' = line + 1 /\ UNCHANGED <<script, usedMem_, status>>

Ends(line, ret) == currentReturn_' = ret /\ CheckError(line, ret)

Crashes ==
  /\ status' = "crashed"
  /\ UNCHANGED <<script, run_line_, currentReturn_, usedMem_>>

Fetched(flag) ==
  /\ status = "running"
  /\ run_line_ \in 0 .. Len(Lines) - 1
  /\ Line.flag = flag

-----------------------------------------------------------------------------
\* MemberVarPt: a member without a variable of its own belongs to the object
\* the top frame was called on.
OfTopFrame(a) == a.kind = "member" /\ a.var = 0
NeedsObject == OfTopFrame(arg1) \/ OfTopFrame(arg2)

TopFrames == C!TopOutcomes(callStack_, [retLine |-> 0, var |-> 0])

Objects ==
  IF NeedsObject
  THEN {o.val.var : o \in {t \in TopFrames : t.end = "returned"}} \cap DOMAIN vars_
  ELSE {0}

Owner(a, obj) == IF a.kind = "var" THEN a.var ELSE IF a.var = 0 THEN obj ELSE a.var
Offset(a) == IF a.kind = "var" THEN 1 ELSE a.offset
TypeOf(a) ==
  IF a.kind = "var" THEN vars_[a.var].code ELSE IF a.kind = "member" THEN a.code ELSE "none"
WidthOf(a) ==
  IF a.kind = "reg" THEN Reg[a.reg] ELSE IF TypeOf(a) \in Scalars THEN Width[TypeOf(a)] ELSE 0

\* GetSize, from the table of type sizes; a struct is as long as its fields.
GetSize(a) ==
  IF a.kind = "reg" THEN Reg[a.reg]
  ELSE LET fields == Fields(TypeOf(a))
       IN  FoldFunction(+, 0, [i \in DOMAIN fields |-> TypeSizes[fields[i]]])

\* GetVarPt and MemberVarPt.
AddressOf(v, offset) == Address([kind |-> "var", var |-> v, offset |-> offset])

\* GetVal and SetVal.  A variable of a struct type reads as 0 and is not set.
GetVal(a, obj) ==
  CASE a.kind \in {"var", "member"} ->
         IF TypeOf(a) \in Scalars
         THEN SignExtend(vars_[Owner(a, obj)].cells[Offset(a)], WidthOf(a)) ELSE 0
    [] a.kind = "reg" -> registers_[a.reg]
    [] a.kind = "num" -> a.num
    [] a.kind = "str" -> Address(a)
    [] OTHER -> 0

SetVal(a, obj, val) ==
  /\ vars_' = IF a.kind \in {"var", "member"} /\ TypeOf(a) \in Scalars
              THEN [vars_ EXCEPT ![Owner(a, obj)].cells[Offset(a)] =
                                   SignExtend(val, WidthOf(a))]
              ELSE vars_
  /\ registers_' = IF a.kind = "reg"
                   THEN [registers_ EXCEPT ![a.reg] = SignExtend(val, WidthOf(a))]
                   ELSE registers_

\* The kinds of output print knows; with any other it does not look at the value.
PRINT_STRING == 54
PRINT_NUMBER == 55
PRINT_STACK  == 56
Formats == arg1.num \in {PRINT_STRING, PRINT_NUMBER}

\* FUNCTION_BEGIN accepted the arguments.
Ready(cmd) ==
  /\ Fetched("Func")
  /\ Line.cmd = cmd
  /\ Listed \/ Odd

\* FUNCTION_BEGIN rejects the arguments: the command is skipped.
BadArguments ==
  /\ Fetched("Func")
  /\ ~Listed
  /\ Ends(run_line_, "continue")
  /\ UNCHANGED <<machine, dataStack_, callStack_>>

\* A destination of another size than the result is an error JIT_Call_DWord and
\* JIT_Call_QWord note before anything else: FUNCTION_END overwrites it, a throw
\* leaves it behind.
WrongSize ==
  \/ Line.cmd = "JIT_Call_DWord" /\ GetSize(arg2) # 4
  \/ Line.cmd = "JIT_Call_QWord" /\ GetSize(arg2) # 8

ThrowsFrom(n) ==
  /\ Throws(run_line_, n)
  /\ currentReturn_' = IF WrongSize THEN "continue" ELSE currentReturn_

\* The object of a member cannot be found: the call stack is broken, its top frame is not a
\* method's, or there is no frame and what lies there is no object.
ObjectMissing ==
  \E t \in TopFrames :
    \/ t.end = "threw" /\ ThrowsFrom(t.records)
    \/ t.end = "returned" /\ t.val.var = 0 /\ ThrowsFrom(1)
    \/ t.end = "returned" /\ t.val.var \notin {0} \cup DOMAIN vars_ /\ Crashes
    \/ t.end = "fault" /\ Crashes

NoObject ==
  /\ Fetched("Func")
  /\ Listed
  /\ Line.cmd # "Pop"
  /\ Line.cmd \in DllCalls => ~dataStack_.broken
  /\ Line.cmd = "Lea" => TypeOf(arg1) = "ptr"
  /\ Line.cmd = "Print" => Formats
  /\ NeedsObject
  /\ ObjectMissing
  /\ UNCHANGED <<machine, dataStack_, callStack_>>

-----------------------------------------------------------------------------
\* The handlers.  How a call on a stack ends the line: an exception keeps
\* currentReturn_, an access violation ends the process.
Outcome(o, line, ret) ==
  CASE o.end = "returned" -> Ends(line, ret)
    [] o.end = "threw" -> Throws(line, o.records) /\ UNCHANGED currentReturn_
    [] o.end = "fault" -> Crashes

\* RebuildVar: delete [] and new [] of the new type's size.
RebuildVar ==
  /\ Ready("RebuildVar")
  /\ LET code == IF arg2.kind = "num" THEN arg2.code ELSE "qword"
     IN  \E g \in Garbage :
           vars_' = [vars_ EXCEPT ![arg1.var] =
                       [code |-> code, cells |-> [i \in DOMAIN Fields(code) |-> g]]]
  /\ Ends(run_line_, "success")
  /\ UNCHANGED <<cmpr_flag_, registers_, stackDumpPoint_, dataStack_, callStack_>>

Push ==
  /\ Ready("Push")
  /\ \E obj \in Objects :
       /\ \E o \in D!PushOutcomes(dataStack_, GetVal(arg1, obj)) :
            /\ dataStack_' = o.st
            /\ Outcome(o, run_line_, "success")
  /\ UNCHANGED <<machine, callStack_>>

\* The element is popped before its destination's object is looked up.
Pop ==
  /\ Fetched("Func")
  /\ Line.cmd = "Pop"
  /\ Listed
  /\ \E o \in D!PopOutcomes(dataStack_, 0) :
       /\ dataStack_' = o.st
       /\ \/ /\ o.end = "returned"
             /\ \E obj \in Objects : SetVal(arg1, obj, o.val)
             /\ Ends(run_line_, "success")
          \/ /\ o.end = "returned"
             /\ NeedsObject
             /\ ObjectMissing
             /\ UNCHANGED <<vars_, registers_>>
          \/ /\ o.end = "threw"
             /\ Outcome(o, run_line_, "success")
             /\ UNCHANGED <<vars_, registers_>>
  /\ UNCHANGED <<cmpr_flag_, stackDumpPoint_, callStack_>>

\* Variables of one type are copied whole, structs with all their fields.
Mov ==
  /\ Ready("Mov")
  /\ \E obj \in Objects :
       /\ IF /\ arg1.kind = "var" /\ arg2.kind = "var"
             /\ TypeOf(arg1) = TypeOf(arg2)
          THEN /\ vars_' = [vars_ EXCEPT ![arg1.var].cells = vars_[arg2.var].cells]
               /\ UNCHANGED registers_
          ELSE SetVal(arg1, obj, GetVal(arg2, obj))
  /\ Ends(run_line_, "success")
  /\ UNCHANGED <<cmpr_flag_, stackDumpPoint_, dataStack_, callStack_>>

\* A variable of four bytes takes the address of a place.
Lea ==
  /\ Ready("Lea")
  /\ \/ /\ TypeOf(arg1) # "ptr"
        /\ UNCHANGED <<vars_, registers_>>
        /\ Ends(run_line_, "continue")
     \/ /\ TypeOf(arg1) = "ptr"
        /\ \E obj \in Objects :
             SetVal(arg1, obj, IF arg2.kind \in {"var", "member"}
                               THEN AddressOf(Owner(arg2, obj), Offset(arg2))
                               ELSE Address(arg2))
        /\ Ends(run_line_, "success")
  /\ UNCHANGED <<cmpr_flag_, stackDumpPoint_, dataStack_, callStack_>>

\* Printing as a string what is none either works or faults.
PrintFormatted(val) ==
  IF arg1.num = PRINT_STRING /\ val = 0 THEN Ends(run_line_, "continue")
  ELSE \/ Ends(run_line_, "success")
       \/ arg1.num = PRINT_STRING /\ val \notin Strings /\ Crashes

PrintValue ==
  /\ Ready("Print")
  /\ IF arg2.kind = "num" /\ arg2.num # PRINT_STACK THEN Ends(run_line_, "continue")
     ELSE IF ~Formats THEN Ends(run_line_, "success")
     ELSE IF arg2.kind # "num"
     THEN \E obj \in Objects : PrintFormatted(GetVal(arg2, obj))
     ELSE \E o \in D!TopOutcomes(dataStack_, 0) :
            IF o.end = "returned" THEN PrintFormatted(o.val)
            ELSE Outcome(o, run_line_, "success")
  /\ UNCHANGED <<machine, dataStack_, callStack_>>

\* Mutant: the flag is the difference, as strcmp would give it.
CmprDifference ==
  /\ Ready("Cmpr")
  /\ \E obj \in Objects : cmpr_flag_' = GetVal(arg1, obj) - GetVal(arg2, obj)
  /\ Ends(run_line_, "success")
  /\ UNCHANGED <<vars_, registers_, stackDumpPoint_, dataStack_, callStack_>>

\* The flag tells how the first value stands to the second.
Cmpr ==
  /\ Ready("Cmpr")
  /\ \E obj \in Objects :
       /\ LET val1 == GetVal(arg1, obj)
              val2 == GetVal(arg2, obj)
          IN  cmpr_flag_' = IF val1 > val2 THEN 1 ELSE IF val1 < val2 THEN -1 ELSE 0
  /\ Ends(run_line_, "success")
  /\ UNCHANGED <<vars_, registers_, stackDumpPoint_, dataStack_, callStack_>>

\* Mutant: jne compares with FLAG_NOT_SET instead of FLAG_EQUAL.
TakenIfSet(cmd) ==
  CASE cmd = "Jmp" -> TRUE
    [] cmd = "Je"  -> cmpr_flag_ = 0
    [] cmd = "Jne" -> cmpr_flag_ # 2
    [] cmd = "Ja"  -> cmpr_flag_ = 1
    [] cmd = "Jb"  -> cmpr_flag_ = -1
    [] cmd = "Jae" -> cmpr_flag_ \in {0, 1}
    [] cmd = "Jbe" -> cmpr_flag_ \in {0, -1}

\* The situations JUMP_AUTOFILL is given.
Taken(cmd) ==
  CASE cmd = "Jmp" -> TRUE
    [] cmd = "Je"  -> cmpr_flag_ = 0
    [] cmd = "Jne" -> cmpr_flag_ # 0
    [] cmd = "Ja"  -> cmpr_flag_ = 1
    [] cmd = "Jb"  -> cmpr_flag_ = -1
    [] cmd = "Jae" -> cmpr_flag_ \in {0, 1}
    [] cmd = "Jbe" -> cmpr_flag_ \in {0, -1}

\* The error of a flag that is not set is overwritten by FUNCTION_END.
Jump ==
  /\ \E cmd \in Jumps :
       /\ Ready(cmd)
       /\ Ends(IF Taken(cmd) THEN arg1.line ELSE run_line_, "success")
  /\ UNCHANGED <<machine, dataStack_, callStack_>>

\* The line is set before pop, which may throw, as top may.
Ret ==
  /\ Ready("Ret")
  /\ \E t \in TopFrames :
       \/ /\ t.end = "returned"
          /\ \E o \in C!PopOutcomes(callStack_, [retLine |-> 0, var |-> 0]) :
               /\ callStack_' = o.st
               /\ Outcome(o, t.val.retLine + 1, "success")
       \/ /\ t.end # "returned"
          /\ Outcome(t, run_line_, "success")
          /\ UNCHANGED callStack_
  /\ UNCHANGED <<machine, dataStack_>>

\* Mutant: the line is set before the push.
EnterFirst(frame) ==
  \E o \in C!PushOutcomes(callStack_, frame) :
    /\ callStack_' = o.st
    /\ Outcome(o, arg1.line, "success")

\* Call, and ComplexCall for a method: called on no object of its own it keeps
\* the object of the frame it is called from.
Enter(frame) ==
  \E o \in C!PushOutcomes(callStack_, frame) :
    /\ callStack_' = o.st
    /\ Outcome(o, IF o.end = "returned" THEN arg1.line ELSE run_line_, "success")

\* Mutant: a method called on no object of its own has none.
CallForgets ==
  /\ Ready("Call")
  /\ Enter([retLine |-> run_line_, var |-> IF arg1.kind = "func" THEN 0 ELSE arg1.var])
  /\ UNCHANGED <<machine, dataStack_>>

Call ==
  /\ Ready("Call")
  /\ \/ arg1.kind = "func" /\ Enter([retLine |-> run_line_, var |-> 0])
     \/ /\ arg1.kind = "funcMember" /\ arg1.var # 0
        /\ Enter([retLine |-> run_line_, var |-> arg1.var])
     \/ /\ arg1.kind = "funcMember" /\ arg1.var = 0
        /\ \E t \in TopFrames :
             \/ t.end = "returned" /\ Enter([retLine |-> run_line_, var |-> t.val.var])
             \/ /\ t.end # "returned"
                /\ Outcome(t, run_line_, "success")
                /\ UNCHANGED callStack_
  /\ UNCHANGED <<machine, dataStack_>>

Decr ==
  /\ Ready("Decr")
  /\ \E obj \in Objects : SetVal(arg1, obj, GetVal(arg1, obj) - 1)
  /\ Ends(run_line_, "success")
  /\ UNCHANGED <<cmpr_flag_, stackDumpPoint_, dataStack_, callStack_>>

\* size () of a broken stack throws.
InitStackDumpPoint ==
  /\ Ready("InitStackDumpPoint")
  /\ IF dataStack_.broken
     THEN /\ Throws(run_line_, D!BrokenCost)
          /\ UNCHANGED <<currentReturn_, stackDumpPoint_>>
     ELSE /\ stackDumpPoint_' = D!Depth(dataStack_)
          /\ Ends(run_line_, "success")
  /\ UNCHANGED <<cmpr_flag_, vars_, registers_, dataStack_, callStack_>>

JIT_Printf ==
  /\ Ready("JIT_Printf")
  /\ Ends(run_line_, "success")
  /\ UNCHANGED <<machine, dataStack_, callStack_>>

\* What the foreign function may do to the variables: store through one of the
\* addresses on the stack above the dump point.  The elements stay on the stack.
Passed == {dataStack_.items[i] : i \in stackDumpPoint_ + 1 .. D!Depth(dataStack_)}

ForeignEffects ==
  {vars_} \cup
  {[vars_ EXCEPT ![p[1]].cells[p[2]] = g] :
     g \in Foreign,
     p \in {q \in {<<v, i>> : v \in DOMAIN vars_, i \in 1 .. 4} :
              /\ q[2] \in DOMAIN vars_[q[1]].cells
              /\ AddressOf(q[1], q[2]) \in Passed}}

\* How the code emitted for a call of n parameters ends, as ForeignCall shows.
\* Any function may fault; the error of an element of no size is thrown.
ForeignEnds(n, home) ==
  {"fault"} \cup (IF n \in home THEN {"returned"} ELSE {})
            \cup (IF n > 4 THEN {"threw"} ELSE {})

AboveDump == D!Depth(dataStack_) - stackDumpPoint_

CallDll(home, effects) ==
  IF dataStack_.broken
  THEN ThrowsFrom(D!BrokenCost) /\ UNCHANGED vars_
  ELSE \E end \in ForeignEnds(AboveDump, home) :
         \/ end = "returned" /\ vars_' \in effects /\ Ends(run_line_, "success")
         \/ end = "threw" /\ ThrowsFrom(1) /\ UNCHANGED vars_
         \/ end = "fault" /\ Crashes /\ UNCHANGED vars_

\* Only a call with parameters finds its way back.
JIT_Call_Void ==
  /\ Ready("JIT_Call_Void")
  /\ CallDll(1 .. MaxData \ {5, 6}, ForeignEffects)
  /\ UNCHANGED <<cmpr_flag_, registers_, stackDumpPoint_, dataStack_, callStack_>>

\* Only a call without parameters does, and its result is stored to an address
\* that is not the destination's.
JIT_Call_Value ==
  /\ Ready("JIT_Call_DWord") \/ Ready("JIT_Call_QWord")
  /\ Objects # {} \/ dataStack_.broken
  /\ CallDll(-MaxData .. 0, {vars_})
  /\ UNCHANGED <<cmpr_flag_, registers_, stackDumpPoint_, dataStack_, callStack_>>

\* C++ division rounds towards 0.
Quotient(a, b) ==
  LET Abs(n) == IF n < 0 THEN -n ELSE n
      q == Abs(a) \div Abs(b)
  IN  IF (a < 0) = (b < 0) THEN q ELSE -q

Result(cmd, a, b) ==
  CASE cmd \in {"Add", "Adds"} -> a + b
    [] cmd \in {"Sub", "Subs"} -> a - b
    [] cmd \in {"Mul", "Muls"} -> a * b
    [] cmd \in {"Div", "Divs"} -> Quotient(a, b)

ArithmeticFunction ==
  /\ \E cmd \in Arithmetic :
       /\ Ready(cmd)
       /\ \E obj \in Objects : LET opVal == GetVal(arg2, obj)
          IN  IF cmd = "Div" /\ opVal = 0
              THEN UNCHANGED <<vars_, registers_>> /\ Ends(run_line_, "fatal")
              ELSE /\ SetVal(arg1, obj, Result(cmd, GetVal(arg1, obj), opVal))
                   /\ Ends(run_line_, "success")
  /\ UNCHANGED <<cmpr_flag_, stackDumpPoint_, dataStack_, callStack_>>

\* Two pops and a push: an exception or a division by 0 loses what was popped.
StackArithmeticFunction ==
  /\ \E cmd \in StackArithmetic :
       /\ Ready(cmd)
       /\ \E o1 \in D!PopOutcomes(dataStack_, 0) :
            IF o1.end # "returned"
            THEN dataStack_' = o1.st /\ Outcome(o1, run_line_, "success")
            ELSE \E o0 \in D!PopOutcomes(o1.st, 0) :
                   IF o0.end # "returned"
                   THEN dataStack_' = o0.st /\ Outcome(o0, run_line_, "success")
                   ELSE IF cmd = "Divs" /\ o1.val = 0
                   THEN dataStack_' = o0.st /\ Ends(run_line_, "fatal")
                   ELSE \E o \in D!PushOutcomes(o0.st, Result(cmd, o0.val, o1.val)) :
                          dataStack_' = o.st /\ Outcome(o, run_line_, "success")
  /\ UNCHANGED <<machine, callStack_>>

\* sqrt of a negative value: the error is overwritten and NaN converted.
Root(val) == CHOOSE r \in 0 .. val :
               (r = 0 \/ r * (r - 1) < val) /\ val <= r * (r + 1)

Sqrt ==
  /\ Ready("Sqrt")
  /\ \E obj \in Objects :
       /\ LET val == GetVal(arg1, obj)
          IN  \E r \in IF val < 0 THEN Garbage ELSE {Root(val)} : SetVal(arg1, obj, r)
  /\ Ends(run_line_, "success")
  /\ UNCHANGED <<cmpr_flag_, stackDumpPoint_, dataStack_, callStack_>>

-----------------------------------------------------------------------------
\* A function of the embedding program, which may do what it likes with its own
\* data; CHECK_ERROR then reads what the last command left in currentReturn_.
UFunc ==
  /\ Fetched("UFunc")
  /\ CheckError(run_line_, currentReturn_)
  /\ UNCHANGED <<machine, dataStack_, callStack_, currentReturn_>>

\* Mutant: the declaration is passed over, its body is not.
CFuncFallsIn ==
  /\ Fetched("CFunc")
  /\ run_line_' = run_line_ + 1
  /\ UNCHANGED <<machine, script, dataStack_, callStack_, currentReturn_, usedMem_, status>>

\* A function's declaration is skipped up to and with the first ret.
CFunc ==
  /\ Fetched("CFunc")
  /\ LET rets == {i \in run_line_ .. Len(Lines) - 1 : Lines[i + 1].cmd = "Ret"}
     IN  \/ rets = {} /\ run_line_' = 1 + Len(Lines)
         \/ \E i \in rets : (\A j \in rets : i <= j) /\ run_line_' = 1 + i
  /\ UNCHANGED <<machine, script, dataStack_, callStack_, currentReturn_, usedMem_, status>>

\* Blank lines, labels, declarations the parser has used up.
Null ==
  /\ Fetched("Null")
  /\ run_line_' = run_line_ + 1
  /\ UNCHANGED <<machine, script, dataStack_, callStack_, currentReturn_, usedMem_, status>>

\* The message box of the catch in the loop.  Yes goes on with the next line.
Proceed ==
  /\ status = "asking"
  /\ run_line_' = run_line_ + 1
  /\ status' = "running"
  /\ UNCHANGED <<machine, script, dataStack_, callStack_, currentReturn_, usedMem_>>

\* No adds a record in the loop's catch and one in CATCH_CONS, which throws out
\* of RunScript; the instance is not deleted.
Refuse ==
  /\ status = "asking"
  /\ usedMem_' = usedMem_ + 2
  /\ status' = IF usedMem_ + 2 > PoolSize THEN "crashed" ELSE "thrown"
  /\ UNCHANGED <<machine, script, run_line_, dataStack_, callStack_, currentReturn_>>

\* The loop is over and the instance deleted: the destructor of a broken stack
\* throws, which ends the process.
Finish ==
  /\ status = "running"
  /\ run_line_ \notin 0 .. Len(Lines) - 1
  /\ status' = IF dataStack_.broken \/ callStack_.broken THEN "crashed" ELSE "done"
  /\ UNCHANGED <<machine, script, run_line_, dataStack_, callStack_, currentReturn_, usedMem_>>

-----------------------------------------------------------------------------
Init ==
  /\ script \in DOMAIN Programs
  /\ run_line_ = 0
  /\ cmpr_flag_ = 2
  /\ \E g \in Garbage :
       vars_ = [v \in DOMAIN Programs[script].vars |->
                  LET code == Programs[script].vars[v]
                  IN  [code |-> code, cells |-> [i \in DOMAIN Fields(code) |-> g]]]
  /\ registers_ = [r \in DOMAIN Reg |-> 0]
  /\ dataStack_ = D!EmptyStack
  /\ callStack_ = C!EmptyStack
  /\ stackDumpPoint_ = 0
  /\ currentReturn_ = "success"
  /\ usedMem_ = 0
  /\ status = "running"

Execute ==
  \/ BadArguments \/ NoObject
  \/ RebuildVar \/ Push \/ Pop \/ Mov \/ Lea \/ PrintValue \/ Cmpr \/ Jump \/ Ret \/ Call
  \/ Decr \/ InitStackDumpPoint \/ JIT_Printf \/ JIT_Call_Void \/ JIT_Call_Value
  \/ ArithmeticFunction \/ StackArithmeticFunction \/ Sqrt
  \/ UFunc \/ CFunc \/ Null \/ Finish

Answer == Proceed \/ Refuse

Next == Execute \/ Answer

Spec == Init /\ [][Next]_vars

\* The processor runs while it can; the user answers a message box.
FairSpec == Spec /\ WF_vars(Execute) /\ WF_vars(Answer)

-----------------------------------------------------------------------------
TypeOK ==
  /\ script \in DOMAIN Programs
  /\ run_line_ \in Int
  /\ cmpr_flag_ \in {2, 0, 1, -1}
  /\ \A v \in DOMAIN vars_ :
       \A i \in DOMAIN vars_[v].cells : vars_[v].cells[i] \in Int
  /\ registers_ \in [DOMAIN Reg -> Int]
  /\ dataStack_.broken \in BOOLEAN
  /\ \A i \in DOMAIN dataStack_.items : dataStack_.items[i] \in Int
  /\ \A i \in DOMAIN callStack_.items :
       callStack_.items[i].var \in {0} \cup DOMAIN vars_ \cup {w.var : w \in WildFrames}
  /\ D!Depth(dataStack_) <= MaxData /\ C!Depth(callStack_) <= MaxCalls
  /\ currentReturn_ \in {"success", "fatal", "continue"}
  /\ usedMem_ \in Nat
  /\ status \in {"running", "asking", "done", "thrown", "crashed"}

\* The declarations before a line that no ret has closed since.
Open(l) == {f \in 0 .. l - 1 : /\ Lines[f + 1].flag = "CFunc"
                               /\ \A r \in f + 1 .. l - 1 : Lines[r + 1].cmd # "Ret"}

\* The function a line belongs to, by the line of its declaration, -1 for none.
FunctionOf(l) ==
  IF Open(l) = {} THEN -1 ELSE CHOOSE f \in Open(l) : \A g \in Open(l) : f <= g

CalledBy(frame) == Lines[frame.retLine + 1].arg1.line

(***************************************************************************)
(* A script whose functions are closed pieces of it: none is declared inside   *)
(* another and a ret stands in one; a call names a declaration with a ret to   *)
(* come, and a line that does nothing follows it, since ret passes one over     *)
(* (not so at test.txt:50, where the ret of Init itself is passed over); a jump  *)
(* stays in its function.                                                    *)
(***************************************************************************)
Disciplined ==
  \A l \in 0 .. Len(Lines) - 1 :
    LET this   == Lines[l + 1]
        target == this.arg1.line
    IN  /\ this.flag = "CFunc" => Open(l) = {}
        /\ this.cmd = "Ret" =>
             /\ this.flag = "Func" /\ this.arg1.kind = "null" /\ this.arg2.kind = "null"
             /\ Open(l) # {}
        /\ this.cmd = "Call" /\ this.arg1.kind \in {"func", "funcMember"} =>
             /\ target \in 0 .. Len(Lines) - 1 /\ Lines[target + 1].flag = "CFunc"
             /\ \E r \in target + 1 .. Len(Lines) - 1 : Lines[r + 1].cmd = "Ret"
             /\ l < Len(Lines) - 1 /\ Lines[l + 2].flag = "Null"
        /\ this.cmd \in Jumps /\ this.arg1.kind = "label" =>
             target \in 0 .. Len(Lines) - 1 /\ Open(target + 1) = Open(l)

(***************************************************************************)
(* Control and the call stack tell one story.  Each frame was pushed by a    *)
(* call line of the function the frame below it entered, the bottom one by a *)
(* line outside every function, and the next line to run lies in the         *)
(* function the top frame entered: a function body is never run without a     *)
(* frame, nor a frame left behind.  (Call, Ret and the skipping of            *)
(* declarations in the loop.)  It needs a disciplined script, a call stack     *)
(* that has not overflowed, whose ret throws and is stepped over, and memory:   *)
(* a ret whose pop cannot allocate has set the line and keeps the frame.       *)
(***************************************************************************)
ControlFollowsCalls ==
  LET frames == callStack_.items
      Home(k) == IF k = 0 THEN -1 ELSE CalledBy(frames[k])
  IN  Disciplined /\ ~AllocFails /\ ~callStack_.broken =>
        /\ \A k \in DOMAIN frames :
             /\ Lines[frames[k].retLine + 1].cmd = "Call"
             /\ FunctionOf(frames[k].retLine) = Home(k - 1)
        /\ run_line_ \in 0 .. Len(Lines) - 1 =>
             FunctionOf(run_line_) = Home(Len(frames))
        /\ run_line_ >= Len(Lines) => frames = <<>>

\* The operands a command pops before it does anything else.
Operands ==
  IF Line.flag # "Func" THEN 0
  ELSE IF Line.cmd = "Pop" THEN 1
  ELSE IF Line.cmd \in StackArithmetic THEN 2 ELSE 0

(***************************************************************************)
(* What an exception in a handler leaves behind.  When the message box comes  *)
(* up, no variable, register, flag or dump point has changed and the frames    *)
(* are those from before.  The operands of the command are gone, as many of     *)
(* them as there were, unless the stack was broken already: a division by 0     *)
(* loses both, a lonely operand is lost, a value popped for a member without an *)
(* object is lost (Functions.h:283).  The line is the command's, but a ret       *)
(* without a frame has already gone where the memory below the stack told it.    *)
(* Where memory may run out, a pop or a push in the middle throws too: fewer     *)
(* operands may be gone, and a ret that keeps its frame has set the line.         *)
(***************************************************************************)
ThrowsLoseOperands ==
  [][status = "running" /\ status' = "asking" =>
       LET depth == D!Depth(dataStack_)
       IN  /\ UNCHANGED machine
           /\ callStack_'.items = callStack_.items
           /\ \/ run_line_' = run_line_
              \/ Line.cmd = "Ret" /\ (callStack_.items = <<>> \/ AllocFails)
           /\ \E n \in 0 .. Operands :
                /\ dataStack_'.items = SubSeq(dataStack_.items, 1, depth - n)
                /\ dataStack_.broken => n = 0
                /\ ~AllocFails /\ ~dataStack_.broken => n = Operands \/ n = depth]_vars

\* What the call that pushed the k-th frame named.
CalledOn(k) == Lines[callStack_.items[k].retLine + 1].arg1

NamesObject(k) == CalledOn(k).kind = "func" \/ CalledOn(k).var # 0

(***************************************************************************)
(* A method that is called on no object of its own works on the object of the  *)
(* last call that named one, however many such calls lie between, whatever was  *)
(* called and has returned since, and whatever has thrown: MemberVarPt and       *)
(* ComplexCall look at the top frame alone (DataHandling.h:142,160).  A function *)
(* that is no method has no object.  Below the first call that names one lies    *)
(* only what was read from outside the block of the stack.                       *)
(***************************************************************************)
MethodsKeepTheirObject ==
  LET frames == callStack_.items
  IN  \A j, k \in DOMAIN frames :
        /\ j <= k
        /\ NamesObject(j)
        /\ \A i \in j + 1 .. k : ~NamesObject(i)
        => frames[k].var = IF CalledOn(j).kind = "func" THEN 0 ELSE CalledOn(j).var

\* A script whose loops end, ends: unbounded recursion stops at the bound of the
\* call stack, and a user who always proceeds at the end of the program or of
\* the exception pool.
EventuallyEnds == <>(status \in {"done", "thrown", "crashed"})

\* Functions.h:153 calls a conditional jump on a flag no cmpr has set an error,
\* "Flag not set": the jump's line ends with that error.
UnsetFlagIsAnError ==
  [][Fetched("Func") /\ Line.cmd \in Jumps \ {"Jmp"} /\ cmpr_flag_ = 2
       => currentReturn_' = "continue"]_vars

\* README.md:6 bases the language on Intel asm, where ret resumes at the
\* instruction after the call, and test.txt:50-51 ends a function with a call and
\* its ret: the line after the call is the next one to run.
RetResumesAfterCall ==
  [][Ready("Ret") /\ callStack_.items # <<>> /\ status' = "running"
       => run_line_' = C!TopOf(callStack_).retLine + 1]_vars
=============================================================================
