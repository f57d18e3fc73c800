------------------------- MODULE InterpreterProofs -------------------------
(***************************************************************************)
(* A running script for every program, every bound of the two stacks and     *)
(* every pool of exception records: control follows the call stack, methods   *)
(* keep their object, and an exception costs a command its operands at most.    *)
(***************************************************************************)
EXTENDS Interpreter, SequenceFacts

-----------------------------------------------------------------------------
\* The inductive invariant.
IsStack(st) ==
  /\ st \in [items : {st.items}, broken : BOOLEAN]
  /\ IsSeq(st.items)

\* The function the k-th frame entered.
Around(k) == IF k = 0 THEN {} ELSE {CalledBy(callStack_.items[k])}

PushedByCall(k) ==
  LET line == callStack_.items[k].retLine
  IN  /\ line \in 0 .. Len(Lines) - 1
      /\ Lines[line + 1].flag = "Func"
      /\ Lines[line + 1].cmd = "Call"
      /\ Lines[line + 1].arg1.kind \in {"func", "funcMember"}
      /\ Open(line) = Around(k - 1)

\* Where a script may be asked about an exception: never on a ret.
AskedOK ==
  /\ run_line_ < Len(Lines)
  /\ Line.flag \in {"Func", "UFunc"}
  /\ Line.cmd # "Ret"

Orderly == Disciplined /\ ~AllocFails /\ ~callStack_.broken

\* The line just behind the last one counts as a line: no function is open there.
ControlOK ==
  /\ run_line_ \in Nat
  /\ \A k \in 1 .. Len(callStack_.items) : PushedByCall(k)
  /\ run_line_ <= Len(Lines) => Open(run_line_) = Around(Len(callStack_.items))
  /\ run_line_ > Len(Lines) => Len(callStack_.items) = 0
  /\ status = "asking" => AskedOK

Shape ==
  /\ script \in DOMAIN Programs
  /\ IsStack(dataStack_)
  /\ IsStack(callStack_)

IInv ==
  /\ Shape
  /\ Orderly => ControlOK
  /\ MethodsKeepTheirObject

-----------------------------------------------------------------------------
\* The two stacks.
LEMMA Restacked ==
  ASSUME NEW s, IsStack(s)
  PROVE  /\ \A t : IsSeq(t) => /\ IsStack([s EXCEPT !.items = t])
                               /\ [s EXCEPT !.items = t].items = t
                               /\ [s EXCEPT !.items = t].broken = s.broken
         /\ IsStack([s EXCEPT !.broken = TRUE])
         /\ [s EXCEPT !.broken = TRUE].items = s.items
         /\ [s EXCEPT !.broken = TRUE].broken
  <1> DEFINE items == s.items
  <1>1. s \in [items : {items}, broken : BOOLEAN] /\ IsSeq(items)
    BY DEF IsStack
  <1>2. s.items = items
    OBVIOUS
  <1> HIDE DEF items
  <1>3. /\ \A t : /\ [s EXCEPT !.items = t] \in [items : {t}, broken : BOOLEAN]
                 /\ [s EXCEPT !.items = t].broken = s.broken
        /\ [s EXCEPT !.broken = TRUE] \in [items : {items}, broken : BOOLEAN]
        /\ [s EXCEPT !.broken = TRUE].broken
    BY <1>1
  <1>4. /\ \A t : [s EXCEPT !.items = t].items = t
        /\ [s EXCEPT !.broken = TRUE].items = items
    BY <1>3
  <1> QED
    BY <1>1, <1>2, <1>3, <1>4 DEF IsStack

LEMMA DataPush ==
  ASSUME NEW s, IsStack(s), NEW v, NEW o \in D!PushOutcomes(s, v)
  PROVE  /\ IsStack(o.st)
         /\ o.end \in {"returned", "threw", "fault"}
         /\ o.end = "threw" => o.st.items = s.items
  <1> DEFINE pushed == [s EXCEPT !.items = Append(@, v)]
             grown == [s EXCEPT !.broken = TRUE]
  <1>1. \/ s.broken /\ o = D!Threw(s, v, D!BrokenCost)
        \/ ~s.broken /\ AllocFails /\ o = D!Threw(s, v, D!FailureCost)
        \/ ~s.broken /\ o = D!Returned(pushed, v)
        \/ ~s.broken /\ o = D!Threw(grown, v, D!BrokenCost)
    BY DEF D!PushOutcomes, D!AllocFailure
  <1>2. IsSeq(Append(s.items, v))
    BY AppendIsSeq DEF IsStack
  <1>3. /\ IsStack(pushed) /\ pushed.items = Append(s.items, v)
        /\ IsStack(grown) /\ grown.items = s.items /\ grown.broken
    BY <1>2, Restacked
  <1> HIDE DEF pushed, grown
  <1>4. CASE o = D!Returned(pushed, v)
    BY <1>1, <1>3, <1>4 DEF D!Threw, D!Returned
  <1>5. CASE \E n \in {D!BrokenCost, D!FailureCost} : o = D!Threw(s, v, n)
    BY <1>1, <1>3, <1>5 DEF D!Threw, D!Returned
  <1>6. CASE o = D!Threw(grown, v, D!BrokenCost)
    BY <1>1, <1>3, <1>6 DEF D!Threw, D!Returned
  <1> QED
    BY <1>1, <1>4, <1>5, <1>6

LEMMA DataPop ==
  ASSUME NEW s, IsStack(s), NEW idle, NEW o \in D!PopOutcomes(s, idle)
  PROVE  /\ IsStack(o.st)
         /\ o.end \in {"returned", "threw"}
         /\ o.end = "threw" => /\ o.st.items = s.items
                               /\ AllocFails \/ s.broken \/ Len(s.items) = 0
         /\ o.end = "returned" =>
              /\ Len(s.items) > 0 /\ o.st.items = SubSeq(s.items, 1, Len(s.items) - 1)
              /\ ~s.broken /\ ~o.st.broken
  <1> DEFINE popped == [s EXCEPT !.items = SubSeq(@, 1, Len(@) - 1)]
             n == Len(s.items)
  <1>0. n \in Nat /\ IsSeq(s.items)
    BY DEF IsStack, IsSeq
  <1>1. \/ /\ AllocFails \/ s.broken \/ n = 0
           /\ \E c \in {D!BrokenCost, D!FailureCost} : o = D!Threw(s, idle, c)
        \/ n > 0 /\ ~s.broken /\ o = D!Returned(popped, LowByte(D!TopOf(s)))
    BY <1>0 DEF D!PopOutcomes, D!AllocFailure, D!Depth
  <1>2. ASSUME n > 0 
        PROVE  /\ IsStack(popped) /\ popped.items = SubSeq(s.items, 1, n - 1)
               /\ popped.broken = s.broken
    <2>1. n - 1 \in 0 .. n
      BY <1>0, <1>2
    <2>2. IsSeq(SubSeq(s.items, 1, n - 1))
      BY <1>0, <2>1, FrontIsSeq
    <2> QED
      BY <2>2, Restacked
  <1> HIDE DEF popped
  <1>3. CASE n > 0 /\ ~s.broken /\ o = D!Returned(popped, LowByte(D!TopOf(s)))
    BY <1>2, <1>3 DEF D!Returned
  <1>4. CASE /\ AllocFails \/ s.broken \/ n = 0
             /\ \E c \in {D!BrokenCost, D!FailureCost} : o = D!Threw(s, idle, c)
    BY <1>4 DEF D!Threw
  <1> QED
    BY <1>1, <1>3, <1>4

LEMMA DataTop ==
  ASSUME NEW s, NEW idle, NEW o \in D!TopOutcomes(s, idle)
  PROVE  o.end \in {"returned", "threw", "fault"}
  BY DEF D!TopOutcomes, D!Threw, D!Returned, D!Faulted

LEMMA CallPush ==
  ASSUME NEW s, IsStack(s), NEW v, NEW o \in C!PushOutcomes(s, v)
  PROVE  /\ IsStack(o.st)
         /\ o.end \in {"returned", "threw"}
         /\ o.end = "threw" => o.st.items = s.items /\ (AllocFails \/ o.st.broken)
         /\ o.end = "returned" => ~s.broken /\ o.st.items = Append(s.items, v)
  <1> DEFINE pushed == [s EXCEPT !.items = Append(@, v)]
             grown == [s EXCEPT !.broken = TRUE]
  <1>1. \/ s.broken /\ o = C!Threw(s, v, C!BrokenCost)
        \/ ~s.broken /\ AllocFails /\ o = C!Threw(s, v, C!FailureCost)
        \/ ~s.broken /\ o = C!Returned(pushed, v)
        \/ ~s.broken /\ o = C!Threw(grown, v, C!BrokenCost)
    BY DEF C!PushOutcomes, C!AllocFailure
  <1>2. IsSeq(Append(s.items, v))
    BY AppendIsSeq DEF IsStack
  <1>3. /\ IsStack(pushed) /\ pushed.items = Append(s.items, v)
        /\ IsStack(grown) /\ grown.items = s.items /\ grown.broken
    BY <1>2, Restacked
  <1> HIDE DEF pushed, grown
  <1>4. CASE o = C!Returned(pushed, v)
    BY <1>1, <1>3, <1>4 DEF C!Threw, C!Returned
  <1>5. CASE \E n \in {C!BrokenCost, C!FailureCost} : o = C!Threw(s, v, n)
    BY <1>1, <1>3, <1>5 DEF C!Threw, C!Returned
  <1>6. CASE o = C!Threw(grown, v, C!BrokenCost)
    BY <1>1, <1>3, <1>6 DEF C!Threw, C!Returned
  <1> QED
    BY <1>1, <1>4, <1>5, <1>6

LEMMA CallPop ==
  ASSUME NEW s, IsStack(s), NEW idle, NEW o \in C!PopOutcomes(s, idle)
  PROVE  /\ IsStack(o.st)
         /\ o.end \in {"returned", "threw"}
         /\ o.st.broken = s.broken
         /\ o.end = "threw" =>
              /\ o.st.items = s.items
              /\ AllocFails \/ s.broken \/ Len(s.items) = 0
         /\ o.end = "returned" =>
              Len(s.items) > 0 /\ o.st.items = SubSeq(s.items, 1, Len(s.items) - 1)
  <1> DEFINE popped == [s EXCEPT !.items = SubSeq(@, 1, Len(@) - 1)]
             n == Len(s.items)
  <1>0. n \in Nat /\ IsSeq(s.items)
    BY DEF IsStack, IsSeq
  <1>1. \/ /\ AllocFails \/ s.broken \/ n = 0
           /\ \E c \in {C!BrokenCost, C!FailureCost} : o = C!Threw(s, idle, c)
        \/ n > 0 /\ o = C!Returned(popped, NarrowFrame(C!TopOf(s)))
    BY <1>0 DEF C!PopOutcomes, C!AllocFailure, C!Depth
  <1>2. ASSUME n > 0 
        PROVE  /\ IsStack(popped) /\ popped.items = SubSeq(s.items, 1, n - 1)
               /\ popped.broken = s.broken
    <2>1. n - 1 \in 0 .. n
      BY <1>0, <1>2
    <2>2. IsSeq(SubSeq(s.items, 1, n - 1))
      BY <1>0, <2>1, FrontIsSeq
    <2> QED
      BY <2>2, Restacked
  <1> HIDE DEF popped
  <1>3. CASE n > 0 /\ o = C!Returned(popped, NarrowFrame(C!TopOf(s)))
    BY <1>2, <1>3 DEF C!Returned
  <1>4. CASE /\ AllocFails \/ s.broken \/ n = 0
             /\ \E c \in {C!BrokenCost, C!FailureCost} : o = C!Threw(s, idle, c)
    BY <1>4 DEF C!Threw
  <1> QED
    BY <1>1, <1>3, <1>4

LEMMA CallTop ==
  ASSUME NEW s, IsStack(s), NEW idle, NEW o \in C!TopOutcomes(s, idle)
  PROVE  /\ o.end \in {"returned", "threw", "fault"}
         /\ o.end = "threw" => s.broken
         /\ o.end = "fault" => Len(s.items) = 0
         /\ o.end = "returned" /\ Len(s.items) > 0 => o.val = s.items[Len(s.items)]
  <1>0. Len(s.items) \in Nat
    BY DEF IsStack, IsSeq
  <1> QED
    BY <1>0 DEF C!TopOutcomes, C!Threw, C!Returned, C!Faulted, C!Depth, C!TopOf

-----------------------------------------------------------------------------
\* How a line ends.
Moves ==
  /\ UNCHANGED script
  /\ \/ run_line_' = run_line_ + 1 /\ status' = status
     \/ run_line_' = run_line_ /\ status' \in {"asking", "crashed"}

LEMMA EndsMove ==
  ASSUME NEW line, NEW ret, Ends(line, ret)
  PROVE  /\ UNCHANGED script
         /\ \/ run_line_' = line + 1 /\ status' = status
            \/ ret = "fatal" /\ run_line_' = line /\ status' \in {"asking", "crashed"}
  BY DEF Ends, CheckError, Throws

LEMMA OutcomeMoves ==
  ASSUME NEW o, NEW line, o.end \in {"returned", "threw", "fault"},
         Outcome(o, line, "success")
  PROVE  /\ UNCHANGED script
         /\ \/ o.end = "returned" /\ run_line_' = line + 1 /\ status' = status
            \/ o.end = "threw" /\ run_line_' = line /\ status' \in {"asking", "crashed"}
            \/ o.end = "fault" /\ run_line_' = run_line_ /\ status' = "crashed"
  <1>1. CASE o.end = "returned"
    BY <1>1, EndsMove DEF Outcome
  <1>2. CASE o.end = "threw"
    BY <1>2 DEF Outcome, Throws
  <1>3. CASE o.end = "fault"
    BY <1>3 DEF Outcome, Crashes
  <1> QED
    BY <1>1, <1>2, <1>3

LEMMA MissingMoves ==
  ASSUME ObjectMissing, IsStack(callStack_)
  PROVE  UNCHANGED script /\ run_line_' = run_line_ /\ status' \in {"asking", "crashed"}
  BY DEF ObjectMissing, ThrowsFrom, Throws, Crashes

\* What every command but a jump, a ret and a call does: it goes to the next line,
\* or asks or ends at its own, and has then changed nothing but the data stack.
Lost(n) ==
  /\ dataStack_'.items = SubSeq(dataStack_.items, 1, D!Depth(dataStack_) - n)
  /\ dataStack_.broken => n = 0
  /\ ~AllocFails /\ ~dataStack_.broken => n = Operands \/ n = D!Depth(dataStack_)

Undone == UNCHANGED machine /\ \E n \in 0 .. Operands : Lost(n)

NeverOnRet == Listed /\ ~NeedsObject => Line.cmd # "Ret"

Works ==
  /\ Fetched("Func") \/ Fetched("UFunc")
  /\ Moves
  /\ NeverOnRet \/ Line.flag # "Func"
  /\ status' = "asking" => Undone
  /\ IsStack(dataStack_') /\ UNCHANGED callStack_

LEMMA OperandsRange ==
  /\ Operands \in {0, 1, 2}
  /\ Line.flag # "Func" \/ Line.cmd \notin {"Pop"} \cup StackArithmetic => Operands = 0
  BY DEF Operands

LEMMA NothingLost ==
  ASSUME IsStack(dataStack_), dataStack_'.items = dataStack_.items,
         AllocFails \/ dataStack_.broken \/ Len(dataStack_.items) = 0 \/ Operands = 0
  PROVE  \E n \in 0 .. Operands : Lost(n)
  <1>1. Lost(0)
    BY WholeFront DEF IsStack, Lost, D!Depth
  <1> QED
    BY <1>1, OperandsRange

-----------------------------------------------------------------------------
\* The commands that pop nothing.
LEMMA NoOperands ==
  ASSUME NEW cmd \in {"Push", "Print", "InitStackDumpPoint"} \cup DllCalls \cup Arithmetic,
         Ready(cmd)
  PROVE  Operands = 0 /\ cmd # "Ret"
  BY OperandsRange DEF Ready, StackArithmetic, DllCalls, Arithmetic

LEMMA Expectations ==
  /\ \A cmd \in Jumps : Expected1(cmd) = {"label"}
  /\ Expected1("Ret") = {"null"} /\ Expected2("Ret") = {"null"}
  /\ Expected1("Call") = {"func", "funcMember"}
  /\ \A cmd \in StackArithmetic : Expected1(cmd) = {"null"} /\ Expected2(cmd) = {"null"}
  BY DEF StackArithmetic, Expected1, Expected2, Jumps, Places, DllCalls, Arithmetic

LEMMA BadArgumentsWorks == ASSUME Shape, BadArguments PROVE Works
  <1>1. Moves /\ status' = status /\ Fetched("Func") /\ ~Listed
    BY EndsMove DEF BadArguments, Moves
  <1> QED
    BY <1>1 DEF BadArguments, Works, Shape, NeverOnRet, Fetched, IsStack

LEMMA NoObjectWorks == ASSUME Shape, NoObject PROVE Works
  <1>1. Moves /\ Fetched("Func") /\ NeedsObject /\ UNCHANGED <<machine, dataStack_, callStack_>>
    BY MissingMoves DEF NoObject, Moves, Shape
  <1>2. Operands = 0
    <2>1. Line.cmd \notin StackArithmetic
      BY <1>1, Expectations DEF NoObject, Listed, NeedsObject, OfTopFrame
    <2> QED
      BY <2>1, OperandsRange DEF NoObject
  <1>3. Undone
    BY <1>1, <1>2, NothingLost DEF Shape, Undone
  <1> QED
    BY <1>1, <1>3 DEF Works, Shape, NeverOnRet, IsStack

\* The handlers that always end their line well.
LEMMA SimpleWorks ==
  ASSUME Shape, UNCHANGED <<dataStack_, callStack_>>, NEW cmd, cmd # "Ret", Ready(cmd),
         NEW ret \in {"success", "continue"}, Ends(run_line_, ret)
  PROVE  Works
  <1>1. Moves /\ status' = status /\ Fetched("Func") /\ Line.cmd # "Ret" /\ status = "running"
    BY EndsMove DEF Moves, Ready, Fetched
  <1> QED
    BY <1>1 DEF Works, Shape, NeverOnRet, IsStack

LEMMA RebuildVarWorks == ASSUME Shape, RebuildVar PROVE Works
  BY SimpleWorks DEF RebuildVar

LEMMA MovWorks == ASSUME Shape, Mov PROVE Works
  BY SimpleWorks DEF Mov

LEMMA LeaWorks == ASSUME Shape, Lea PROVE Works
  BY SimpleWorks DEF Lea

LEMMA CmprWorks == ASSUME Shape, Cmpr PROVE Works
  BY SimpleWorks DEF Cmpr

LEMMA DecrWorks == ASSUME Shape, Decr PROVE Works
  BY SimpleWorks DEF Decr

LEMMA SqrtWorks == ASSUME Shape, Sqrt PROVE Works
  BY SimpleWorks DEF Sqrt

LEMMA PrintfWorks == ASSUME Shape, JIT_Printf PROVE Works
  BY SimpleWorks DEF JIT_Printf

\* The commands on the data stack.
LEMMA WorksIf ==
  ASSUME Shape, NEW cmd, cmd # "Ret", Ready(cmd), Moves,
         status' = "asking" => Undone,
         IsStack(dataStack_'), UNCHANGED callStack_
  PROVE  Works
  BY DEF Works, Ready, NeverOnRet

LEMMA PushWorks == ASSUME Shape, Push PROVE Works
  <1>1. PICK obj \in Objects : \E o \in D!PushOutcomes(dataStack_, GetVal(arg1, obj)) :
          dataStack_' = o.st /\ Outcome(o, run_line_, "success")
    BY DEF Push
  <1> DEFINE val == GetVal(arg1, obj)
  <1> HIDE DEF val
  <1>2. PICK o \in D!PushOutcomes(dataStack_, val) :
          dataStack_' = o.st /\ Outcome(o, run_line_, "success")
    BY <1>1 DEF val
  <1>3. /\ IsStack(o.st) /\ o.end \in {"returned", "threw", "fault"}
        /\ o.end = "threw" => o.st.items = dataStack_.items
    BY DataPush DEF Shape
  <1>4. Moves /\ (status' = "asking" => o.end = "threw")
    BY <1>2, <1>3, OutcomeMoves DEF Moves, Push, Ready, Fetched
  <1>5. status' = "asking" => Undone
    BY <1>2, <1>3, <1>4, NothingLost, NoOperands DEF Undone, Push, Shape
  <1> QED
    BY <1>2, <1>3, <1>4, <1>5, WorksIf DEF Push

LEMMA PrintFormattedMoves ==
  ASSUME NEW val, PrintFormatted(val)
  PROVE  /\ UNCHANGED script
         /\ \/ run_line_' = run_line_ + 1 /\ status' = status
            \/ run_line_' = run_line_ /\ status' = "crashed"
  BY EndsMove DEF PrintFormatted, Crashes

LEMMA PrintWorks == ASSUME Shape, PrintValue PROVE Works
  <1>1. /\ Ready("Print") /\ status = "running"
        /\ UNCHANGED <<machine, dataStack_, callStack_>>
    BY DEF PrintValue, Ready, Fetched
  <1>2. Moves
    <2>1. CASE \E val : PrintFormatted(val)
      BY <2>1, PrintFormattedMoves DEF Moves
    <2>2. CASE Ends(run_line_, "success") \/ Ends(run_line_, "continue")
      BY <2>2, EndsMove DEF Moves
    <2>3. CASE \E o \in D!TopOutcomes(dataStack_, 0) : Outcome(o, run_line_, "success")
      BY <2>3, DataTop, OutcomeMoves DEF Moves
    <2> QED
      BY <2>1, <2>2, <2>3 DEF PrintValue
  <1>3. Undone
    BY <1>1, NothingLost, NoOperands DEF Undone, Shape
  <1> QED
    BY <1>1, <1>2, <1>3, WorksIf DEF Shape, IsStack

LEMMA DumpPointWorks == ASSUME Shape, InitStackDumpPoint PROVE Works
  <1>1. CASE dataStack_.broken
    <2>1. Moves /\ UNCHANGED <<machine, dataStack_, callStack_>>
      BY <1>1 DEF InitStackDumpPoint, Throws, Moves, machine
    <2>2. Undone
      BY <2>1, NothingLost, NoOperands DEF InitStackDumpPoint, Undone, Shape
    <2> QED
      BY <2>1, <2>2, WorksIf DEF InitStackDumpPoint, Shape, IsStack
  <1>2. CASE ~dataStack_.broken
    BY <1>2, SimpleWorks DEF InitStackDumpPoint
  <1> QED
    BY <1>1, <1>2

LEMMA CallDllWorks ==
  ASSUME Shape, NEW cmd \in DllCalls, Ready(cmd), NEW home, NEW effects, CallDll(home, effects),
         UNCHANGED <<cmpr_flag_, registers_, stackDumpPoint_, dataStack_, callStack_>>
  PROVE  Works
  <1>1. status = "running" /\ Operands = 0 /\ cmd # "Ret"
    BY NoOperands DEF Ready, Fetched
  <1>2. Moves /\ (status' = "asking" => UNCHANGED vars_)
    <2>1. CASE \E n : ThrowsFrom(n) /\ UNCHANGED vars_
      BY <2>1 DEF ThrowsFrom, Throws, Moves
    <2>2. CASE Ends(run_line_, "success")
      BY <1>1, <2>2, EndsMove DEF Moves
    <2>3. CASE Crashes
      BY <2>3 DEF Crashes, Moves
    <2> QED
      BY <2>1, <2>2, <2>3 DEF CallDll
  <1>3. status' = "asking" => Undone
    BY <1>1, <1>2, NothingLost DEF Undone, machine, Shape
  <1> QED
    BY <1>1, <1>2, <1>3, WorksIf DEF Shape, IsStack

LEMMA CallVoidWorks == ASSUME Shape, JIT_Call_Void PROVE Works
  BY CallDllWorks DEF JIT_Call_Void, DllCalls

LEMMA CallValueWorks == ASSUME Shape, JIT_Call_Value PROVE Works
  BY CallDllWorks DEF JIT_Call_Value, DllCalls

LEMMA ArithmeticWorks == ASSUME Shape, ArithmeticFunction PROVE Works
  <1>1. PICK cmd \in Arithmetic :
          /\ Ready(cmd)
          /\ \/ UNCHANGED <<vars_, registers_>> /\ Ends(run_line_, "fatal")
             \/ Ends(run_line_, "success")
    BY DEF ArithmeticFunction
  <1>2. cmd # "Ret"
    BY DEF Arithmetic
  <1>3. UNCHANGED <<cmpr_flag_, stackDumpPoint_, dataStack_, callStack_>>
    BY DEF ArithmeticFunction
  <1>4. CASE Ends(run_line_, "success")
    BY <1>1, <1>2, <1>3, <1>4, SimpleWorks
  <1>5. CASE UNCHANGED <<vars_, registers_>> /\ Ends(run_line_, "fatal")
    <2>1. Moves
      BY <1>5, EndsMove DEF Moves
    <2>2. Undone
      BY <1>1, <1>3, <1>5, NothingLost, NoOperands DEF Undone, machine, Shape
    <2> QED
      BY <1>1, <1>2, <1>3, <2>1, <2>2, WorksIf DEF Shape, IsStack
  <1> QED
    BY <1>1, <1>4, <1>5

LEMMA UFuncWorks == ASSUME Shape, UFunc PROVE Works
  <1>1. /\ Fetched("UFunc") /\ Line.flag # "Func"
        /\ UNCHANGED <<machine, dataStack_, callStack_>>
    BY DEF UFunc, Fetched
  <1>2. Moves
    BY DEF UFunc, CheckError, Throws, Moves
  <1>3. Undone
    BY <1>1, NothingLost, OperandsRange DEF Undone, Shape
  <1> QED
    BY <1>1, <1>2, <1>3 DEF Works, Shape, IsStack

LEMMA PopWorks == ASSUME Shape, Pop PROVE Works
  <1>0. /\ Fetched("Func") /\ Line.cmd = "Pop" /\ status = "running" /\ Ready("Pop")
        /\ UNCHANGED <<cmpr_flag_, stackDumpPoint_, callStack_>>
    BY DEF Pop, Fetched, Ready
  <1>1. PICK o \in D!PopOutcomes(dataStack_, 0) :
          /\ dataStack_' = o.st
          /\ \/ o.end = "returned" /\ Ends(run_line_, "success")
             \/ o.end = "returned" /\ ObjectMissing /\ UNCHANGED <<vars_, registers_>>
             \/ /\ o.end = "threw" /\ Outcome(o, run_line_, "success")
                /\ UNCHANGED <<vars_, registers_>>
    BY DEF Pop
  <1>2. /\ IsStack(dataStack_')
        /\ o.end = "threw" =>
             /\ dataStack_'.items = dataStack_.items
             /\ AllocFails \/ dataStack_.broken \/ Len(dataStack_.items) = 0
        /\ o.end = "returned" =>
             /\ dataStack_'.items = SubSeq(dataStack_.items, 1, Len(dataStack_.items) - 1)
             /\ ~dataStack_.broken
    BY <1>1, DataPop DEF Shape
  <1>3. CASE o.end = "returned" /\ Ends(run_line_, "success")
    <2>1. Moves /\ status' = status
      BY <1>3, EndsMove DEF Moves
    <2> QED
      BY <1>0, <1>2, <2>1, WorksIf
  <1>4. CASE o.end = "returned" /\ ObjectMissing /\ UNCHANGED <<vars_, registers_>>
    <2>1. Moves
      BY <1>4, MissingMoves DEF Moves, Shape
    <2>2. Lost(1) /\ Operands = 1
      BY <1>0, <1>2, <1>4 DEF Lost, D!Depth, Operands, Fetched
    <2>3. Undone
      BY <1>0, <1>4, <2>2 DEF Undone, machine
    <2> QED
      BY <1>0, <1>2, <2>1, <2>3, WorksIf
  <1>5. CASE /\ o.end = "threw" /\ Outcome(o, run_line_, "success")
             /\ UNCHANGED <<vars_, registers_>>
    <2>1. Moves
      BY <1>5, OutcomeMoves DEF Moves
    <2>2. Undone
      BY <1>0, <1>2, <1>5, NothingLost DEF Undone, machine, Shape
    <2> QED
      BY <1>0, <1>2, <2>1, <2>2, WorksIf
  <1> QED
    BY <1>1, <1>3, <1>4, <1>5

\* The operands that were popped are lost if the command does not come to its push.
LEMMA StackArithmeticWorks == ASSUME Shape, StackArithmeticFunction PROVE Works
  <1>0. /\ status = "running" /\ Line.cmd \in StackArithmetic /\ Line.flag = "Func"
        /\ UNCHANGED <<machine, callStack_>>
    BY DEF StackArithmeticFunction, Ready, Fetched
  <1>1. PICK cmd \in StackArithmetic :
          /\ Ready(cmd)
          /\ \E o1 \in D!PopOutcomes(dataStack_, 0) :
               IF o1.end # "returned"
               THEN dataStack_' = o1.st /\ Outcome(o1, run_line_, "success")
               ELSE \E o0 \in D!PopOutcomes(o1.st, 0) :
                      IF o0.end # "returned"
                      THEN dataStack_' = o0.st /\ Outcome(o0, run_line_, "success")
                      ELSE IF cmd = "Divs" /\ o1.val = 0
                      THEN dataStack_' = o0.st /\ Ends(run_line_, "fatal")
                      ELSE \E o \in D!PushOutcomes(o0.st, Result(cmd, o0.val, o1.val)) :
                             dataStack_' = o.st /\ Outcome(o, run_line_, "success")
    BY DEF StackArithmeticFunction
  <1>2. cmd # "Ret"
    BY DEF StackArithmetic
  <1>3. PICK o1 \in D!PopOutcomes(dataStack_, 0) :
          IF o1.end # "returned"
          THEN dataStack_' = o1.st /\ Outcome(o1, run_line_, "success")
          ELSE \E o0 \in D!PopOutcomes(o1.st, 0) :
                 IF o0.end # "returned"
                 THEN dataStack_' = o0.st /\ Outcome(o0, run_line_, "success")
                 ELSE IF cmd = "Divs" /\ o1.val = 0
                 THEN dataStack_' = o0.st /\ Ends(run_line_, "fatal")
                 ELSE \E o \in D!PushOutcomes(o0.st, Result(cmd, o0.val, o1.val)) :
                        dataStack_' = o.st /\ Outcome(o, run_line_, "success")
    BY <1>1
  <1> DEFINE items == dataStack_.items
             Ended == /\ IsStack(dataStack_') /\ Moves
                      /\ status' = "asking" => \E n \in 0 .. 2 :
                           /\ dataStack_'.items = SubSeq(items, 1, Len(items) - n)
                           /\ dataStack_.broken => n = 0
                           /\ AllocFails \/ dataStack_.broken \/ n = 2 \/ n = Len(items)
  <1>4. /\ IsStack(o1.st) /\ o1.end \in {"returned", "threw"}
        /\ o1.end = "threw" => /\ o1.st.items = items
                               /\ AllocFails \/ dataStack_.broken \/ Len(items) = 0
        /\ o1.end = "returned" =>
             /\ Len(items) > 0 /\ o1.st.items = SubSeq(items, 1, Len(items) - 1)
             /\ ~dataStack_.broken /\ ~o1.st.broken
    BY <1>3, DataPop DEF Shape
  <1>5. ASSUME o1.end = "threw" PROVE Ended
    <2>1. Moves /\ IsStack(dataStack_') /\ dataStack_'.items = items
      BY <1>3, <1>4, <1>5, OutcomeMoves DEF Moves
    <2>2. items = SubSeq(items, 1, Len(items) - 0)
      BY WholeFront DEF IsStack, Shape
    <2> QED
      BY <1>4, <1>5, <2>1, <2>2
  <1>6. ASSUME o1.end = "returned" PROVE Ended
    <2>1. PICK o0 \in D!PopOutcomes(o1.st, 0) :
            IF o0.end # "returned"
            THEN dataStack_' = o0.st /\ Outcome(o0, run_line_, "success")
            ELSE IF cmd = "Divs" /\ o1.val = 0
            THEN dataStack_' = o0.st /\ Ends(run_line_, "fatal")
            ELSE \E o \in D!PushOutcomes(o0.st, Result(cmd, o0.val, o1.val)) :
                   dataStack_' = o.st /\ Outcome(o, run_line_, "success")
      BY <1>3, <1>6
    <2>2. /\ IsStack(o0.st) /\ o0.end \in {"returned", "threw"}
          /\ o0.end = "threw" => /\ o0.st.items = SubSeq(items, 1, Len(items) - 1)
                                 /\ AllocFails \/ Len(items) = 1
          /\ o0.end = "returned" => o0.st.items = SubSeq(items, 1, Len(items) - 2)
      <3>1. /\ IsStack(o0.st) /\ o0.end \in {"returned", "threw"}
            /\ o0.end = "threw" => /\ o0.st.items = o1.st.items
                                   /\ AllocFails \/ Len(o1.st.items) = 0
            /\ o0.end = "returned" => /\ Len(o1.st.items) > 0
                 /\ o0.st.items = SubSeq(o1.st.items, 1, Len(o1.st.items) - 1)
        BY <1>4, <1>6, <2>1, DataPop
      <3>2. Len(o1.st.items) = Len(items) - 1
        BY <1>4, <1>6 DEF IsStack, IsSeq, Shape
      <3>3. o0.end = "threw" => AllocFails \/ Len(items) = 1
        BY <3>1, <3>2 DEF IsStack, IsSeq, Shape
      <3> QED
        BY <1>4, <1>6, <3>1, <3>3, FrontOfFront DEF IsStack, Shape
    <2>3. CASE o0.end = "threw"
      <3>1. Moves /\ dataStack_' = o0.st
        BY <2>1, <2>2, <2>3, OutcomeMoves DEF Moves
      <3> QED
        BY <1>4, <1>6, <2>2, <2>3, <3>1
    <2>4. CASE o0.end = "returned" /\ dataStack_' = o0.st /\ Ends(run_line_, "fatal")
      <3>1. Moves
        BY <2>4, EndsMove DEF Moves
      <3> QED
        BY <1>4, <1>6, <2>2, <2>4, <3>1
    <2>5. CASE /\ o0.end = "returned"
               /\ \E o \in D!PushOutcomes(o0.st, Result(cmd, o0.val, o1.val)) :
                    dataStack_' = o.st /\ Outcome(o, run_line_, "success")
      <3> DEFINE val == Result(cmd, o0.val, o1.val)
      <3> HIDE DEF val
      <3>1. PICK o \in D!PushOutcomes(o0.st, val) :
              dataStack_' = o.st /\ Outcome(o, run_line_, "success")
        BY <2>5 DEF val
      <3>2. /\ IsStack(o.st) /\ o.end \in {"returned", "threw", "fault"}
            /\ o.end = "threw" => o.st.items = o0.st.items
        BY <2>2, DataPush
      <3>3. Moves /\ (status' = "asking" => o.end = "threw")
        BY <1>0, <3>1, <3>2, OutcomeMoves DEF Moves
      <3> QED
        BY <1>4, <1>6, <2>2, <2>5, <3>1, <3>2, <3>3
    <2> QED
      BY <2>1, <2>2, <2>3, <2>4, <2>5
  <1>7. Ended
    BY <1>4, <1>5, <1>6
  <1>8. status' = "asking" => Undone
    <2>1. Operands = 2
      BY <1>0 DEF Operands, StackArithmetic
    <2> QED
      BY <1>0, <1>7, <2>1 DEF Undone, Lost, D!Depth
  <1> QED
    BY <1>0, <1>1, <1>2, <1>7, <1>8, WorksIf

-----------------------------------------------------------------------------
\* The functions open at a line.
LEMMA OpenNext ==
  ASSUME NEW l \in Nat, Lines[l + 1].flag # "CFunc", Lines[l + 1].cmd # "Ret"
  PROVE  Open(l + 1) = Open(l)
  <1>1. ASSUME NEW f \in Open(l) PROVE f \in Open(l + 1)
    BY DEF Open
  <1>2. ASSUME NEW f \in Open(l + 1) PROVE f \in Open(l)
    BY DEF Open
  <1> QED
    BY <1>1, <1>2

LEMMA OpenDeclared ==
  ASSUME NEW l \in Nat, Lines[l + 1].flag = "CFunc", Open(l) = {}
  PROVE  Open(l + 1) = {l}
  <1>1. l \in Open(l + 1)
    BY DEF Open
  <1>2. ASSUME NEW f \in Open(l + 1) PROVE f = l
    <2>1. ASSUME f # l PROVE f \in Open(l)
      BY <2>1 DEF Open
    <2> QED
      BY <2>1
  <1> QED
    BY <1>1, <1>2

LEMMA OpenClosed ==
  ASSUME NEW l \in Nat, Lines[l + 1].flag # "CFunc", Lines[l + 1].cmd = "Ret"
  PROVE  Open(l + 1) = {}
  BY DEF Open

LEMMA SameProgram ==
  ASSUME UNCHANGED script
  PROVE  /\ Lines' = Lines
         /\ Disciplined' <=> Disciplined
         /\ \A l : Open(l)' = Open(l)
  BY DEF Lines, Disciplined, Open

\* What discipline says of one line.
LEMMA RetDisciplined ==
  ASSUME Disciplined, NEW l \in 0 .. Len(Lines) - 1, Lines[l + 1].cmd = "Ret"
  PROVE  /\ Lines[l + 1].flag = "Func" /\ Open(l) # {}
         /\ Lines[l + 1].arg1.kind = "null" /\ Lines[l + 1].arg2.kind = "null"
  BY DEF Disciplined

LEMMA CallDisciplined ==
  ASSUME Disciplined, NEW l \in 0 .. Len(Lines) - 1, Lines[l + 1].cmd = "Call",
         Lines[l + 1].arg1.kind \in {"func", "funcMember"}
  PROVE  LET target == Lines[l + 1].arg1.line
         IN  /\ target \in 0 .. Len(Lines) - 1 /\ Lines[target + 1].flag = "CFunc"
             /\ Open(target) = {}
             /\ \E r \in target + 1 .. Len(Lines) - 1 : Lines[r + 1].cmd = "Ret"
             /\ l < Len(Lines) - 1 /\ Lines[l + 2].flag = "Null"
  <1> DEFINE target == Lines[l + 1].arg1.line
  <1>1. /\ target \in 0 .. Len(Lines) - 1 /\ Lines[target + 1].flag = "CFunc"
        /\ \E r \in target + 1 .. Len(Lines) - 1 : Lines[r + 1].cmd = "Ret"
        /\ l < Len(Lines) - 1 /\ Lines[l + 2].flag = "Null"
    BY DEF Disciplined
  <1> HIDE DEF target
  <1>2. Open(target) = {}
    BY <1>1 DEF Disciplined
  <1> QED
    BY <1>1, <1>2 DEF target

-----------------------------------------------------------------------------
\* A step that leaves the call stack alone.
LEMMA ControlKept ==
  ASSUME Shape, ControlOK, UNCHANGED <<script, callStack_>>, run_line_' \in Nat,
         run_line_' <= Len(Lines) => Open(run_line_') = Around(Len(callStack_.items)),
         run_line_' > Len(Lines) => Len(callStack_.items) = 0,
         status' = "asking" => /\ run_line_' < Len(Lines)
                               /\ Lines[run_line_' + 1].flag \in {"Func", "UFunc"}
                               /\ Lines[run_line_' + 1].cmd # "Ret"
  PROVE  ControlOK'
  <1>1. Lines' = Lines /\ callStack_' = callStack_
    BY SameProgram
  <1>2. \A k \in 1 .. Len(callStack_'.items) : PushedByCall(k)'
    <2> SUFFICES ASSUME NEW k \in 1 .. Len(callStack_.items) PROVE PushedByCall(k)'
      BY <1>1
    <2>1. PushedByCall(k)
      BY DEF ControlOK
    <2>2. Around(k - 1)' = Around(k - 1)
      BY <1>1 DEF Around, CalledBy
    <2>3. \A l : Open(l)' = Open(l)
      BY SameProgram
    <2> QED
      BY <1>1, <2>1, <2>2, <2>3 DEF PushedByCall
  <1>3. run_line_' <= Len(Lines') => Open(run_line_)' = Around(Len(callStack_.items))'
    BY <1>1 DEF Around, CalledBy, Open
  <1>4. status' = "asking" => AskedOK'
    BY <1>1 DEF AskedOK, Line
  <1> QED
    BY <1>1, <1>2, <1>3, <1>4 DEF ControlOK

LEMMA RunningLine ==
  ASSUME Shape, Orderly, ControlOK, NEW flag, Fetched(flag)
  PROVE  /\ Len(Lines) \in Nat
         /\ run_line_ \in 0 .. Len(Lines) - 1 /\ run_line_ \in Nat
         /\ Len(callStack_.items) \in Nat
         /\ status = "running"
         /\ Line = Lines[run_line_ + 1] /\ Line.flag = flag
         /\ Open(run_line_) = Around(Len(callStack_.items))
         /\ Line.cmd = "Ret" => Line.flag = "Func" /\ Listed /\ ~NeedsObject
  <1>1. Len(Lines) \in Nat
    BY ProgramsAssumption DEF Lines, Shape
  <1>2. run_line_ \in 0 .. Len(Lines) - 1 /\ run_line_ \in Nat
    BY <1>1 DEF Fetched
  <1>3. Line.cmd = "Ret" => Line.flag = "Func" /\ Listed /\ ~NeedsObject
    BY <1>2, RetDisciplined, Expectations
       DEF Orderly, Line, Listed, NeedsObject, OfTopFrame, arg1, arg2
  <1> QED
    BY <1>1, <1>2, <1>3 DEF Fetched, ControlOK, Line, Shape, IsStack, IsSeq

LEMMA WorksControl ==
  ASSUME Shape, Orderly, ControlOK, Works
  PROVE  ControlOK'
  <1>1. PICK flag \in {"Func", "UFunc"} : Fetched(flag)
    BY DEF Works
  <1>2. /\ Len(Lines) \in Nat
        /\ run_line_ \in 0 .. Len(Lines) - 1 /\ run_line_ \in Nat
        /\ status = "running"
        /\ Line = Lines[run_line_ + 1] /\ Line.flag = flag
        /\ Open(run_line_) = Around(Len(callStack_.items))
    BY <1>1, RunningLine
  <1>3. Line.cmd # "Ret"
    BY <1>1, RunningLine DEF Works, NeverOnRet
  <1>4. Open(run_line_ + 1) = Open(run_line_)
    BY <1>2, <1>3, OpenNext
  <1> QED
    BY <1>2, <1>3, <1>4, ControlKept DEF Works, Moves

LEMMA NullControl ==
  ASSUME Shape, Orderly, ControlOK, Null
  PROVE  ControlOK'
  <1>1. Fetched("Null")
    BY DEF Null
  <1>2. /\ Len(Lines) \in Nat
        /\ run_line_ \in 0 .. Len(Lines) - 1 /\ run_line_ \in Nat
        /\ status = "running" /\ Line.cmd # "Ret"
        /\ Line = Lines[run_line_ + 1] /\ Line.flag = "Null"
        /\ Open(run_line_) = Around(Len(callStack_.items))
    BY <1>1, RunningLine
  <1>3. Open(run_line_ + 1) = Open(run_line_)
    BY <1>2, OpenNext
  <1> QED
    BY <1>2, <1>3, ControlKept DEF Null

LEMMA JumpControl ==
  ASSUME Shape, Orderly, ControlOK, Jump
  PROVE  ControlOK'
  <1>1. PICK cmd \in Jumps : Ready(cmd) /\ Ends(IF Taken(cmd) THEN arg1.line ELSE run_line_, "success")
    BY DEF Jump
  <1>2. /\ Len(Lines) \in Nat
        /\ run_line_ \in 0 .. Len(Lines) - 1 /\ run_line_ \in Nat
        /\ status = "running"
        /\ Line = Lines[run_line_ + 1] /\ Line.flag = "Func" /\ Line.cmd = cmd
        /\ Open(run_line_) = Around(Len(callStack_.items))
    BY <1>1, RunningLine DEF Ready
  <1>3. cmd # "Ret" /\ cmd # "RebuildVar"
    BY DEF Jumps
  <1>4. arg1.kind = "label"
    BY <1>1, <1>2, <1>3, Expectations DEF Ready, Listed, Odd
  <1>5. arg1.line \in 0 .. Len(Lines) - 1 /\ Open(arg1.line + 1) = Open(run_line_)
    BY <1>2, <1>4 DEF Orderly, Disciplined, arg1
  <1>6. Open(run_line_ + 1) = Open(run_line_)
    BY <1>2, <1>3, OpenNext
  <1>7. /\ UNCHANGED <<script, callStack_>> /\ status' = status
        /\ run_line_' = run_line_ + 1 \/ run_line_' = arg1.line + 1
    BY <1>1, EndsMove DEF Jump
  <1> QED
    BY <1>2, <1>5, <1>6, <1>7, ControlKept

\* A declaration is met outside every function, and the first ret closes it.
LEMMA CFuncControl ==
  ASSUME Shape, Orderly, ControlOK, CFunc
  PROVE  ControlOK'
  <1>1. Fetched("CFunc")
    BY DEF CFunc
  <1>2. /\ Len(Lines) \in Nat /\ Len(callStack_.items) \in Nat
        /\ run_line_ \in 0 .. Len(Lines) - 1 /\ run_line_ \in Nat
        /\ status = "running"
        /\ Line = Lines[run_line_ + 1] /\ Line.flag = "CFunc"
        /\ Open(run_line_) = Around(Len(callStack_.items))
    BY <1>1, RunningLine
  <1>3. Open(run_line_) = {}
    BY <1>2 DEF Orderly, Disciplined
  <1>4. Len(callStack_.items) = 0
    BY <1>2, <1>3 DEF Around
  <1>5. \/ run_line_' = 1 + Len(Lines)
        \/ \E i \in run_line_ .. Len(Lines) - 1 :
             Lines[i + 1].cmd = "Ret" /\ run_line_' = 1 + i
    BY DEF CFunc
  <1>6. CASE run_line_' = 1 + Len(Lines)
    BY <1>2, <1>4, <1>6, ControlKept DEF CFunc
  <1>7. CASE \E i \in run_line_ .. Len(Lines) - 1 :
               Lines[i + 1].cmd = "Ret" /\ run_line_' = 1 + i
    <2>1. PICK i \in run_line_ .. Len(Lines) - 1 :
            Lines[i + 1].cmd = "Ret" /\ run_line_' = 1 + i
      BY <1>7
    <2>2. i \in 0 .. Len(Lines) - 1 /\ i \in Nat
      BY <1>2, <2>1
    <2>3. Open(i + 1) = {}
      BY <2>1, <2>2, RetDisciplined, OpenClosed DEF Orderly
    <2>4. run_line_' = i + 1 /\ run_line_' \in Nat /\ run_line_' <= Len(Lines)
      BY <1>2, <2>1, <2>2
    <2>5. Open(run_line_') = Around(Len(callStack_.items))
      BY <1>4, <2>3, <2>4 DEF Around
    <2> QED
      BY <1>2, <2>4, <2>5, ControlKept DEF CFunc
  <1> QED
    BY <1>5, <1>6, <1>7

\* Call pushes a frame and goes behind the declaration.
LEMMA EnterControl ==
  ASSUME Shape, Orderly, ControlOK, Ready("Call"), arg1.kind \in {"func", "funcMember"},
         NEW v, Enter([retLine |-> run_line_, var |-> v]), Orderly'
  PROVE  ControlOK'
  <1> DEFINE items == callStack_.items
             frame == [retLine |-> run_line_, var |-> v]
             n == Len(items)
             target == arg1.line
  <1>1. PICK o \in C!PushOutcomes(callStack_, frame) :
          /\ callStack_' = o.st
          /\ Outcome(o, IF o.end = "returned" THEN target ELSE run_line_, "success")
    BY DEF Enter
  <1>2. /\ Len(Lines) \in Nat /\ n \in Nat
        /\ run_line_ \in 0 .. Len(Lines) - 1 /\ run_line_ \in Nat
        /\ status = "running"
        /\ Line = Lines[run_line_ + 1] /\ Line.flag = "Func" /\ Line.cmd = "Call"
        /\ Open(run_line_) = Around(n)
    BY RunningLine DEF Ready
  <1>3. /\ target \in 0 .. Len(Lines) - 1 /\ target \in Nat
        /\ Lines[target + 1].flag = "CFunc" /\ Open(target) = {}
    <2>1. Lines[run_line_ + 1].arg1 = arg1
      BY <1>2 DEF arg1
    <2>2. Lines[run_line_ + 1].cmd = "Call" /\ run_line_ \in 0 .. Len(Lines) - 1
      BY <1>2
    <2>3. /\ Lines[run_line_ + 1].arg1.line \in 0 .. Len(Lines) - 1
          /\ Lines[Lines[run_line_ + 1].arg1.line + 1].flag = "CFunc"
          /\ Open(Lines[run_line_ + 1].arg1.line) = {}
      BY <2>1, <2>2, CallDisciplined DEF Orderly
    <2>4. Lines[run_line_ + 1].arg1.line = target
      BY <2>1
    <2> QED
      BY <1>2, <2>3, <2>4
  <1>4. o.end = "returned" /\ callStack_'.items = Append(items, frame)
    BY <1>1, CallPush DEF Orderly, Shape
  <1>5. /\ UNCHANGED script /\ run_line_' = target + 1 /\ status' = status
        /\ Lines' = Lines
    BY <1>1, <1>4, OutcomeMoves, SameProgram
  <1>6. /\ Len(callStack_'.items) = n + 1
        /\ \A i \in 1 .. n : callStack_'.items[i] = items[i]
        /\ callStack_'.items[n + 1] = frame
    BY <1>2, <1>4, AppendIsSeq DEF Shape, IsStack
  <1>7. ASSUME NEW k \in 0 .. n PROVE Around(k)' = Around(k)
    <2>1. k = 0 \/ callStack_'.items[k] = items[k]
      BY <1>2, <1>6
    <2> QED
      BY <1>5, <2>1 DEF Around, CalledBy
  <1>8. \A l : Open(l)' = Open(l)
    BY <1>5, SameProgram
  <1>9. ASSUME NEW k \in 1 .. n + 1 PROVE PushedByCall(k)'
    <2>1. k - 1 \in 0 .. n /\ Around(k - 1)' = Around(k - 1)
      BY <1>2, <1>7
    <2>2. CASE k \in 1 .. n
      BY <1>5, <1>6, <1>8, <2>1, <2>2 DEF PushedByCall, ControlOK
    <2>3. CASE k = n + 1
      <3>1. callStack_'.items[k].retLine = run_line_
        BY <1>6, <2>3
      <3>2. Open(run_line_) = Around(k - 1)
        BY <1>2, <2>3
      <3> QED
        BY <1>2, <1>5, <1>8, <2>1, <3>1, <3>2 DEF PushedByCall, arg1
    <2> QED
      BY <1>2, <2>2, <2>3
  <1>10. Open(target + 1) = {target}
    BY <1>3, OpenDeclared
  <1>11. Around(Len(callStack_.items))' = {target}
    <2>1. callStack_'.items[Len(callStack_'.items)] = frame /\ Len(callStack_'.items) # 0
      BY <1>2, <1>6
    <2>2. Lines'[frame.retLine + 1].arg1 = arg1
      BY <1>2, <1>5 DEF arg1
    <2> QED
      BY <2>1, <2>2 DEF Around, CalledBy
  <1>12. Open(run_line_)' = Around(Len(callStack_.items))'
    <2>1. PICK next : next = target + 1
      OBVIOUS
    <2>2. Open(run_line_)' = Open(next)'
      BY <1>5, <2>1 DEF Open
    <2> QED
      BY <1>8, <1>10, <1>11, <2>1, <2>2
  <1>13. /\ run_line_' \in Nat /\ run_line_' <= Len(Lines') /\ Len(Lines') \in Nat
        /\ status' # "asking"
    BY <1>2, <1>3, <1>5
  <1>14. \A k \in 1 .. Len(callStack_'.items) : PushedByCall(k)'
    BY <1>6, <1>9
  <1> HIDE DEF n, target
  <1> QED
    BY <1>12, <1>13, <1>14 DEF ControlOK

LEMMA CallControl ==
  ASSUME Shape, Orderly, ControlOK, Call, Orderly'
  PROVE  ControlOK'
  <1>1. Ready("Call")
    BY DEF Call
  <1>2. ASSUME NEW v, arg1.kind \in {"func", "funcMember"},
               Enter([retLine |-> run_line_, var |-> v])
        PROVE  ControlOK'
    BY <1>1, <1>2, EnterControl
  <1>3. ASSUME UNCHANGED callStack_, NEW t \in TopFrames, t.end # "returned",
               Outcome(t, run_line_, "success")
        PROVE  ControlOK'
    <2>1. t.end = "fault"
      BY <1>3, CallTop DEF TopFrames, Shape, Orderly
    <2>2. UNCHANGED script /\ run_line_' = run_line_ /\ status' = "crashed"
      BY <1>3, <2>1, OutcomeMoves
    <2> QED
      BY <1>1, <1>3, <2>2, RunningLine, ControlKept DEF Ready
  <1>4. CASE /\ arg1.kind = "func"
             /\ Enter([retLine |-> run_line_, var |-> 0])
    BY <1>2, <1>4
  <1>5. CASE /\ arg1.kind = "funcMember"
             /\ Enter([retLine |-> run_line_, var |-> arg1.var])
    BY <1>2, <1>5
  <1>6. CASE /\ arg1.kind = "funcMember"
             /\ \E t \in TopFrames :
                  \/ Enter([retLine |-> run_line_, var |-> t.val.var])
                  \/ /\ t.end # "returned"
                     /\ Outcome(t, run_line_, "success")
                     /\ UNCHANGED callStack_
    <2>1. PICK t \in TopFrames :
            \/ Enter([retLine |-> run_line_, var |-> t.val.var])
            \/ /\ t.end # "returned"
               /\ Outcome(t, run_line_, "success")
               /\ UNCHANGED callStack_
      BY <1>6
    <2>2. CASE Enter([retLine |-> run_line_, var |-> t.val.var])
      BY <1>2, <1>6, <2>2
    <2>3. CASE /\ t.end # "returned"
               /\ Outcome(t, run_line_, "success")
               /\ UNCHANGED callStack_
      BY <1>3, <2>3
    <2> QED
      BY <2>1, <2>2, <2>3
  <1> QED
    BY <1>4, <1>5, <1>6 DEF Call

\* Ret pops a frame and goes behind the line that follows the frame's call.
LEMMA RetControl ==
  ASSUME Shape, Orderly, ControlOK, Ret, Orderly'
  PROVE  ControlOK'
  <1> DEFINE items == callStack_.items
             n == Len(items)
             line == items[n].retLine
  <1>2. /\ Len(Lines) \in Nat /\ n \in Nat
        /\ run_line_ \in 0 .. Len(Lines) - 1 /\ run_line_ \in Nat
        /\ status = "running"
        /\ Line = Lines[run_line_ + 1] /\ Line.flag = "Func" /\ Line.cmd = "Ret"
        /\ Open(run_line_) = Around(n)
    BY RunningLine DEF Ret, Ready
  <1>3. n > 0
    <2>1. Open(run_line_) # {}
      BY <1>2, RetDisciplined DEF Orderly
    <2> QED
      BY <1>2, <2>1 DEF Around
  <1>4. PICK t \in TopFrames :
          \/ /\ t.end = "returned"
             /\ \E o \in C!PopOutcomes(callStack_, [retLine |-> 0, var |-> 0]) :
                  /\ callStack_' = o.st
                  /\ Outcome(o, t.val.retLine + 1, "success")
          \/ /\ t.end # "returned"
             /\ Outcome(t, run_line_, "success")
             /\ UNCHANGED callStack_
    BY DEF Ret
  <1>5. t.end = "returned" /\ t.val = items[n]
    BY <1>2, <1>3, <1>4, CallTop DEF TopFrames, Shape, Orderly
  <1>6. PICK o \in C!PopOutcomes(callStack_, [retLine |-> 0, var |-> 0]) :
          callStack_' = o.st /\ Outcome(o, line + 1, "success")
    BY <1>4, <1>5
  <1>7. o.end = "returned" /\ callStack_'.items = SubSeq(items, 1, n - 1)
    BY <1>3, <1>6, CallPop DEF Shape, Orderly
  <1>8. /\ UNCHANGED script /\ run_line_' = line + 1 + 1 /\ status' = status
        /\ Lines' = Lines
    BY <1>6, <1>7, OutcomeMoves, SameProgram
  <1>9. n - 1 \in 0 .. n /\ n \in 1 .. n
    BY <1>2, <1>3
  <1>10. /\ Len(callStack_'.items) = n - 1
         /\ \A i \in 1 .. n - 1 : callStack_'.items[i] = items[i]
    <2>1. IsSeq(items)
      BY DEF Shape, IsStack
    <2> QED
      BY <1>7, <1>9, <2>1, FrontIsSeq
  <1>11. ASSUME NEW k \in 0 .. n - 1 PROVE Around(k)' = Around(k)
    <2>1. k = 0 \/ callStack_'.items[k] = items[k]
      BY <1>2, <1>10
    <2> QED
      BY <1>8, <2>1 DEF Around, CalledBy
  <1>12. \A l : Open(l)' = Open(l)
    BY <1>8, SameProgram
  <1>13. ASSUME NEW k \in 1 .. n - 1 PROVE PushedByCall(k)'
    <2>1. k \in 1 .. n /\ k - 1 \in 0 .. n - 1
      BY <1>2
    <2> QED
      BY <1>8, <1>10, <1>11, <1>12, <2>1 DEF PushedByCall, ControlOK
  <1>14. PushedByCall(n)
    BY <1>9 DEF ControlOK
  <1>15. /\ line \in 0 .. Len(Lines) - 1 /\ Lines[line + 1].flag = "Func"
         /\ Lines[line + 1].cmd = "Call"
         /\ Lines[line + 1].arg1.kind \in {"func", "funcMember"}
         /\ Open(line) = Around(n - 1)
    BY <1>14 DEF PushedByCall
  <1> HIDE DEF line
  <1>16. line < Len(Lines) - 1 /\ Lines[line + 2].flag = "Null"
    BY <1>15, CallDisciplined DEF Orderly
  <1>17. Open(line + 1) = Around(n - 1)
    BY <1>15, OpenNext
  <1>18. Open(line + 2) = Around(n - 1)
    <2>1. line + 1 \in 0 .. Len(Lines) - 1 /\ line + 1 \in Nat /\ (line + 1) + 1 = line + 2
      BY <1>2, <1>15, <1>16
    <2>2. Lines[line + 2].cmd # "Ret"
      BY <1>16, <2>1, RetDisciplined DEF Orderly
    <2>3. Open((line + 1) + 1) = Open(line + 1)
      BY <1>16, <2>1, <2>2, OpenNext
    <2> QED
      BY <1>17, <2>1, <2>3
  <1>19. run_line_' = line + 2 /\ run_line_' \in Nat /\ run_line_' <= Len(Lines)
    BY <1>2, <1>8, <1>15, <1>16
  <1>20. Open(run_line_)' = Around(Len(callStack_.items))'
    <2>1. n - 1 \in 0 .. n - 1
      BY <1>2, <1>3
    <2>2. PICK next, below : next = line + 2 /\ below = n - 1
      OBVIOUS
    <2>3. Open(run_line_)' = Open(next)'
      BY <1>19, <2>2 DEF Open
    <2>4. Around(Len(callStack_.items))' = Around(below)'
      BY <1>10, <2>2 DEF Around
    <2>5. Around(below)' = Around(below)
      BY <1>11, <2>1, <2>2
    <2> QED
      BY <1>12, <1>18, <2>2, <2>3, <2>4, <2>5
  <1>21. \A k \in 1 .. Len(callStack_'.items) : PushedByCall(k)'
    BY <1>10, <1>13
  <1>22. run_line_' <= Len(Lines') /\ Len(Lines') \in Nat /\ status' # "asking"
    BY <1>2, <1>8, <1>19
  <1> HIDE DEF n
  <1> QED
    BY <1>19, <1>20, <1>21, <1>22 DEF ControlOK

LEMMA ProceedControl ==
  ASSUME Shape, Orderly, ControlOK, Proceed
  PROVE  ControlOK'
  <1>1. /\ Len(Lines) \in Nat /\ run_line_ \in Nat /\ AskedOK
        /\ UNCHANGED <<script, callStack_>> /\ run_line_' = run_line_ + 1
        /\ status' = "running"
        /\ Open(run_line_) = Around(Len(callStack_.items))
    BY ProgramsAssumption DEF Lines, Shape, Proceed, ControlOK, AskedOK
  <1>2. Open(run_line_ + 1) = Open(run_line_)
    BY <1>1, OpenNext DEF AskedOK, Line
  <1> QED
    BY <1>1, <1>2, ControlKept DEF AskedOK

LEMMA StopControl ==
  ASSUME Shape, Orderly, ControlOK, UNCHANGED <<script, callStack_, run_line_>>,
         status' # "asking" \/ UNCHANGED status
  PROVE  ControlOK'
  BY ControlKept DEF ControlOK, AskedOK, Line

-----------------------------------------------------------------------------
\* What a call and a ret do to the stack, in any script.
Framed ==
  /\ UNCHANGED <<script, machine, dataStack_>> /\ status = "running"
  /\ IsStack(callStack_') /\ (callStack_.broken => callStack_'.broken)
  /\ status' \in {"running", "asking", "crashed"}
  /\ status' = "asking" => /\ callStack_'.items = callStack_.items
                           /\ \/ run_line_' = run_line_
                              \/ Line.cmd = "Ret" /\ (callStack_.items = <<>> \/ AllocFails)

LEMMA FrameKept ==
  ASSUME Shape, status = "running", NEW t \in TopFrames, t.end # "returned",
         Outcome(t, run_line_, "success"), UNCHANGED callStack_,
         UNCHANGED <<machine, dataStack_>>
  PROVE  Framed
  <1>1. t.end \in {"threw", "fault"}
    BY CallTop DEF TopFrames, Shape
  <1> QED
    BY <1>1, OutcomeMoves DEF Framed, Shape, IsStack

LEMMA EnterFramed ==
  ASSUME Shape, status = "running", NEW frame, Enter(frame), UNCHANGED <<machine, dataStack_>>
  PROVE  Framed
  <1>1. PICK o \in C!PushOutcomes(callStack_, frame) :
          /\ callStack_' = o.st
          /\ Outcome(o, IF o.end = "returned" THEN arg1.line ELSE run_line_, "success")
    BY DEF Enter
  <1>2. /\ IsStack(o.st) /\ o.end \in {"returned", "threw"}
        /\ o.end = "threw" => o.st.items = callStack_.items
        /\ callStack_.broken => o.st.broken
    <2>1. callStack_.broken => o.st = callStack_
      BY DEF C!PushOutcomes, C!Threw
    <2> QED
      BY <2>1, CallPush DEF Shape
  <1>3. CASE o.end = "returned"
    BY <1>1, <1>2, <1>3, OutcomeMoves DEF Framed
  <1>4. CASE o.end = "threw"
    <2>1. Outcome(o, run_line_, "success")
      BY <1>1, <1>4
    <2> QED
      BY <1>1, <1>2, <1>4, <2>1, OutcomeMoves DEF Framed
  <1> QED
    BY <1>2, <1>3, <1>4

LEMMA CallFramed == ASSUME Shape, Call PROVE Framed
  <1>1. status = "running" /\ UNCHANGED <<machine, dataStack_>>
    BY DEF Call, Ready, Fetched
  <1>2. \/ \E frame : Enter(frame)
        \/ \E t \in TopFrames :
             t.end # "returned" /\ Outcome(t, run_line_, "success") /\ UNCHANGED callStack_
    BY DEF Call
  <1> QED
    BY <1>1, <1>2, EnterFramed, FrameKept

LEMMA RetFramed == ASSUME Shape, Ret PROVE Framed
  <1>1. status = "running" /\ Line.cmd = "Ret" /\ UNCHANGED <<machine, dataStack_>>
    BY DEF Ret, Ready, Fetched
  <1>2. PICK t \in TopFrames :
          \/ /\ t.end = "returned"
             /\ \E o \in C!PopOutcomes(callStack_, [retLine |-> 0, var |-> 0]) :
                  /\ callStack_' = o.st
                  /\ Outcome(o, t.val.retLine + 1, "success")
          \/ /\ t.end # "returned"
             /\ Outcome(t, run_line_, "success")
             /\ UNCHANGED callStack_
    BY DEF Ret
  <1>3. CASE t.end = "returned"
    <2>1. PICK o \in C!PopOutcomes(callStack_, [retLine |-> 0, var |-> 0]) :
            callStack_' = o.st /\ Outcome(o, t.val.retLine + 1, "success")
      BY <1>2, <1>3
    <2>2. /\ IsStack(o.st) /\ o.end \in {"returned", "threw"}
          /\ o.end = "threw" =>
               /\ o.st.items = callStack_.items
               /\ AllocFails \/ callStack_.broken \/ Len(callStack_.items) = 0
          /\ o.st.broken = callStack_.broken
      BY CallPop DEF Shape
    <2>3. ~callStack_.broken
      BY <1>2, <1>3 DEF TopFrames, C!TopOutcomes, C!Threw
    <2>4. Len(callStack_.items) = 0 => callStack_.items = <<>>
      BY DEF Shape, IsStack, IsSeq
    <2> QED
      BY <1>1, <2>1, <2>2, <2>3, <2>4, OutcomeMoves DEF Framed
  <1>4. CASE t.end # "returned"
    BY <1>1, <1>2, <1>4, FrameKept
  <1> QED
    BY <1>3, <1>4

\* The steps, by what they do to control.
LEMMA Steps ==
  ASSUME Shape, Next
  PROVE  Works \/ Jump \/ Call \/ Ret \/ CFunc \/ Null \/ Finish \/ Proceed \/ Refuse
  BY BadArgumentsWorks, NoObjectWorks, RebuildVarWorks, PushWorks, PopWorks, MovWorks, LeaWorks,
     PrintWorks, CmprWorks, DecrWorks, DumpPointWorks, PrintfWorks, CallVoidWorks,
     CallValueWorks, ArithmeticWorks, StackArithmeticWorks, SqrtWorks, UFuncWorks
     DEF Next, Execute, Answer

\* The steps that change nothing but the line and the status.
LEMMA Quiet ==
  ASSUME Jump \/ CFunc \/ Null \/ Finish \/ Proceed \/ Refuse
  PROVE  /\ UNCHANGED <<script, dataStack_, callStack_>>
         /\ status = "running" => status' # "asking"
  <1>1. CASE Jump
    BY <1>1, EndsMove DEF Jump, Ready, Fetched
  <1>2. CASE CFunc \/ Null
    BY <1>2 DEF CFunc, Null, Fetched
  <1>3. CASE Finish
    BY <1>3 DEF Finish
  <1>4. CASE Proceed \/ Refuse
    BY <1>4 DEF Proceed, Refuse
  <1> QED
    BY <1>1, <1>2, <1>3, <1>4

LEMMA ShapeKept ==
  ASSUME Shape, Next
  PROVE  Shape' /\ UNCHANGED script /\ (callStack_.broken => callStack_'.broken)
  <1>1. CASE Works
    BY <1>1 DEF Works, Moves, Shape, IsStack, IsSeq
  <1>2. CASE Call \/ Ret
    BY <1>2, CallFramed, RetFramed DEF Framed, Shape, IsStack, IsSeq
  <1>3. CASE Jump \/ CFunc \/ Null \/ Finish \/ Proceed \/ Refuse
    BY <1>3, Quiet DEF Shape, IsStack, IsSeq
  <1> QED
    BY <1>1, <1>2, <1>3, Steps

LEMMA ControlStep ==
  ASSUME Shape, Orderly => ControlOK, Next, Orderly'
  PROVE  ControlOK'
  <1>1. Orderly /\ ControlOK
    <2>1. (Disciplined' <=> Disciplined) /\ (callStack_.broken => callStack_'.broken)
      BY ShapeKept, SameProgram
    <2> QED
      BY <2>1 DEF Orderly
  <1>2. CASE Works
    BY <1>1, <1>2, WorksControl
  <1>3. CASE Jump \/ Call \/ Ret
    BY <1>1, <1>3, JumpControl, CallControl, RetControl
  <1>4. CASE CFunc \/ Null \/ Proceed
    BY <1>1, <1>4, CFuncControl, NullControl, ProceedControl
  <1>5. CASE Finish \/ Refuse
    BY <1>1, <1>5, StopControl DEF Finish, Refuse
  <1> QED
    BY <1>2, <1>3, <1>4, <1>5, Steps

-----------------------------------------------------------------------------
\* The objects of the frames.
LEMMA SameObjects ==
  ASSUME MethodsKeepTheirObject, UNCHANGED script, IsSeq(callStack_'.items),
         DOMAIN callStack_'.items \subseteq DOMAIN callStack_.items,
         \A k \in DOMAIN callStack_'.items : callStack_'.items[k] = callStack_.items[k]
  PROVE  MethodsKeepTheirObject'
  <1>1. \A k \in DOMAIN callStack_'.items : CalledOn(k)' = CalledOn(k)
    BY DEF CalledOn, Lines
  <1>0. \A k \in DOMAIN callStack_'.items : NamesObject(k)' <=> NamesObject(k)
    BY <1>1 DEF NamesObject
  <1> SUFFICES ASSUME NEW j \in DOMAIN callStack_'.items, NEW k \in DOMAIN callStack_'.items,
                      j <= k, NamesObject(j)', \A i \in j + 1 .. k : ~NamesObject(i)'
               PROVE  callStack_'.items[k].var =
                        IF CalledOn(j)'.kind = "func" THEN 0 ELSE CalledOn(j)'.var
    BY DEF MethodsKeepTheirObject
  <1>2. \A i \in j .. k : i \in DOMAIN callStack_'.items
    BY DEF IsSeq
  <1>3. j \in Int /\ k \in Int
    BY DEF IsSeq
  <1>4. \A i \in j + 1 .. k : i \in j .. k
    BY <1>3
  <1>5. NamesObject(j)
    BY <1>0
  <1>6. \A i \in j + 1 .. k : ~NamesObject(i)
    BY <1>0, <1>2, <1>4
  <1> QED
    BY <1>1, <1>5, <1>6 DEF MethodsKeepTheirObject

LEMMA RetObjects == ASSUME Shape, MethodsKeepTheirObject, Ret PROVE MethodsKeepTheirObject'
  <1>1. \/ UNCHANGED callStack_
        \/ \E o \in C!PopOutcomes(callStack_, [retLine |-> 0, var |-> 0]) : callStack_' = o.st
    BY DEF Ret
  <1>2. UNCHANGED script /\ IsSeq(callStack_'.items)
    BY ShapeKept DEF Next, Execute, Shape, IsStack
  <1> DEFINE items == callStack_.items
             n == Len(items)
  <1>3. n \in Nat /\ IsSeq(items) /\ DOMAIN items = 1 .. n
    BY DEF Shape, IsStack, IsSeq
  <1>4. \/ callStack_'.items = items
        \/ n > 0 /\ callStack_'.items = SubSeq(items, 1, n - 1)
    BY <1>1, CallPop DEF Shape
  <1>5. n > 0 => /\ DOMAIN SubSeq(items, 1, n - 1) = 1 .. n - 1
                 /\ \A k \in 1 .. n - 1 : SubSeq(items, 1, n - 1)[k] = items[k]
    BY <1>3
  <1> HIDE DEF n
  <1> QED
    BY <1>2, <1>3, <1>4, <1>5, SameObjects

\* A frame pushed by this call, on the object it names or on that of the top frame.
LEMMA EnterObjects ==
  ASSUME Shape, MethodsKeepTheirObject, UNCHANGED script, NEW var,
         \E o \in C!PushOutcomes(callStack_, [retLine |-> run_line_, var |-> var]) :
           callStack_' = o.st,
         arg1.kind \in {"func", "funcMember"},
         IF arg1.kind = "func" THEN var = 0
         ELSE \/ arg1.var # 0 /\ var = arg1.var
              \/ /\ arg1.var = 0
                 /\ Len(callStack_.items) > 0 =>
                      var = callStack_.items[Len(callStack_.items)].var
  PROVE  MethodsKeepTheirObject'
  <1> DEFINE items == callStack_.items
  <1>0. PICK n, frame : n = Len(items) /\ frame = [retLine |-> run_line_, var |-> var]
    OBVIOUS
  <1>1. n \in Nat /\ IsSeq(items) /\ DOMAIN items = 1 .. n
    BY <1>0 DEF Shape, IsStack, IsSeq
  <1>2. callStack_'.items \in {items, Append(items, frame)}
    <2>1. PICK o \in C!PushOutcomes(callStack_, frame) : callStack_' = o.st
      BY <1>0
    <2> QED
      BY <2>1, CallPush DEF Shape
  <1>3. CASE callStack_'.items = items
    BY <1>1, <1>3, SameObjects
  <1>4. CASE callStack_'.items = Append(items, frame)
    <2>1. /\ DOMAIN callStack_'.items = 1 .. n + 1
          /\ \A k \in 1 .. n : callStack_'.items[k] = items[k]
          /\ callStack_'.items[n + 1] = frame
      BY <1>0, <1>1, <1>4, AppendIsSeq DEF IsSeq
    <2>2. /\ \A k \in 1 .. n : CalledOn(k)' = CalledOn(k)
          /\ CalledOn(n + 1)' = arg1
      BY <1>0, <2>1 DEF CalledOn, Lines, Line, arg1
    <2> SUFFICES ASSUME NEW j \in 1 .. n + 1, NEW k \in 1 .. n + 1,
                        j <= k, NamesObject(j)', \A i \in j + 1 .. k : ~NamesObject(i)'
                 PROVE  callStack_'.items[k].var =
                          IF CalledOn(j)'.kind = "func" THEN 0 ELSE CalledOn(j)'.var
      BY <2>1 DEF MethodsKeepTheirObject
    <2>3. CASE k \in 1 .. n
      <3>1. j \in 1 .. n /\ NamesObject(j) /\ \A i \in j + 1 .. k : ~NamesObject(i)
        BY <1>1, <2>2, <2>3 DEF NamesObject
      <3>2. items[k].var = IF CalledOn(j).kind = "func" THEN 0 ELSE CalledOn(j).var
        BY <1>1, <2>3, <3>1 DEF MethodsKeepTheirObject
      <3> QED
        BY <2>1, <2>2, <2>3, <3>1, <3>2
    <2>4. CASE k = n + 1 /\ j = n + 1
      BY <1>0, <2>1, <2>2, <2>4 DEF NamesObject
    <2>5. CASE k = n + 1 /\ j \in 1 .. n
      <3>1. n \in 1 .. n /\ n + 1 \in j + 1 .. k /\ j <= n
        BY <1>1, <2>5
      <3>2. arg1.kind = "funcMember" /\ arg1.var = 0
        BY <2>2, <3>1 DEF NamesObject
      <3>3. NamesObject(j) /\ \A i \in j + 1 .. n : ~NamesObject(i)
        BY <1>1, <2>2, <2>5 DEF NamesObject
      <3>4. items[n].var = IF CalledOn(j).kind = "func" THEN 0 ELSE CalledOn(j).var
        BY <1>1, <2>5, <3>1, <3>3 DEF MethodsKeepTheirObject
      <3>5. frame.var = items[n].var
        BY <1>0, <1>1, <3>1, <3>2
      <3> QED
        BY <2>1, <2>2, <2>5, <3>4, <3>5
    <2> QED
      BY <1>1, <2>3, <2>4, <2>5
  <1> QED
    BY <1>2, <1>3, <1>4

LEMMA CallObjects == ASSUME Shape, MethodsKeepTheirObject, Call PROVE MethodsKeepTheirObject'
  <1>1. UNCHANGED script
    BY ShapeKept DEF Next, Execute
  <1>2. CASE arg1.kind = "func" /\ Enter([retLine |-> run_line_, var |-> 0])
    BY <1>1, <1>2, EnterObjects DEF Enter
  <1>3. CASE /\ arg1.kind = "funcMember" /\ arg1.var # 0
             /\ Enter([retLine |-> run_line_, var |-> arg1.var])
    BY <1>1, <1>3, EnterObjects DEF Enter
  <1>4. CASE /\ arg1.kind = "funcMember" /\ arg1.var = 0
             /\ \E t \in TopFrames :
                  t.end = "returned" /\ Enter([retLine |-> run_line_, var |-> t.val.var])
    <2>1. PICK t \in TopFrames :
            t.end = "returned" /\ Enter([retLine |-> run_line_, var |-> t.val.var])
      BY <1>4
    <2>2. Len(callStack_.items) > 0 => t.val = callStack_.items[Len(callStack_.items)]
      BY <2>1, CallTop DEF TopFrames, Shape
    <2> QED
      BY <1>1, <1>4, <2>1, <2>2, EnterObjects DEF Enter
  <1>5. CASE UNCHANGED callStack_
    BY <1>1, <1>5, SameObjects DEF Shape, IsStack
  <1> QED
    BY <1>2, <1>3, <1>4, <1>5 DEF Call

LEMMA ObjectStep ==
  ASSUME Shape, MethodsKeepTheirObject, Next
  PROVE  MethodsKeepTheirObject'
  <1>1. CASE Call \/ Ret
    BY <1>1, CallObjects, RetObjects
  <1>2. CASE UNCHANGED callStack_
    BY <1>2, ShapeKept, SameObjects DEF Shape, IsStack
  <1>3. Works \/ Jump \/ CFunc \/ Null \/ Finish \/ Proceed \/ Refuse => UNCHANGED callStack_
    BY Quiet DEF Works
  <1> QED
    BY <1>1, <1>2, <1>3, Steps

-----------------------------------------------------------------------------
LEMMA InitIInv == Init => IInv
  <1> SUFFICES ASSUME Init PROVE IInv
    OBVIOUS
  <1>1. IsSeq(<<>>)
    <2>1. <<>> \in Seq({})
      OBVIOUS
    <2> QED
      BY <2>1, OfRange
  <1>2. IsStack(dataStack_) /\ IsStack(callStack_) /\ Len(callStack_.items) = 0
    BY <1>1 DEF Init, D!EmptyStack, C!EmptyStack, IsStack
  <1>3. Open(0) = {}
    BY DEF Open
  <1>4. Shape /\ MethodsKeepTheirObject /\ Len(Lines) \in Nat
    BY <1>2, ProgramsAssumption
       DEF Init, Shape, MethodsKeepTheirObject, Lines, C!EmptyStack
  <1>5. ControlOK
    BY <1>2, <1>3, <1>4 DEF Init, ControlOK, Around
  <1> QED
    BY <1>4, <1>5 DEF IInv

LEMMA NextIInv == IInv /\ [Next]_vars => IInv'
  <1> SUFFICES ASSUME IInv, [Next]_vars PROVE IInv'
    OBVIOUS
  <1>1. CASE Next
    BY <1>1, ShapeKept, ControlStep, ObjectStep DEF IInv
  <1>2. CASE UNCHANGED vars
    <2>1. UNCHANGED <<script, run_line_, dataStack_, callStack_, status>>
      BY <1>2 DEF vars
    <2>2. Shape' /\ MethodsKeepTheirObject'
      BY <2>1, SameObjects DEF IInv, Shape, IsStack, IsSeq
    <2>3. Orderly' => ControlOK'
      BY <2>1, SameProgram, StopControl DEF IInv, Orderly
    <2> QED
      BY <2>2, <2>3 DEF IInv
  <1> QED
    BY <1>1, <1>2

THEOREM Inductive == Spec => []IInv
  BY InitIInv, NextIInv, PTL DEF Spec

-----------------------------------------------------------------------------
(***************************************************************************)
(* In every script and at any depth of calls, a method called on no object of   *)
(* its own has the object of the last call that named one, and a function that   *)
(* is no method has none (ComplexCall and Call).                                 *)
(***************************************************************************)
THEOREM ObjectsKept == Spec => []MethodsKeepTheirObject
  <1>1. IInv => MethodsKeepTheirObject
    BY DEF IInv
  <1> QED
    BY Inductive, <1>1, PTL

\* The function a line belongs to is the one that is open there.
LEMMA FunctionOfOpen ==
  ASSUME NEW l
  PROVE  /\ Open(l) = {} => FunctionOf(l) = -1
         /\ \A f \in Nat : Open(l) = {f} => FunctionOf(l) = f
  BY DEF FunctionOf

(***************************************************************************)
(* In every disciplined script, of any length and with any bound on the call   *)
(* stack, the line to run lies in the function the top frame entered, each       *)
(* frame was pushed by a call in the function of the frame below it, and the      *)
(* end of the program is reached with no frame left (Call, Ret and the skipping   *)
(* of declarations in RunScript).                                              *)
(***************************************************************************)
THEOREM ControlFollows == Spec => []ControlFollowsCalls
  <1>1. ASSUME IInv PROVE ControlFollowsCalls
    <2> SUFFICES ASSUME Orderly
                 PROVE  LET frames == callStack_.items
                            Home(k) == IF k = 0 THEN -1 ELSE CalledBy(frames[k])
                        IN  /\ \A k \in DOMAIN frames :
                                 /\ Lines[frames[k].retLine + 1].cmd = "Call"
                                 /\ FunctionOf(frames[k].retLine) = Home(k - 1)
                            /\ run_line_ \in 0 .. Len(Lines) - 1 =>
                                 FunctionOf(run_line_) = Home(Len(frames))
                            /\ run_line_ >= Len(Lines) => frames = <<>>
      BY DEF ControlFollowsCalls, Orderly
    <2> DEFINE frames == callStack_.items
               Home(k) == IF k = 0 THEN -1 ELSE CalledBy(frames[k])
               n == Len(frames)
    <2>1. /\ Shape /\ ControlOK /\ Len(Lines) \in Nat /\ n \in Nat
          /\ DOMAIN frames = 1 .. n /\ (n = 0 => frames = <<>>)
      BY <1>1, ProgramsAssumption DEF IInv, Shape, IsStack, IsSeq, Lines
    <2>2. ASSUME NEW k \in 1 .. n
          PROVE  /\ CalledBy(frames[k]) \in 0 .. Len(Lines) - 1
                 /\ \E r \in CalledBy(frames[k]) + 1 .. Len(Lines) - 1 : Lines[r + 1].cmd = "Ret"
      BY <2>1, CallDisciplined DEF ControlOK, PushedByCall, Orderly, CalledBy
    <2>3. ASSUME NEW k \in 0 .. n, NEW l, Open(l) = Around(k) PROVE FunctionOf(l) = Home(k)
      <3>1. CASE k = 0
        BY <2>3, <3>1, FunctionOfOpen DEF Around
      <3>2. CASE k # 0
        <4>1. k \in 1 .. n /\ Open(l) = {CalledBy(frames[k])}
          BY <2>1, <2>3, <3>2 DEF Around
        <4>2. CalledBy(frames[k]) \in Nat
          BY <2>1, <2>2, <4>1
        <4> QED
          BY <3>2, <4>1, <4>2, FunctionOfOpen
      <3> QED
        BY <3>1, <3>2
    <2>4. ASSUME NEW k \in DOMAIN frames
          PROVE  /\ Lines[frames[k].retLine + 1].cmd = "Call"
                 /\ FunctionOf(frames[k].retLine) = Home(k - 1)
      <3>1. k \in 1 .. n /\ k - 1 \in 0 .. n
        BY <2>1
      <3> QED
        BY <2>1, <2>3, <3>1 DEF ControlOK, PushedByCall
    <2>5. run_line_ \in 0 .. Len(Lines) - 1 => FunctionOf(run_line_) = Home(n)
      <3>1. run_line_ \in 0 .. Len(Lines) - 1 => Open(run_line_) = Around(n)
        BY <2>1 DEF ControlOK
      <3> QED
        BY <2>1, <2>3, <3>1
    <2>6. run_line_ >= Len(Lines) => frames = <<>>
      <3>1. SUFFICES ASSUME run_line_ = Len(Lines), n # 0 PROVE FALSE
        BY <2>1 DEF ControlOK
      <3> DEFINE f == CalledBy(frames[n])
      <3>2. f \in Open(Len(Lines))
        BY <2>1, <3>1 DEF ControlOK, Around
      <3>3. PICK r \in f + 1 .. Len(Lines) - 1 : Lines[r + 1].cmd = "Ret"
        <4>1. n \in 1 .. n
          BY <2>1, <3>1
        <4> QED
          BY <2>2, <4>1
      <3> HIDE DEF f
      <3> QED
        BY <3>2, <3>3 DEF Open
    <2> QED
      BY <2>4, <2>5, <2>6
  <1> QED
    BY Inductive, <1>1, PTL

(***************************************************************************)
(* What an exception leaves behind, in any script and whichever of its calls    *)
(* throws: variables, registers, flag, dump point and frames are those from       *)
(* before the command; its operands are lost, all that there were if memory does  *)
(* not run out, none if the stack was broken; and the line is its own unless a    *)
(* ret had no frame, or no memory, to pop.                                        *)
(***************************************************************************)
THEOREM ThrowsLose == Spec => ThrowsLoseOperands
  <1> DEFINE Thrown ==
        status = "running" /\ status' = "asking" =>
          LET depth == D!Depth(dataStack_)
          IN  /\ UNCHANGED machine
              /\ callStack_'.items = callStack_.items
              /\ \/ run_line_' = run_line_
                 \/ Line.cmd = "Ret" /\ (callStack_.items = <<>> \/ AllocFails)
              /\ \E n \in 0 .. Operands :
                   /\ dataStack_'.items = SubSeq(dataStack_.items, 1, depth - n)
                   /\ dataStack_.broken => n = 0
                   /\ ~AllocFails /\ ~dataStack_.broken => n = Operands \/ n = depth
  <1>1. IInv /\ [Next]_vars => [Thrown]_vars
    <2> SUFFICES ASSUME Shape, Next, status = "running", status' = "asking" PROVE Thrown
      BY DEF IInv
    <2>1. CASE Works
      BY <2>1 DEF Works, Moves, Undone, Lost
    <2>2. CASE Call \/ Ret
      <3>1. Framed
        BY <2>2, CallFramed, RetFramed
      <3>2. Operands = 0
        BY <2>2, OperandsRange DEF Call, Ret, Ready, StackArithmetic
      <3>3. \E n \in 0 .. Operands : Lost(n)
        BY <3>1, <3>2, NothingLost DEF Framed, Shape
      <3> QED
        BY <3>1, <3>3 DEF Framed, Lost
    <2>3. CASE Jump \/ CFunc \/ Null \/ Finish \/ Proceed \/ Refuse
      BY <2>3, Quiet
    <2> QED
      BY <2>1, <2>2, <2>3, Steps
  <1> QED
    BY Inductive, <1>1, PTL DEF Spec, ThrowsLoseOperands
=============================================================================
