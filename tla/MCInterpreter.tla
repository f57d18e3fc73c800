--------------------------- MODULE MCInterpreter ---------------------------
(* Small programs for Interpreter, one per kind of behaviour.  Lines count   *)
(* from 0, as run_line_ does; a blank line follows each call, for ret to pass. *)
EXTENDS Interpreter

None == [kind |-> "null"]
N(n) == [kind |-> "num", num |-> n]
V(v) == [kind |-> "var", var |-> v]
M(v, offset, code) == [kind |-> "member", var |-> v, offset |-> offset, code |-> code]
R(r) == [kind |-> "reg", reg |-> r]
Type(code) == [kind |-> "num", code |-> code]
To(line) == [kind |-> "label", line |-> line]
F(line) == [kind |-> "func", line |-> line]
Method(v, line) == [kind |-> "funcMember", var |-> v, line |-> line]
Str == [kind |-> "str"]
Dll == [kind |-> "dllFunc"]

In2(cmd, a, b) == [flag |-> "Func", cmd |-> cmd, arg1 |-> a, arg2 |-> b]
In(cmd, a) == In2(cmd, a, None)
Plain(flag) == [flag |-> flag, cmd |-> flag, arg1 |-> None, arg2 |-> None]
Blank == Plain("Null")
Ret0 == In("Ret", None)

\* Arithmetic, comparison and every jump; a division by 0 that the user may
\* step over, with a user function right after it.
Numbers ==
  [vars |-> <<"byte", "word">>,
   lines |-> <<
     In2("Mov", V(1), N(300)),           \* 0: 44, the low byte
     In2("Mov", V(2), V(1)),
     In2("Cmpr", V(1), N(3)),
     In("Ja", To(5)),
     In("Jmp", To(4)),                   \* 4
     In("Jae", To(6)),
     In2("Sub", V(2), N(50)),            \* 6: -6
     In2("Div", V(2), N(4)),
     In2("Div", V(2), N(0)),             \* 8
     Plain("UFunc"),
     In2("Cmpr", V(2), N(0)),            \* 10
     In("Jb", To(12)),
     In("Jbe", To(12)),                  \* 12
     In("Sqrt", V(1)),
     In("Sqrt", V(2)),
     In2("Mul", R("aqx"), V(1)),
     In2("Add", R("aqx"), N(-1)),
     In("Push", N(7)), In("Push", N(0)),
     In("Adds", None),                   \* 7 + 0 = 7
     In("Push", N(0)), In("Divs", None), \* 7 / 0
     In("Subs", None) >>]

\* A counter of one byte, run down by a loop.
Loop ==
  [vars |-> <<"byte">>,
   lines |-> << In2("Mov", V(1), N(258)), In("Je", To(1)), In("Decr", V(1)),
                In2("Cmpr", V(1), N(0)), In("Jne", To(1)),
                In2("RebuildVar", V(1), Type("qword")), In2("RebuildVar", V(1), None) >>]

\* A struct with two methods: a method calls another on its own object, and
\* members are named with and without a variable.
Methods ==
  [vars |-> <<"pair", "pair">>,
   lines |-> <<
     Plain("CFunc"),                      \* 0: Outer
     In2("Mov", M(0, 1, "byte"), N(5)),
     In("Call", Method(0, 5)), Blank,
     Ret0,
     Plain("CFunc"),                      \* 5: Inner
     In("Push", M(0, 1, "byte")), In("Pop", M(0, 2, "word")),
     Ret0,
     In("Call", Method(2, 0)), Blank,     \* 9
     In2("Mov", V(1), V(2)),
     In("Call", F(5)), Blank,             \* 12: no object in the frame
     In("Pop", M(1, 1, "byte")),
     In2("Print", N(55), M(1, 2, "word")) >>]

\* Recursion without an end.
Recursion ==
  [vars |-> <<>>,
   lines |-> << Plain("CFunc"), In("Call", F(0)), Blank, Ret0,
                In("Call", F(0)), Blank, In("Push", N(1)) >>]

\* More pushes than the data stack holds, then calls on the broken stack.
Overflow ==
  [vars |-> <<"byte">>,
   lines |-> << In("Push", N(1)), In("Push", N(2)), In("Push", Str), In("Push", N(3)),
                In("InitStackDumpPoint", None), In("JIT_Call_Void", Dll),
                In2("JIT_Call_DWord", Dll, V(1)), In2("Print", N(54), N(56)) >>]

\* DLL functions called without parameters and with a pointer, and a stack popped
\* below the dump point.
Foreigner ==
  [vars |-> <<"dword", "ptr">>,
   lines |-> << In2("Lea", V(1), V(2)), In2("Lea", V(2), V(1)),
                In("InitStackDumpPoint", None), In2("JIT_Call_QWord", Dll, R("aqx")),
                In2("JIT_Call_DWord", Dll, V(1)), In("Push", V(2)),
                In("JIT_Call_Void", Dll), In("JIT_Printf", None),
                In("Pop", R("abx")), In("Push", Str), In2("Print", N(54), N(56)),
                In2("Print", N(54), V(1)), In2("Print", N(54), Str), In2("Print", N(55), N(0)),
                In("InitStackDumpPoint", None), In("Pop", None), In("JIT_Call_Void", Dll) >>]

\* Arguments of the wrong kind, an empty stack, a declaration without a ret.
Mistakes ==
  [vars |-> <<"byte">>,
   lines |-> << In("Push", None), In("Pop", N(1)), In("Pop", None), In("Adds", None),
                In("Push", N(1)), In("Muls", None), In("Jne", To(6)),
                In2("Print", N(55), N(56)), In2("Print", N(0), N(56)),
                Plain("CFunc"), In("Push", N(1)) >>]

\* A ret and members where no frame is: what lies before the block is used.
Stray ==
  [vars |-> <<"pair">>,
   lines |-> << In("Push", M(0, 1, "byte")), In("Pop", M(0, 1, "byte")),
                In2("Mov", M(0, 2, "word"), N(1)), In("Call", Method(0, 6)), Blank,
                Ret0, Plain("CFunc"), Ret0 >>]

Examples == [numbers |-> Numbers, loop |-> Loop, methods |-> Methods,
             recursion |-> Recursion, overflow |-> Overflow,
             foreigner |-> Foreigner, mistakes |-> Mistakes, stray |-> Stray]

\* Every program of two functions, with two lines in each and four in main, each
\* pair a call, a jump, or work on the data stack.
Slot(choice, line) ==
  CASE choice = "f" -> << In("Call", F(0)), Blank >>
    [] choice = "g" -> << In("Call", F(4)), Blank >>
    [] choice = "jump" -> << In("Jmp", To(line + 1)), Blank >>
    [] choice = "push" -> << In("Push", N(1)), Plain("UFunc") >>
    [] choice = "divs" -> << In("Divs", None), Plain("UFunc") >>

Skeleton(c) ==
  [vars |-> <<>>,
   lines |-> <<Plain("CFunc")>> \o Slot(c[1], 1) \o << Ret0, Plain("CFunc") >>
             \o Slot(c[2], 5) \o <<Ret0>> \o Slot(c[3], 8) \o Slot(c[4], 10)]

MCPrograms ==
  [name \in {<<e>> : e \in DOMAIN Examples} \cup [1 .. 4 -> {"f", "g", "jump", "push", "divs"}]
     |-> IF Len(name) = 1 THEN Examples[name[1]] ELSE Skeleton(name)]

MCStructs == [pair |-> <<"byte", "word">>]
MCReg == [aqx |-> 8, abx |-> 1]
MCAddress(a) == IF a.kind = "str" THEN 500 ELSE 1000 + 10 * a.var + a.offset
MCStrings == {500}
MCGarbage == {0, 9}
MCForeign == {3}
MCWildFrames == {[retLine |-> 1, var |-> 0], [retLine |-> 6, var |-> 1],
                 [retLine |-> -40, var |-> 77]}
=============================================================================
