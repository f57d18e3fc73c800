------------------------------- MODULE MCJit -------------------------------
(* Small scripts for Jit.  Lines count from 0; a label or blank line is Null. *)
EXTENDS Jit

None == [kind |-> "none", var |-> 0, num |-> 0]
V(v) == [kind |-> "var", var |-> v, num |-> 0]
N(n) == [kind |-> "num", var |-> 0, num |-> n]

Line(flag, cmd, dst, src, to) ==
  [flag |-> flag, cmd |-> cmd, dst |-> dst, src |-> src, to |-> to]
In2(cmd, a, b) == Line("Func", cmd, a, b, -1)
Do(cmd) == In2(cmd, None, None)
Go(cmd, to) == Line("Func", cmd, None, None, to)
Blank == Line("Null", "Null", None, None, -1)
Prototype == Line("PFunc", "PFunc", None, None, -1)
Declare == Line("CFunc", "CFunc", None, None, -1)
Embedder == Line("UFunc", "UFunc", None, None, -1)

\* A loop that counts down, with every jump that can follow a comparison.
Loop ==
  [sizes |-> <<1, 8>>,
   lines |-> << In2("Mov", V(1), N(258)), Blank,        \* 2 in a byte; label at 1
                In2("Sub", V(1), N(1)), Do("Push"),
                In2("Cmpr", V(1), N(0)), Go("Ja", 1),
                In2("Mov", V(2), N(-5)), In2("Cmpr", V(2), N(-4)),
                Go("Jbe", 10), Do("Pop"), Blank,          \* 9 is jumped over
                Go("Jae", 13), Go("Jb", 15), Blank, Do("Muls"), Blank,
                Go("Je", 19), Go("Jne", 19), Do("Pop"), Blank >>]

\* Functions that call each other, labels and blank lines around them.
Calls ==
  [sizes |-> <<2>>,
   lines |-> << Prototype, Declare, Do("Push"), Do("Ret"),
                Declare, Blank, Go("Call", 1), Do("Pop"), Go("Call", 1), Do("Ret"),
                Blank, In2("Add", V(1), N(7)), Go("Call", 4), Blank, Go("Jmp", 13 + 3),
                Do("Push"), Blank, Do("other"), Do("Lea") >>]

\* Recursion stopped by the call stack.
Recursion ==
  [sizes |-> <<>>,
   lines |-> << Declare, Go("Call", 0), Do("Ret"), Go("Call", 0), Do("Push") >>]

\* Values of several widths, moved, added and subtracted.
Widths ==
  [sizes |-> <<1, 2, 8>>,
   lines |-> << In2("Mov", V(1), N(200)), In2("Mov", V(2), N(511)), In2("Mov", V(3), N(-3)),
                In2("Sub", V(1), V(2)), In2("Add", V(2), V(3)), In2("Mov", V(1), V(2)),
                In2("Sub", V(3), N(4)), In2("Add", V(3), V(3)), In2("Mov", V(2), V(3)),
                In2("Cmpr", V(2), N(3)), In2("Mov", V(3), V(1)), In2("Add", V(3), V(1)),
                In2("Mov", V(3), V(3)) >>]

\* Comparisons that are not translated to what Cmpr does, jumps on a flag not set.
Oddities ==
  [sizes |-> <<1, 1>>,
   lines |-> << Go("Jb", 2), Go("Ja", 3), Blank, Blank, In2("Mov", V(1), N(1)),
                In2("Mov", V(2), N(2)), In2("Cmpr", V(1), V(2)), Go("Jne", 9), Do("Divs"),
                Blank, In2("Cmpr", N(1), V(2)), In2("Cmpr", N(1), N(2)) >>]

\* A function of the embedder, in the script and in a function of the script.
Host ==
  [sizes |-> <<>>,
   lines |-> << Embedder, Embedder, Go("Jmp", 7), Blank, Declare, Embedder, Do("Ret"),
                Blank, Do("Push"), Go("Call", 4), Do("Pop") >>]

\* The second variable has a struct's size: the translation stops half way.
Refused ==
  [sizes |-> <<1, 3>>,
   lines |-> << Go("Jmp", 1), Blank, In2("Cmpr", V(1), N(1)), In2("Mov", V(2), V(2)) >>]

\* A ret outside every function; a function whose ret is the last line.
Stray == [sizes |-> <<>>, lines |-> << Do("Push"), Do("Ret"), Do("Pop") >>]
LastRet == [sizes |-> <<>>, lines |-> << Do("Push"), Declare, Do("Ret") >>]

\* The sum of two values is given to a number.
Nowhere == [sizes |-> <<1>>, lines |-> << In2("Add", N(1), V(1)), Do("Pop") >>]

MCPrograms ==
  [loop |-> Loop, calls |-> Calls, recursion |-> Recursion, widths |-> Widths,
   oddities |-> Oddities, host |-> Host, refused |-> Refused, stray |-> Stray,
   lastret |-> LastRet, nowhere |-> Nowhere]

MCOpaque == {"Push", "Pop", "Lea", "Muls", "Divs"}
MCGarbage == {0, 9}
=============================================================================
