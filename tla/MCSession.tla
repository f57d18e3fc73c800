----------------------------- MODULE MCSession -----------------------------
(* Scripts for Session: functions of the embedding program declared in        *)
(* alphabetical order and not, errors of each kind, strings, imports.          *)
EXTENDS Session

MCNames == <<"a", "b", "d", "e">>

Program(externs, lines) ==
  [dlls |-> <<>>, vars |-> <<>>, externs |-> externs, strings |-> <<>>, lines |-> lines]
Parses(p) == [program |-> p, parses |-> TRUE]
Broken == [program |-> Nothing, parses |-> FALSE]

One == [n \in {"b"} |-> 0]
Ordered == [n \in {"a", "b"} |-> IF n = "a" THEN 0 ELSE 1]
Swapped == [n \in {"a", "b"} |-> IF n = "a" THEN 1 ELSE 0]
Vars == << [num |-> 0, code |-> 10, size |-> 1], [num |-> 1, code |-> 11, size |-> 2] >>
Shared == << [num |-> 0, code |-> 10, size |-> 1], [num |-> 0, code |-> 11, size |-> 2] >>

MCScripts ==
  [one     |-> Parses(Program(One, << <<"call", 0>>, <<"error", 0>> >>)),
   ordered |-> Parses(Program(Ordered, << <<"call", 1>>, <<"call", 0>> >>)),
   swapped |-> Parses(Program(Swapped, << <<"call", 0>> >>)),
   faulty  |-> Parses(Program(One, << <<"fatal", 0>>, <<"call", 0>>, <<"fatal", 0>> >>)),
   struct  |-> Parses([Program(<<>>, << <<"fine", 0>>, <<"unsized", 0>> >>) EXCEPT !.vars = Vars]),
   shared  |-> Parses([Program(<<>>, << <<"fine", 0>> >>) EXCEPT !.vars = Shared]),
   text    |-> Parses([Program(<<>>, << <<"fatal", 0>> >>) EXCEPT !.strings = << <<"x">>, <<>> >>]),
   control |-> Parses([Program(One, << <<"fine", 0>> >>)
                         EXCEPT !.strings = << <<"x">>, <<"y", "end", "x">>, <<"y">> >>]),
   found   |-> Parses([Program(<<>>, << <<"fine", 0>> >>)
                         EXCEPT !.dlls = [d \in {"d"} |-> << <<"a", 0>>, <<"b", 1>> >>]]),
   missing |-> Parses([Program(<<>>, << <<"fine", 0>> >>)
                         EXCEPT !.dlls = [d \in {"e"} |-> << <<"a", 0>> >>]]),
   broken  |-> Broken, torn |-> Broken]

\* What the lines of the script with the control character are read as.
MCMisread == {<<>>, << <<"call", 0>>, <<"wild", 0>> >>, << <<"call", 1>> >>, << <<"fatal", 0>> >>}
=============================================================================
