------------------------------ MODULE MCBuilder ------------------------------
(* Scripts for Builder: every script of a few lines out of three vocabularies *)
(* (scopes, names, structs), and whole scripts written out.                  *)
EXTENDS Builder

Plain(cmd) == [cmd |-> cmd]
Of(cmd, name) == [cmd |-> cmd, name |-> name]
Uses(arg, arg2) == [cmd |-> "use", arg |-> arg, arg2 |-> arg2]
Use(path) == Uses(Name(path, FALSE), None)
At(path) == Uses(Name(path, TRUE), None)
NumUse == Uses(Num(7), None)
Call(name, arg, arg2) == [cmd |-> "name", name |-> name, arg |-> arg, arg2 |-> arg2]
Declare(name, type) ==
  [cmd |-> "var", name |-> name, type |-> IF type = "" THEN None ELSE Name(<<type>>, FALSE)]

Scopes == {Declare("a", ""), Declare("b", "type_ptr"), Use(<<"a">>), At(<<"b">>),
           Of("func", "f"), Of("func", "g"), Plain("ret")}

Meanings == {Of(cmd, "f") : cmd \in {"func", "pfunc", "label", "plabel", "const",
                                     "extern", "import"}}
            \cup {Declare("f", ""), Use(<<"f">>), Uses(None, Name(<<"f">>, TRUE)),
                  Uses(Name(<<"f">>, FALSE), Name(<<"f">>, FALSE)), Plain("ret"),
                  Call("f", Name(<<"f">>, FALSE), None), Call("f", Name(<<"f">>, TRUE), Num(7))}

Structs == {Of("struct", "S"), Plain("struct_end"), Declare("a", "type_dword"),
            Declare("b", "type_S"), Of("func", "m"), Of("pfunc", "m"), Plain("ret"),
            Use(<<"a">>), Use(<<"b", "m">>), Use(<<"b", "a">>)}

\* Two classes; a method calls another before its definition and both on an object.
Classes ==
  << Of("struct", "S"), Declare("a", "type_ptr"), Of("pfunc", "m"), Of("pfunc", "g"),
     Of("func", "g"), Use(<<"m">>), At(<<"a">>), Declare("c", ""), Plain("ret"),
     Of("func", "m"), Plain("null"), Plain("ret"), Plain("struct_end"),
     Of("struct", "T"), Declare("o", "type_S"), Of("func", "r"), Use(<<"o", "a">>),
     Plain("ret"), Plain("struct_end"),
     Declare("b", "type_T"), Use(<<"b", "r">>), Use(<<"b", "o", "a">>), Use(<<"b", "x">>),
     Use(<<"b">>), Of("func", "f"), Use(<<"b", "r">>), Plain("ret") >>

\* A method announced in its struct and called on an object before it is defined.
Early ==
  << Declare("b", ""), Of("struct", "S"), Of("pfunc", "m"), Use(<<"b", "m">>),
     Of("func", "m"), NumUse, Plain("ret"), Of("pfunc", "m"), Plain("struct_end") >>

\* Methods announced and given as second arguments: of the first line that names one,
\* of a later one.
Second ==
  << Of("extern", "x"), Of("struct", "S"), Declare("a", ""), Of("pfunc", "m"),
     Of("pfunc", "g"), Of("func", "f"), Uses(Num(7), Name(<<"m">>, FALSE)),
     Uses(Name(<<"a">>, FALSE), Name(<<"g">>, FALSE)), Plain("ret"),
     Of("func", "g"), Call("x", Name(<<"m">>, FALSE), Name(<<"m">>, FALSE)), Plain("ret"),
     Of("func", "m"), Plain("ret"), Plain("struct_end") >>

\* A local rebuilt in a second function; constants as types; functions announced.
Locals ==
  << Of("pfunc", "g"), Of("func", "f"), Declare("a", "type_ptr"), Use(<<"g">>), At(<<"a">>),
     Plain("ret"), Declare("a", "PRINT_STRING"), Of("func", "g"), Use(<<"a">>),
     Declare("a", "type_word"), At(<<"a">>), Of("plabel", "x"), Use(<<"x">>),
     Of("label", "x"), Plain("ret"), Use(<<"a">>), Use(<<"g">>), Use(<<"x">>) >>

\* Two structs that have a field of the same name at different offsets, and the
\* order of their methods' names.
Twins(first, second) ==
  << Of("struct", "S"), Declare("a", "type_byte"), Of("func", first), Use(<<"a">>),
     Use(<<"c">>), Plain("ret"), Plain("struct_end"),
     Of("struct", "T"), Declare("c", "type_word"), Declare("a", "type_byte"),
     Of("func", second), Use(<<"a">>), Use(<<"c">>), Plain("ret"), Plain("struct_end") >>

\* A global that shares its number with a dead local and leaves it again, and a
\* label that has the name of a struct's type.
Shared ==
  << Declare("a", ""), Of("func", "f"), Declare("c", ""), Plain("ret"), Declare("a", ""),
     Of("func", "g"), Plain("ret"), Use(<<"a">>), Declare("d", ""), Declare("a", ""),
     Of("label", "type_S"), Of("struct", "S"), Plain("struct_end") >>

Whole == {Twins("f", "g"), Twins("g", "f"), Twins("f", "f"), Classes, Early, Second,
          [Early EXCEPT ![8] = Plain("null")], Locals, Shared}

MCContinues(read) ==
  LET n == Len(read) + 1
  IN  {w[n] : w \in {w \in Whole : n <= Len(w) /\ SubSeq(w, 1, n - 1) = read}}
      \cup UNION {v.lines : v \in {v \in {[lines |-> Scopes, max |-> 6],
                                          [lines |-> Meanings, max |-> 4],
                                          [lines |-> Structs, max |-> 5]} :
                                     /\ n <= v.max
                                     /\ \A i \in DOMAIN read : read[i] \in v.lines}}

MCTypeName(struct) == "type_" \o struct
MCAlphabet == <<"S", "T", "a", "b", "c", "d", "f", "g", "m", "o", "r", "x">>
MCGarbageLines == {0, 99}
=============================================================================
