------------------------------ MODULE JitCode ------------------------------
(***************************************************************************)
(* The code FillJitCompiler (Compiler.h) makes of a script through the Jit_    *)
(* handlers of Functions.h, line by line, and what PatchJmp does to it.  A      *)
(* script is a record p of its lines and the sizes of its variables.            *)
(*                                                                         *)
(* The code is a sequence of units, pieces that are only ever run from their   *)
(* first byte: a call of a handler, a jump, a comparison.  A unit has the      *)
(* place and length of its bytes, since that is what jumps are counted in.     *)
(***************************************************************************)
EXTENDS Integers, Sequences, SequencesExt, Encoder

CONSTANT Opaque   \* commands whose code only calls their handler (DEFAULT_BODY)

IsVar(a) == a.kind = "var"
SizeIn(p, a) == IF IsVar(a) THEN p.sizes[a.var] ELSE 8

\* Commands that are given a place, and the only others that are translated to
\* more than a call of their handler.
Targeted == {"Jmp", "Je", "Jne", "Ja", "Jae", "Jb", "Jbe", "Call"}
ASSUME OpaqueAssumption ==
  Opaque \cap ({"Mov", "Add", "Sub", "Cmpr", "Ret"} \cup Targeted) = {}

\* What the loader hands over: the place of a label or function is a line, that of
\* a label one without a command (Builder clears it), and a command has two
\* arguments whose sizes are known.
IsScript(p) ==
  /\ p.lines \in Seq(ToSet(p.lines))
  /\ \A l \in ToSet(p.lines) :
       /\ l.cmd \in Targeted => l.to \in Nat
       /\ l.cmd \in Targeted \ {"Call"} /\ l.to < Len(p.lines) => p.lines[l.to + 1].flag = "Null"
       /\ SizeIn(p, l.dst) \in Nat /\ SizeIn(p, l.src) \in Nat

MinOf(a, b) == IF a < b THEN a ELSE b

-----------------------------------------------------------------------------
\* Units.  to is where a jump goes: a line, or a unit of its own line counted
\* from the jump.
Unit(op, length) == [op |-> op, length |-> length, arg |-> 0, to |-> <<>>]
Given(op, length, arg) == [Unit(op, length) EXCEPT !.arg = arg]
JumpTo(op, length, to) == [Unit(op, length) EXCEPT !.to = to]

Handler == Unit("handler", CallMember)
GetPtr  == Unit("getptr", CallMember)
Save    == Unit("save", Plain(8) + PushImm64)
CountLine    == <<Unit("incline", IncLineSaved)>>
SetLine(l) == Given("setline", 2 * (Plain(8) + MovImm64), l)

\* FillJitCompiler's own units: the frame, and how it is left.
Prologue == Unit("enter", Plain(4) + Plain(4))
Epilogue == <<Unit("leave", Plain(4) + Plain(4)), Unit("retn", RetnLength)>>

Assign(p, l) ==
  LET s1 == SizeIn(p, l.dst)
      s2 == SizeIn(p, l.src)
      Pops == 2 * Plain(8)
  IN  IF ~IsVar(l.src)
      THEN <<GetPtr, Unit("assign", IF l.cmd = "Mov" THEN MovImm(s1)
                                    ELSE IF s1 = 8 THEN MovImm64 + Plain(8)
                                    ELSE WithImm(s1))>>
      ELSE <<GetPtr, Save, GetPtr,
             Unit("assign", Pops + (IF l.cmd = "Mov"
                                    THEN (IF s1 >= s2 THEN MovImm(s1) ELSE 0) + Plain(8)
                                    ELSE Plain(MinOf(s1, s2)))
                                 + Plain(MinOf(s1, s2)))>>

\* Mutant: the jump over FLAG_HIGH stops before FLAG_LOW.
FlagUnitsShort ==
  LET Flag(f) == Given("flag", MovImm64 + WithImm(1), f)
  IN  <<JumpTo("jg", JccLength, <<"unit", 4>>), JumpTo("jl", JccLength, <<"unit", 6>>),
        Flag(0), JumpTo("jmp", JumpLength, <<"unit", 4>>),
        Flag(1), JumpTo("jmp", JumpLength, <<"unit", 1>>),
        Flag(-1)>>

\* The flag a comparison leaves: three places, each jumped over by the one before.
FlagUnits ==
  LET Flag(f) == Given("flag", MovImm64 + WithImm(1), f)
  IN  <<JumpTo("jg", JccLength, <<"unit", 4>>), JumpTo("jl", JccLength, <<"unit", 5>>),
        Flag(0), JumpTo("jmp", JumpLength, <<"unit", 4>>),
        Flag(1), JumpTo("jmp", JumpLength, <<"unit", 2>>),
        Flag(-1)>>

Compare(p, l) ==
  LET Widened(s) == IF s = 8 THEN Plain(8) ELSE 3 * Plain(s) + MovImm64
      Against(s) == <<GetPtr, Unit("compare", MovImm64 + Plain(s) + WithImm(8))>>
  IN  (CASE IsVar(l.dst) /\ ~IsVar(l.src) -> Against(SizeIn(p, l.dst))
         [] IsVar(l.src) /\ ~IsVar(l.dst) -> Against(SizeIn(p, l.src))
         [] OTHER -> <<GetPtr, Save, GetPtr,
                       Unit("compare", 2 * Plain(8) + Widened(SizeIn(p, l.dst))
                                       + Widened(SizeIn(p, l.src)) + Plain(8))>>)
      \o FlagUnits

Conditional == [Je |-> "je", Jne |-> "jne", Ja |-> "jg", Jae |-> "jge",
                Jb |-> "jl", Jbe |-> "jle"]

Command(p, l) ==
  CASE l.cmd \in Opaque -> <<Handler, Unit("incline", IncLine)>>
    [] l.cmd \in {"Mov", "Add", "Sub"} -> Assign(p, l) \o CountLine
    [] l.cmd = "Cmpr" -> Compare(p, l) \o CountLine
    [] l.cmd = "Jmp" -> <<Handler, JumpTo("jmp", JumpLength, <<"line", l.to>>)>>
    [] l.cmd \in DOMAIN Conditional ->
         <<Handler, Unit("test", MovImm64 + WithImm(1)),
           JumpTo(Conditional[l.cmd], JccLength, <<"line", l.to>>)>> \o CountLine
    [] l.cmd = "Ret" -> <<Handler, Unit("retn", RetnLength)>>
    [] l.cmd = "Call" ->
         <<Handler, Unit("bump", Plain(8) + IncLine),
           JumpTo("call", CallLength, <<"line", l.to + 1>>), Unit("pop", Plain(8))>>
    [] OTHER -> CountLine

\* A declaration jumps to the line after the first ret, the first line being j = i.
AfterRet(p, i) ==
  LET rets == {j \in i .. Len(p.lines) - 1 : p.lines[j + 1].cmd = "Ret"}
  IN  1 + IF rets = {} THEN Len(p.lines) ELSE CHOOSE j \in rets : \A k \in rets : j <= k

\* Mutant: run_line_ is only corrected where a label stands.
LineUnitsUnaligned(p, i, need_realignment) ==
  LET l == p.lines[i + 1]
  IN  CASE l.flag = "Func"  -> Command(p, l)
        [] l.flag = "UFunc" -> <<Unit("pushargs", 2 * PushImm64),
                                 Unit("foreign", MovImm64 + Plain(4))>> \o CountLine
        [] l.flag = "CFunc" -> <<SetLine(AfterRet(p, i)),
                                 JumpTo("jmp", JumpLength, <<"line", AfterRet(p, i)>>)>>
        [] OTHER -> <<>>

\* One turn of FillJitCompiler's loop.  Lines without code do not count
\* run_line_ up; the next command sets it.
LineUnits(p, i, need_realignment) ==
  LET l == p.lines[i + 1]
  IN  CASE l.flag = "Func"  -> (IF need_realignment THEN <<SetLine(i)>> ELSE <<>>)
                               \o Command(p, l)
        [] l.flag = "UFunc" -> <<Unit("pushargs", 2 * PushImm64),
                                 Unit("foreign", MovImm64 + Plain(4))>> \o CountLine
        [] l.flag = "CFunc" -> <<SetLine(AfterRet(p, i)),
                                 JumpTo("jmp", JumpLength, <<"line", AfterRet(p, i)>>)>>
        [] OTHER -> <<>>

\* The units of line l at their places, from the given byte on.
Placed(units, l, start) ==
  LET at[k \in DOMAIN units] ==
        IF k = 1 THEN start ELSE at[k - 1] + units[k - 1].length
  IN  [k \in DOMAIN units |->
         [op |-> units[k].op, arg |-> units[k].arg, to |-> units[k].to, line |-> l,
          at |-> at[k], length |-> units[k].length, target |-> -1]]

CodeSize(code) == Last(code).at + Last(code).length

\* Where the four bytes of a jump are.
Field(u) == u.at + u.length - 4

\* JmpPatchRequestLine and JmpPatchRequestOffset.  Places are counted from 1.
Request(placed, k) ==
  LET u == placed[k]
  IN  IF u.to[1] = "line"
      THEN [first |-> Field(u), second |-> u.to[2], offset |-> FALSE]
      ELSE [first |-> Field(u), offset |-> TRUE,
            second |-> LET d == placed[k + u.to[2] - 1] IN d.at + d.length + 1]

Requests(placed) ==
  LET upTo[k \in 0 .. Len(placed)] ==
        IF k = 0 THEN <<>>
        ELSE IF placed[k].to = <<>> THEN upTo[k - 1]
        ELSE Append(upTo[k - 1], Request(placed, k))
  IN  upTo[Len(placed)]

\* A Jit_ handler finds no instruction for the size of an operand.
Encodable(s) == s \in {1, 2, 4, 8}
Untranslatable(p, l) ==
  LET s1 == SizeIn(p, l.dst)
      s2 == SizeIn(p, l.src)
  IN  /\ l.flag = "Func"
      /\ \/ /\ l.cmd \in {"Mov", "Add", "Sub"}
            /\ ~Encodable(MinOf(s1, s2)) \/ (l.cmd = "Mov" /\ s1 >= s2 /\ ~Encodable(s1))
         \/ l.cmd = "Cmpr" /\ ~(Encodable(s1) /\ Encodable(s2))

\* PatchJmp, with the code as it is and the requests in their order.  The offset
\* of a line that does not exist is read beyond func_offsets_: -1 here, nowhere.
Rel(r, func_offsets_) ==
  LET second == IF r.offset THEN r.second ELSE func_offsets_[r.second + 1]
  IN  0 - (r.first - second) - (4 + 1)
Known(r, func_offsets_) == r.offset \/ r.second \in 0 .. Len(func_offsets_) - 1

Overwrites(r, from, to) == r.first < to /\ from < r.first + 4

\* A unit any other of whose bytes are overwritten is garbage: running it may do
\* anything.
Patched(code, patches, func_offsets_) ==
  LET Own(u) == {n \in DOMAIN patches : u.to # <<>> /\ patches[n].first = Field(u)}
      Latest(u) == CHOOSE n \in Own(u) : \A m \in Own(u) : m <= n
      Body(u) == u.at + u.length - IF u.to = <<>> THEN 0 ELSE 4
      Spoiled(u) ==
        \E n \in DOMAIN patches \ Own(u) :
          \/ Overwrites(patches[n], u.at, Body(u))
          \/ Overwrites(patches[n], u.at, u.at + u.length)
             /\ (Own(u) = {} \/ n > Latest(u))
  IN  [k \in DOMAIN code |->
         LET u == code[k]
         IN  IF Spoiled(u) THEN [u EXCEPT !.op = "garbage"]
             ELSE IF Own(u) = {} THEN u
             ELSE LET r == patches[Latest(u)]
                  IN  [u EXCEPT !.target = IF Known(r, func_offsets_)
                                           THEN r.first + 4 + Rel(r, func_offsets_) ELSE -1]]
=============================================================================
