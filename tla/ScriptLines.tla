---------------------------- MODULE ScriptLines ----------------------------
(***************************************************************************)
(* What compiled code should do: run the script line by line as the handlers *)
(* of Functions.h do, with ret resuming at the line after the call.  One step *)
(* per line that has code; blank lines, labels and what the parser has used    *)
(* up are passed over.  Of a command that works on the stacks or the           *)
(* registers only its name and line are seen.                                  *)
(*                                                                         *)
(* Some lines are not translated to what their handlers do (Differs); such a   *)
(* line may do anything, and the script goes on from there.                    *)
(***************************************************************************)
EXTENDS Integers, Sequences, SequencesExt, Words

CONSTANTS
  Programs,  \* name -> [lines : of [flag, cmd, dst, src, to], sizes : of variables]
  Opaque,    \* commands run by their own handler
  Garbage    \* what uninitialised memory may hold

VARIABLES
  script,    \* the program's name
  line,      \* counted from 0; -1 when no script runs
  frames,    \* the lines of the calls not returned from
  flag,      \* 2 not set, 0 equal, 1 high, -1 low
  values,    \* variable -> value
  ran        \* the last opaque command and its line

vars == <<script, line, frames, flag, values, ran>>

Lines == Programs[script].lines
Sizes == Programs[script].sizes

IsVar(a) == a.kind = "var"
Value(a) == IF IsVar(a) THEN values[a.var] ELSE a.num
Size(a)  == IF IsVar(a) THEN Sizes[a.var] ELSE 8

\* The line at which the script goes on after what stands at l.
Settle(l) ==
  LET coded == {m \in l .. Len(Lines) - 1 : Lines[m + 1].flag \in {"Func", "UFunc", "CFunc"}}
  IN  IF coded = {} THEN Len(Lines) ELSE CHOOSE m \in coded : \A n \in coded : m <= n

This == Lines[line + 1]
Is(f, cmds) == line \in 0 .. Len(Lines) - 1 /\ This.flag = f /\ This.cmd \in cmds

\* The declaration of a function is passed over to after the first ret.
AfterRet(l) ==
  LET rets == {m \in l .. Len(Lines) - 1 : Lines[m + 1].cmd = "Ret"}
  IN  1 + IF rets = {} THEN Len(Lines) ELSE CHOOSE m \in rets : \A n \in rets : m <= n

Jumps == {"Jmp", "Je", "Jne", "Ja", "Jae", "Jb", "Jbe"}
Taken(cmd, f) ==
  CASE cmd = "Jmp" -> TRUE
    [] cmd = "Je"  -> f = 0
    [] cmd = "Jne" -> f # 0
    [] cmd = "Ja"  -> f = 1
    [] cmd = "Jb"  -> f = -1
    [] cmd = "Jae" -> f \in {0, 1}
    [] cmd = "Jbe" -> f \in {0, -1}

\* Lines whose code does something else than the handler:
\*   a function of the embedder gets its arguments where it does not look;
\*   cmpr is right for a variable against a number, unless the variable is
\*   negative and narrower than 8 bytes;
\*   mov of a variable extends with zeros, and clears a variable moved to itself;
\*   add and sub stop the carry at the narrower variable's size;
\*   a jump that a set flag would not allow is taken while the flag is not set;
\*   divs runs muls; a declaration whose ret is the last line, or missing, jumps
\*   to an offset that was never stored.
Negative(a) == Value(a) < 0
Wider == IsVar(This.src) /\ Size(This.dst) > Size(This.src)

Differs ==
  \/ Is("UFunc", {"UFunc"})
  \/ Is("Func", {"Cmpr"}) /\ ~(/\ IsVar(This.dst) /\ ~IsVar(This.src)
                               /\ Negative(This.dst) => Size(This.dst) = 8)
  \/ Is("Func", {"Mov"}) /\ ((Wider /\ Negative(This.src)) \/ This.dst = This.src)
  \/ Is("Func", {"Add", "Sub"}) /\ Wider
  \/ Is("Func", {"Ja", "Jae"}) /\ flag = 2
  \/ Is("Func", {"Divs"})
  \/ Is("CFunc", {"CFunc"}) /\ AfterRet(line) >= Len(Lines)

-----------------------------------------------------------------------------
Start ==
  /\ line = -1
  /\ script' \in DOMAIN Programs
  /\ \E g \in Garbage : values' = [v \in DOMAIN Sizes' |-> g]
  /\ line' = Settle(0)'
  /\ frames' = <<>> /\ flag' = 2 /\ ran' = <<>>

End ==
  /\ line >= Len(Lines)
  /\ line' = -1
  /\ UNCHANGED <<script, frames, flag, values, ran>>

Run ==
  /\ Is("Func", Opaque)
  /\ ran' = <<This.cmd, line>>
  /\ line' = Settle(line + 1)
  /\ UNCHANGED <<script, frames, flag, values>>

\* A command the processor has no case for.
Skip ==
  /\ Is("Func", {"other"})
  /\ line' = Settle(line + 1)
  /\ UNCHANGED <<script, frames, flag, values, ran>>

Assign ==
  /\ Is("Func", {"Mov", "Add", "Sub"})
  /\ values' = [values EXCEPT ![This.dst.var] =
       SignExtend(CASE This.cmd = "Mov" -> Value(This.src)
                    [] This.cmd = "Add" -> @ + Value(This.src)
                    [] This.cmd = "Sub" -> @ - Value(This.src), Size(This.dst))]
  /\ line' = Settle(line + 1)
  /\ UNCHANGED <<script, frames, flag, ran>>

Compare ==
  /\ Is("Func", {"Cmpr"})
  /\ flag' = LET a == Value(This.dst)
                 b == Value(This.src)
             IN  IF a > b THEN 1 ELSE IF a < b THEN -1 ELSE 0
  /\ line' = Settle(line + 1)
  /\ UNCHANGED <<script, frames, values, ran>>

Jump ==
  /\ Is("Func", Jumps)
  /\ line' = Settle(IF Taken(This.cmd, flag) THEN This.to ELSE line + 1)
  /\ UNCHANGED <<script, frames, flag, values, ran>>

Call ==
  /\ Is("Func", {"Call"})
  /\ frames' = Append(frames, line)
  /\ line' = Settle(This.to + 1)
  /\ UNCHANGED <<script, flag, values, ran>>

Return ==
  /\ Is("Func", {"Ret"})
  /\ frames # <<>>
  /\ line' = Settle(Last(frames) + 1)
  /\ frames' = Front(frames)
  /\ UNCHANGED <<script, flag, values, ran>>

Declaration ==
  /\ Is("CFunc", {"CFunc"})
  /\ line' = Settle(AfterRet(line))
  /\ UNCHANGED <<script, frames, flag, values, ran>>

Init == line = -1

Next == Start \/ End \/ Run \/ Skip \/ Assign \/ Compare \/ Jump \/ Call \/ Return
        \/ Declaration \/ Differs
=============================================================================
