--------------------------- MODULE BuilderProofs ---------------------------
(***************************************************************************)
(* One pass over a script, whatever its lines, their number and their names.  *)
(***************************************************************************)
EXTENDS Builder, SequenceFacts, FiniteSetTheorems

-----------------------------------------------------------------------------
\* The lines read and what was stored for them.
IsStored(s) == s \in [cmd : {s.cmd}, arg : {s.arg}, arg2 : {s.arg2}]

ReadOK ==
  /\ IsSeq(file) /\ IsSeq(args_)
  /\ \A i \in 1 .. n_line : IsStored(args_[i])
  /\ status \in {"parsing", "built", "thrown", "crashed"}
  /\ n_line <= Len(file)
  /\ status = "parsing" => Len(file) = n_line

LEMMA Counted ==
  ASSUME ReadOK
  PROVE  n_line \in Nat /\ Len(file) \in Nat /\ DOMAIN args_ = 1 .. n_line
  BY DEF ReadOK, n_line, IsSeq

LEMMA Stored ==
  ASSUME ReadOK, status = "parsing", NEW line, NEW cmd, NEW arg, NEW arg2, PushData(line, cmd, arg, arg2)
  PROVE  /\ ReadOK' /\ status' = "parsing"
         /\ n_line' = n_line + 1 /\ Len(file') = Len(file) + 1
         /\ \A i \in 1 .. n_line : args_'[i] = args_[i]
         /\ args_'[n_line + 1].cmd = cmd /\ args_'[n_line + 1].arg = arg
         /\ args_'[n_line + 1].arg2 = arg2
         /\ \A i \in 1 .. Len(file) : file'[i] = file[i]
         /\ file'[Len(file) + 1] = line
  <1> DEFINE new == [cmd |-> cmd, arg |-> arg, arg2 |-> arg2]
  <1>1. /\ file' = Append(file, line) /\ args_' = Append(args_, new)
        /\ status' = "parsing"
    BY DEF PushData
  <1>2. /\ IsSeq(args_') /\ n_line' = n_line + 1 /\ n_line \in Nat
        /\ \A i \in 1 .. n_line : args_'[i] = args_[i]
        /\ args_'[n_line + 1] = new
    BY <1>1, AppendIsSeq DEF ReadOK, n_line
  <1>3. /\ IsSeq(file') /\ Len(file') = Len(file) + 1 /\ Len(file) \in Nat
        /\ \A i \in 1 .. Len(file) : file'[i] = file[i]
        /\ file'[Len(file) + 1] = line
    BY <1>1, AppendIsSeq DEF ReadOK
  <1>4. \A i \in 1 .. n_line + 1 : IsStored(args_'[i])
    <2>1. IsStored(new)
      BY DEF IsStored
    <2> HIDE DEF new
    <2> QED
      BY <1>2, <2>1 DEF ReadOK
  <1>5. /\ args_'[n_line + 1].cmd = cmd /\ args_'[n_line + 1].arg = arg
        /\ args_'[n_line + 1].arg2 = arg2
    BY <1>2
  <1>6. Len(file) = n_line
    BY DEF ReadOK
  <1>7. ReadOK'
    <2>1. n_line' = n_line + 1 /\ Len(file') = n_line' /\ n_line' \in Nat
      BY <1>2, <1>3, <1>6
    <2>2. \A i \in 1 .. n_line' : IsStored(args_'[i])
      BY <1>4, <2>1
    <2>3. n_line' <= Len(file')
      BY <2>1
    <2> QED
      BY <1>1, <1>2, <1>3, <2>1, <2>2, <2>3 DEF ReadOK
  <1> QED
    BY <1>1, <1>2, <1>3, <1>5, <1>7

LEMMA Ended ==
  ASSUME ReadOK, status = "parsing", NEW line, NEW how \in {"thrown", "crashed"}, Ends(line, how)
  PROVE  /\ ReadOK' /\ status' = how
         /\ n_line' = n_line /\ n_line < Len(file')
         /\ UNCHANGED <<args_, names, vars_, scopes, types>>
  <1>1. IsSeq(file') /\ Len(file') = Len(file) + 1 /\ Len(file) \in Nat
    BY AppendIsSeq DEF ReadOK, Ends
  <1>2. n_line' = n_line /\ n_line = Len(file) /\ args_' = args_ /\ status' = how
    BY DEF Ends, ReadOK, n_line
  <1>3. \A i \in 1 .. n_line' : IsStored(args_'[i])
    BY <1>2 DEF ReadOK
  <1>4. IsSeq(args_') /\ n_line' <= Len(file')
    BY <1>1, <1>2 DEF ReadOK
  <1>5. ReadOK'
    BY <1>1, <1>2, <1>3, <1>4 DEF ReadOK
  <1> QED
    BY <1>1, <1>2, <1>5 DEF Ends

Patched(garbage) ==
  [i \in DOMAIN args_ |-> [args_[i] EXCEPT
                             !.arg = Resolved(@, Misnamed(@), garbage),
                             !.arg2 = Resolved(@, Misnamed2(i), garbage)]]

LEMMA AtEnd ==
  ASSUME ReadOK, status = "parsing", ReachEnd
  PROVE  /\ ReadOK' /\ n_line' = n_line
         /\ UNCHANGED <<file, names, vars_, scopes, types>>
         /\ \A i \in 1 .. n_line :
              /\ args_'[i].cmd = args_[i].cmd
              /\ args_'[i].arg.kind = "var" => args_'[i].arg = args_[i].arg
              /\ args_'[i].arg2.kind = "var" => args_'[i].arg2 = args_[i].arg2
         /\ status' \in {"built", "thrown", "crashed"}
         /\ status' = "built" => AllDefined
  <1>0. /\ UNCHANGED <<file, names, vars_, scopes, types>>
        /\ status' \in {"built", "thrown", "crashed"}
        /\ status' = "built" => AllDefined
    BY DEF ReachEnd
  <1>1. CASE UNCHANGED args_
    BY <1>0, <1>1 DEF ReadOK, n_line, IsSeq
  <1>2. CASE \E garbage \in GarbageLines : args_' = Patched(garbage)
    <2>1. PICK garbage \in GarbageLines : args_' = Patched(garbage)
      BY <1>2
    <2>2. n_line \in Nat /\ DOMAIN args_ = 1 .. n_line
      BY Counted
    <2>3. ASSUME NEW i \in 1 .. n_line
          PROVE  /\ args_'[i].cmd = args_[i].cmd
                 /\ \E misnamed : args_'[i].arg = Resolved(args_[i].arg, misnamed, garbage)
                 /\ \E misnamed : args_'[i].arg2 = Resolved(args_[i].arg2, misnamed, garbage)
                 /\ IsStored(args_'[i])
      <3>1. IsStored(args_[i])
        BY DEF ReadOK
      <3>2. args_'[i] = [args_[i] EXCEPT
                           !.arg = Resolved(@, Misnamed(@), garbage),
                           !.arg2 = Resolved(@, Misnamed2(i), garbage)]
        BY <2>1, <2>2 DEF Patched
      <3> DEFINE arg == Resolved(args_[i].arg, Misnamed(args_[i].arg), garbage)
                 arg2 == Resolved(args_[i].arg2, Misnamed2(i), garbage)
      <3>3. args_'[i] = [cmd |-> args_[i].cmd, arg |-> arg, arg2 |-> arg2]
        <4> HIDE DEF arg, arg2
        <4>1. args_'[i] = [args_[i] EXCEPT !.arg = arg, !.arg2 = arg2]
          BY <3>2 DEF arg, arg2
        <4> QED
          BY <3>1, <4>1 DEF IsStored
      <3>4. /\ args_'[i].cmd = args_[i].cmd /\ args_'[i].arg = arg /\ args_'[i].arg2 = arg2
            /\ IsStored(args_'[i])
        <4> HIDE DEF arg, arg2
        <4> QED
          BY <3>3 DEF IsStored
      <3> QED
        BY <3>4
    <2>4. \A arg, misnamed : Resolved(arg, misnamed, garbage).kind = "var"
                            => Resolved(arg, misnamed, garbage) = arg
      BY DEF Resolved
    <2>5. IsSeq(args_') /\ n_line' = n_line
      <3> DEFINE patched(i) == [args_[i] EXCEPT
                                  !.arg = Resolved(@, Misnamed(@), garbage),
                                  !.arg2 = Resolved(@, Misnamed2(i), garbage)]
      <3>0. args_' = [i \in 1 .. n_line |-> patched(i)]
        BY <2>1, <2>2 DEF Patched
      <3> HIDE DEF patched
      <3>1. args_' \in Seq({args_'[i] : i \in 1 .. n_line}) /\ DOMAIN args_' = 1 .. n_line
        BY <2>2, <3>0
      <3> QED
        BY <2>2, <3>1 DEF IsSeq, n_line
    <2> QED
      BY <1>0, <2>3, <2>4, <2>5 DEF ReadOK
  <1> QED
    BY <1>1, <1>2 DEF ReachEnd, Patched

-----------------------------------------------------------------------------
\* The variables and their levels.
VarsOK ==
  /\ func_level_ \in Int /\ func_level_ <= 1
  /\ IsFiniteSet(DOMAIN vars_)
  /\ \A k \in DOMAIN vars_ :
       /\ vars_[k] \in [num : {vars_[k].num}, die : Int, typeCode : {vars_[k].typeCode}]
       /\ k = <<k[1], k[2]>> /\ k[2] \in Int
       /\ vars_[k].die < n_line
  /\ die_requests_ \subseteq DOMAIN vars_
  /\ \A k \in die_requests_ : k[2] > 0 /\ k[2] = func_level_ /\ vars_[k].die = -1

\* A local that lives is to die, as long as the lines fit an int16_t.
AllRequested ==
  n_line <= 65535 =>
    \A k \in DOMAIN vars_ : k[2] > 0 /\ vars_[k].die = -1 => k \in die_requests_

\* Where a local that is to die was declared.
DeclaredHere ==
  status = "parsing" =>
    \A k \in die_requests_ :
      \E j \in 1 .. Len(file) : /\ file[j].cmd = "var" /\ file[j].name = k[1]
                                /\ \A r \in j .. Len(file) : file[r].cmd # "ret"

ScopesInv == ReadOK /\ VarsOK /\ AllRequested /\ DeclaredHere

LEMMA DieLine ==
  ASSUME NEW n \in Nat
  PROVE  /\ SignExtend(n, 2) \in Int /\ SignExtend(n, 2) <= n
         /\ n < 65535 => SignExtend(n, 2) # -1
  BY DEF SignExtend

-----------------------------------------------------------------------------
\* The steps, by what they do to the variables.
Key(line) == <<line.name, func_level_>>

\* The argument of a command, in a method or not, and the type of a variable.
Commands == {"Func", "UFunc"}
Used(arg, struct_) == Classify(arg, TRUE, TRUE, struct_)
Typed(arg) == Classify(arg, FALSE, FALSE, FALSE)

Failing(line) == \E how \in {"thrown", "crashed"} : Ends(line, how)

\* A line that declares no variable and no function.
Plainly(line) ==
  /\ UNCHANGED <<vars_, die_requests_, func_level_>>
  /\ line.cmd # "ret"
  /\ \E cmd, arg, arg2 :
       /\ PushData(line, cmd, arg, arg2)
       /\ cmd \in Commands => /\ line.cmd \in {"use", "name"}
                             /\ \E s : arg = Used(line.arg, s) /\ arg2 = Used(line.arg2, s)

Opened(line) ==
  /\ UNCHANGED <<vars_, die_requests_>>
  /\ func_level_ <= 0 /\ func_level_' = func_level_ + 1
  /\ line.cmd = "func"
  /\ \E cmd, arg, arg2 : PushData(line, cmd, arg, arg2) /\ cmd \notin Commands

Rebuilt(line) ==
  /\ Key(line) \in DOMAIN vars_
  /\ vars_' = [vars_ EXCEPT ![Key(line)].die = -1]
  /\ CreateVarDieRequest(Key(line))
  /\ UNCHANGED func_level_
  /\ line.cmd = "var"
  /\ \E cmd, arg, arg2 : PushData(line, cmd, arg, arg2) /\ cmd \notin Commands

Added(line) ==
  /\ currStruct_ = 0
  /\ Key(line) \in DOMAIN vars_ =>
       \/ vars_[Key(line)].die = -1 /\ func_level_ = 0
       \/ vars_[Key(line)].die >= n_line
  /\ vars_' = Put(vars_, Key(line), [num |-> NewNumber(Key(line)), die |-> -1,
                                     typeCode |-> TypeCode(line)])
  /\ CreateVarDieRequest(Key(line))
  /\ UNCHANGED func_level_
  /\ line.cmd = "var"
  /\ \E cmd, arg, arg2 : PushData(line, cmd, arg, arg2) /\ cmd \notin Commands

LEMMA VarSteps ==
  ASSUME NEW line, Var(line), VarsOK, n_line \in Nat
  PROVE  Failing(line) \/ Rebuilt(line) \/ Added(line)
  <1> DEFINE key == Key(line)
             known == key \in DOMAIN vars_
             die == vars_[key].die
  <1>1. CASE known /\ ((func_level_ # 0 /\ die = -1) \/ die > n_line)
    BY <1>1 DEF Var, Failing, Throw, Key
  <1>2. CASE ~CheckVarArgs(line)
    BY <1>2 DEF Var, Failing, Throw, Key
  <1>3. CASE /\ CheckVarArgs(line)
             /\ ~(known /\ ((func_level_ # 0 /\ die = -1) \/ die > n_line))
             /\ known /\ die < n_line /\ die # -1
    <2>1. /\ vars_' = [vars_ EXCEPT ![key].die = -1] /\ CreateVarDieRequest(key)
          /\ PushData(line, "RebuildVar", [kind |-> "var", var |-> vars_[key].num],
                      Typed(line.type))
          /\ UNCHANGED func_level_ /\ line.cmd = "var"
      BY <1>3 DEF Var, Key, Typed
    <2> QED
      BY <1>3, <2>1 DEF Rebuilt, Commands
  <1>4. CASE /\ CheckVarArgs(line)
             /\ ~(known /\ ((func_level_ # 0 /\ die = -1) \/ die > n_line))
             /\ ~(known /\ die < n_line /\ die # -1)
    <2>1. known => (die = -1 /\ func_level_ = 0) \/ die >= n_line
      <3>1. known => die \in Int
        BY DEF VarsOK
      <3> QED
        BY <1>4, <3>1
    <2>2. CASE ~CheckName(line.name, func_level_)
      BY <1>4, <2>2 DEF Var, Failing, Throw, Key
    <2>3. CASE CheckName(line.name, func_level_)
      <3>1. /\ vars_' = Put(vars_, key, [num |-> NewNumber(key), die |-> -1,
                                         typeCode |-> TypeCode(line)])
            /\ CreateVarDieRequest(key) /\ PushData(line, "Null", None, None)
            /\ UNCHANGED func_level_ /\ line.cmd = "var" /\ currStruct_ = 0
        BY <1>4, <2>3 DEF Var, Key
      <3> QED
        BY <2>1, <3>1 DEF Added, Commands
    <2> QED
      BY <2>2, <2>3
  <1> QED
    BY <1>1, <1>2, <1>3, <1>4

\* A line that is refused, or stored and nothing else done to the scopes.
LEMMA PlainSteps ==
  ASSUME NEW line, n_line \in Nat,
         \/ Null(line) \/ UserCommand(line) \/ PFunc(line) \/ Label(line) \/ Const(line)
         \/ Extern(line) \/ Import(line) \/ Struct(line) \/ StructVar(line)
         \/ StructCFunc(line) \/ StructPFunc(line) \/ EndStruct(line)
  PROVE  Failing(line) \/ Plainly(line)
  <1> DEFINE Stays == /\ UNCHANGED <<vars_, die_requests_, func_level_>>
                      /\ line.cmd # "ret"
  <1>0. ASSUME Stays, NEW cmd, NEW arg, NEW arg2, cmd \notin Commands, PushData(line, cmd, arg, arg2)
        PROVE  Plainly(line)
    BY <1>0 DEF Plainly
  <1>a. ASSUME Throw(line) PROVE Failing(line)
    BY <1>a DEF Failing, Throw
  <1>1. CASE Null(line)
    <2>1. Stays /\ PushData(line, "Null", None, None)
      BY <1>1 DEF Null, scopes
    <2> QED
      BY <1>0, <2>1 DEF Commands
  <1>2. CASE UserCommand(line)
    <2>1. \/ Throw(line)
          \/ Stays /\ line.cmd = "name"
             /\ PushData(line, "UFunc", Used(line.arg, FALSE), Used(line.arg2, FALSE))
      BY <1>2 DEF UserCommand, Used, scopes
    <2> QED
      BY <1>a, <2>1 DEF Plainly
  <1>3. CASE PFunc(line)
    <2>1. Throw(line) \/ (Stays /\ PushData(line, "PFunc", None, None))
      BY <1>3 DEF PFunc, scopes
    <2> QED
      BY <1>0, <1>a, <2>1 DEF Commands
  <1>4. CASE Label(line)
    <2>1. Throw(line) \/ (Stays /\ PushData(line, "Null", None, None))
      BY <1>4 DEF Label, scopes
    <2> QED
      BY <1>0, <1>a, <2>1 DEF Commands
  <1>5. CASE Const(line)
    <2>1. Throw(line) \/ (Stays /\ PushData(line, "Const", None, None))
      BY <1>5 DEF Const, scopes
    <2> QED
      BY <1>0, <1>a, <2>1 DEF Commands
  <1>6. CASE Extern(line)
    <2>1. Throw(line) \/ (Stays /\ PushData(line, "Extern", None, None))
      BY <1>6 DEF Extern, scopes
    <2> QED
      BY <1>0, <1>a, <2>1 DEF Commands
  <1>7. CASE Import(line)
    <2>1. Throw(line) \/ (Stays /\ PushData(line, "Import", None, None))
      BY <1>7 DEF Import, scopes
    <2> QED
      BY <1>0, <1>a, <2>1 DEF Commands
  <1>8. CASE Struct(line)
    <2>1. Throw(line) \/ (Stays /\ PushData(line, "Null", None, None))
      BY <1>8 DEF Struct, scopes
    <2> QED
      BY <1>0, <1>a, <2>1 DEF Commands
  <1>9. CASE StructVar(line)
    <2>1. Throw(line) \/ (Stays /\ PushData(line, "Null", None, None))
      BY <1>9 DEF StructVar, scopes
    <2> QED
      BY <1>0, <1>a, <2>1 DEF Commands
  <1>10. CASE StructCFunc(line)
    <2>1. Throw(line) \/ (Stays /\ PushData(line, "CFunc", None, None))
      BY <1>10 DEF StructCFunc
    <2> QED
      BY <1>0, <1>a, <2>1 DEF Commands
  <1>11. CASE StructPFunc(line)
    <2>1. \/ Throw(line) \/ Ends(line, "crashed")
          \/ Stays /\ PushData(line, "PFunc", None, None)
      BY <1>11 DEF StructPFunc, scopes
    <2> QED
      BY <1>0, <1>a, <2>1 DEF Failing, Commands
  <1>12. CASE EndStruct(line)
    BY <1>12 DEF EndStruct, Plainly, Commands
  <1> QED
    BY <1>1, <1>2, <1>3, <1>4, <1>5, <1>6, <1>7, <1>8, <1>9, <1>10, <1>11, <1>12

LEMMA ReadSteps ==
  ASSUME NEW line, Read(line), VarsOK, n_line \in Nat
  PROVE  \/ Failing(line) \/ Plainly(line) \/ Ret(line)
         \/ Opened(line) \/ Rebuilt(line) \/ Added(line)
  <1>1. CASE Func(line)
    BY <1>1 DEF Func, Failing, Throw, Plainly, Used, scopes
  <1>2. CASE CFunc(line)
    <2>1. CASE func_level_ > 0 \/ ~CheckName(line.name, func_level_ + 1)
      BY <1>2, <2>1 DEF CFunc, Failing, Throw
    <2>2. CASE ~(func_level_ > 0 \/ ~CheckName(line.name, func_level_ + 1))
      <3>1. func_level_ \in Int
        BY DEF VarsOK
      <3> QED
        BY <1>2, <2>2, <3>1 DEF CFunc, Opened, Commands
    <2> QED
      BY <2>1, <2>2
  <1>3. CASE Var(line)
    BY <1>3, VarSteps
  <1>4. CASE Ret(line)
    BY <1>4
  <1>5. CASE \/ Null(line) \/ UserCommand(line) \/ PFunc(line) \/ Label(line) \/ Const(line)
             \/ Extern(line) \/ Import(line) \/ Struct(line) \/ StructVar(line)
             \/ StructCFunc(line) \/ StructPFunc(line) \/ EndStruct(line)
    BY <1>5, PlainSteps
  <1> QED
    BY <1>1, <1>2, <1>3, <1>4, <1>5 DEF Read

-----------------------------------------------------------------------------
\* What a step does to the scopes.
LEMMA Redeclared ==
  ASSUME NEW line, VarsOK, Rebuilt(line) \/ Added(line)
  PROVE  /\ DOMAIN vars_' = DOMAIN vars_ \cup {Key(line)}
         /\ \A k \in DOMAIN vars_ : k # Key(line) => vars_'[k] = vars_[k]
         /\ vars_'[Key(line)] \in [num : {vars_'[Key(line)].num}, die : {-1},
                                   typeCode : {vars_'[Key(line)].typeCode}]
         /\ die_requests_' = IF func_level_ > 0 THEN die_requests_ \cup {Key(line)}
                             ELSE die_requests_
         /\ func_level_' = func_level_
  <1> DEFINE key == Key(line)
  <1>1. CASE Rebuilt(line)
    <2>1. key \in DOMAIN vars_ /\ vars_' = [vars_ EXCEPT ![key].die = -1]
      BY <1>1 DEF Rebuilt
    <2>2. vars_[key] \in [num : {vars_[key].num}, die : Int, typeCode : {vars_[key].typeCode}]
      BY <2>1 DEF VarsOK
    <2> HIDE DEF key
    <2>3. vars_'[key] = [vars_[key] EXCEPT !.die = -1]
      BY <2>1
    <2>4. vars_'[key] \in [num : {vars_'[key].num}, die : {-1}, typeCode : {vars_'[key].typeCode}]
      BY <2>2, <2>3
    <2>5. DOMAIN vars_' = DOMAIN vars_ /\ \A k \in DOMAIN vars_ : k # key => vars_'[k] = vars_[k]
      BY <2>1
    <2> QED
      BY <1>1, <2>1, <2>4, <2>5 DEF Rebuilt, CreateVarDieRequest, key
  <1>2. CASE Added(line)
    <2> DEFINE new == [num |-> NewNumber(key), die |-> -1, typeCode |-> TypeCode(line)]
    <2>1. vars_' = Put(vars_, key, new)
      BY <1>2 DEF Added
    <2>2. new \in [num : {new.num}, die : {-1}, typeCode : {new.typeCode}]
      OBVIOUS
    <2> HIDE DEF key, new
    <2>3. vars_'[key] = new
      BY <2>1 DEF Put
    <2>4. vars_'[key] \in [num : {vars_'[key].num}, die : {-1}, typeCode : {vars_'[key].typeCode}]
      BY <2>2, <2>3
    <2>5. /\ DOMAIN vars_' = DOMAIN vars_ \cup {key}
          /\ \A k \in DOMAIN vars_ : k # key => vars_'[k] = vars_[k]
      BY <2>1 DEF Put
    <2> QED
      BY <1>2, <2>4, <2>5 DEF Added, CreateVarDieRequest, key
  <1> QED
    BY <1>1, <1>2

\* The part of the scopes that a line stored leaves alone.
LEMMA DeclaredStill ==
  ASSUME ReadOK, DeclaredHere, status = "parsing", NEW line, NEW cmd, NEW arg,
         NEW arg2, PushData(line, cmd, arg, arg2), line.cmd # "ret",
         NEW k \in die_requests_
  PROVE  \E j \in 1 .. Len(file') : /\ file'[j].cmd = "var" /\ file'[j].name = k[1]
                                    /\ \A r \in j .. Len(file') : file'[r].cmd # "ret"
  <1>1. /\ Len(file) \in Nat /\ Len(file') = Len(file) + 1
        /\ \A i \in 1 .. Len(file) : file'[i] = file[i]
        /\ file'[Len(file) + 1] = line
    BY Stored, Counted
  <1>2. PICK j \in 1 .. Len(file) : /\ file[j].cmd = "var" /\ file[j].name = k[1]
                                    /\ \A r \in j .. Len(file) : file[r].cmd # "ret"
    BY DEF DeclaredHere
  <1>3. j \in 1 .. Len(file') /\ file'[j] = file[j]
    BY <1>1, <1>2
  <1>4. ASSUME NEW r \in j .. Len(file')
        PROVE  file'[r].cmd # "ret"
    <2>1. r \in j .. Len(file) \/ r = Len(file) + 1
      BY <1>1, <1>2
    <2> QED
      BY <1>1, <1>2, <2>1
  <1> QED
    BY <1>2, <1>3, <1>4

LEMMA ScopesStart ==
  Init => ScopesInv
  <1> SUFFICES ASSUME Init PROVE ScopesInv
    OBVIOUS
  <1>1. file = <<>> /\ args_ = <<>> /\ vars_ = <<>> /\ die_requests_ = {} /\ func_level_ = 0
        /\ status = "parsing"
    BY DEF Init
  <1>2. n_line = 0 /\ IsSeq(file) /\ IsSeq(args_) /\ Len(file) = 0
    BY <1>1 DEF n_line, IsSeq
  <1>3. DOMAIN vars_ = {} /\ IsFiniteSet(DOMAIN vars_)
    <2>1. DOMAIN vars_ = {}
      BY <1>1
    <2> QED
      BY <2>1, FS_EmptySet
  <1> QED
    BY <1>1, <1>2, <1>3 DEF ScopesInv, ReadOK, VarsOK, AllRequested, DeclaredHere

LEMMA ScopesFailing ==
  ASSUME ScopesInv, status = "parsing", NEW line, Failing(line)
  PROVE  ScopesInv'
  <1>1. ReadOK' /\ status' # "parsing" /\ n_line' = n_line
        /\ UNCHANGED <<vars_, die_requests_, func_level_>>
    BY Ended DEF Failing, ScopesInv, scopes
  <1>2. VarsOK' /\ AllRequested'
    BY <1>1 DEF ScopesInv, VarsOK, AllRequested
  <1> QED
    BY <1>1, <1>2 DEF ScopesInv, DeclaredHere

LEMMA ScopesEnd ==
  ASSUME ScopesInv, status = "parsing", ReachEnd
  PROVE  ScopesInv'
  <1>1. ReadOK' /\ status' # "parsing" /\ n_line' = n_line
        /\ UNCHANGED <<vars_, die_requests_, func_level_>>
    BY AtEnd DEF ScopesInv, scopes
  <1>2. VarsOK' /\ AllRequested'
    BY <1>1 DEF ScopesInv, VarsOK, AllRequested
  <1> QED
    BY <1>1, <1>2 DEF ScopesInv, DeclaredHere

LEMMA ScopesPlain ==
  ASSUME ScopesInv, status = "parsing", NEW line, Plainly(line) \/ Opened(line)
  PROVE  ScopesInv'
  <1>1. PICK cmd, arg, arg2 : PushData(line, cmd, arg, arg2)
    BY DEF Plainly, Opened
  <1>2. ReadOK' /\ n_line' = n_line + 1 /\ n_line \in Nat
    BY <1>1, Stored, Counted DEF ScopesInv
  <1>3. UNCHANGED <<vars_, die_requests_>> /\ line.cmd # "ret"
    BY DEF Plainly, Opened
  <1>4. VarsOK'
    <2>1. \A k \in DOMAIN vars_' : vars_'[k].die < n_line'
      <3>1. \A k \in DOMAIN vars_ : vars_[k].die \in Int /\ vars_[k].die < n_line
        BY DEF ScopesInv, VarsOK
      <3> QED
        BY <1>2, <1>3, <3>1
    <2>2. /\ func_level_' \in Int /\ func_level_' <= 1
          /\ \A k \in die_requests_' : k[2] = func_level_'
      <3>1. CASE Plainly(line)
        BY <1>3, <3>1 DEF ScopesInv, VarsOK, Plainly
      <3>2. CASE Opened(line)
        <4>1. func_level_ \in Int /\ func_level_ <= 0 /\ func_level_' = func_level_ + 1
          BY <3>2 DEF ScopesInv, VarsOK, Opened
        <4>2. \A k \in die_requests_ : k \in DOMAIN vars_ /\ k[2] \in Int /\ k[2] > 0
                                       /\ k[2] = func_level_
          BY DEF ScopesInv, VarsOK
        <4>3. die_requests_ = {}
          BY <4>1, <4>2
        <4> QED
          BY <1>3, <4>1, <4>3
      <3> QED
        BY <3>1, <3>2
    <2> QED
      BY <1>3, <2>1, <2>2 DEF ScopesInv, VarsOK
  <1>5. AllRequested'
    <2>1. n_line' <= 65535 => n_line <= 65535
      BY <1>2
    <2> QED
      BY <1>3, <2>1 DEF ScopesInv, AllRequested
  <1>6. DeclaredHere'
    BY <1>1, <1>3, DeclaredStill DEF ScopesInv, DeclaredHere
  <1> QED
    BY <1>2, <1>4, <1>5, <1>6 DEF ScopesInv

LEMMA ScopesRet ==
  ASSUME ScopesInv, status = "parsing", NEW line, Ret(line)
  PROVE  ScopesInv'
  <1>1. ReadOK' /\ n_line' = n_line + 1 /\ n_line \in Nat
    BY Stored, Counted DEF ScopesInv, Ret
  <1> DEFINE now == SignExtend(n_line, 2)
  <1>2. now \in Int /\ now <= n_line /\ (n_line < 65535 => now # -1)
    BY <1>1, DieLine
  <1>3. /\ vars_' = [k \in DOMAIN vars_ |-> IF k \in die_requests_
                                            THEN [vars_[k] EXCEPT !.die = now]
                                            ELSE vars_[k]]
        /\ die_requests_' = {} /\ func_level_' = func_level_ - 1
    BY DEF Ret, ActivateDieRequests
  <1> HIDE DEF now
  <1>4. DOMAIN vars_' = DOMAIN vars_
    BY <1>3
  <1>5. ASSUME NEW k \in DOMAIN vars_
        PROVE  /\ vars_'[k] \in [num : {vars_'[k].num}, die : Int, typeCode : {vars_'[k].typeCode}]
               /\ vars_'[k].die = IF k \in die_requests_ THEN now ELSE vars_[k].die
               /\ vars_'[k].die < n_line'
    <2>1. /\ vars_[k] \in [num : {vars_[k].num}, die : Int, typeCode : {vars_[k].typeCode}]
          /\ vars_[k].die < n_line
      BY DEF ScopesInv, VarsOK
    <2>2. CASE k \in die_requests_
      <3>1. vars_'[k] = [vars_[k] EXCEPT !.die = now]
        BY <1>3, <2>2
      <3>2. vars_'[k].die = now
        BY <2>1, <3>1
      <3>3. now < n_line'
        BY <1>1, <1>2
      <3>4. vars_'[k] \in [num : {vars_'[k].num}, die : Int, typeCode : {vars_'[k].typeCode}]
        BY <1>2, <2>1, <3>1
      <3> QED
        BY <2>2, <3>2, <3>3, <3>4
    <2>3. CASE k \notin die_requests_
      <3>1. vars_'[k] = vars_[k]
        BY <1>3, <2>3
      <3>2. vars_[k].die \in Int
        BY <2>1
      <3> QED
        BY <1>1, <2>1, <2>3, <3>1, <3>2
    <2> QED
      BY <2>2, <2>3
  <1>6. VarsOK'
    <2>1. func_level_' \in Int /\ func_level_' <= 1
      BY <1>3 DEF ScopesInv, VarsOK
    <2>2. IsFiniteSet(DOMAIN vars_') /\ \A k \in DOMAIN vars_' : k = <<k[1], k[2]>> /\ k[2] \in Int
      BY <1>4 DEF ScopesInv, VarsOK
    <2>3. die_requests_' = {}
      BY <1>3
    <2> QED
      BY <1>4, <1>5, <2>1, <2>2, <2>3 DEF VarsOK
  <1>7. AllRequested'
    <2> SUFFICES ASSUME n_line' <= 65535, NEW k \in DOMAIN vars_', k[2] > 0, vars_'[k].die = -1
                 PROVE  FALSE
      BY DEF AllRequested
    <2>1. now # -1 /\ n_line <= 65535
      BY <1>1, <1>2
    <2>2. k \notin die_requests_ /\ vars_[k].die = -1
      BY <1>4, <1>5, <2>1
    <2> QED
      BY <1>4, <2>1, <2>2 DEF ScopesInv, AllRequested
  <1>8. DeclaredHere'
    BY <1>3 DEF DeclaredHere
  <1> QED
    BY <1>1, <1>6, <1>7, <1>8 DEF ScopesInv

LEMMA ScopesVar ==
  ASSUME ScopesInv, status = "parsing", NEW line, Rebuilt(line) \/ Added(line)
  PROVE  ScopesInv'
  <1>1. PICK cmd, arg, arg2 : PushData(line, cmd, arg, arg2)
    BY DEF Rebuilt, Added
  <1>2. /\ ReadOK' /\ n_line' = n_line + 1 /\ n_line \in Nat
        /\ Len(file) \in Nat /\ Len(file') = Len(file) + 1 /\ file'[Len(file) + 1] = line
    BY <1>1, Stored, Counted DEF ScopesInv
  <1> DEFINE key == Key(line)
  <1>3. /\ DOMAIN vars_' = DOMAIN vars_ \cup {key}
        /\ \A k \in DOMAIN vars_ : k # key => vars_'[k] = vars_[k]
        /\ vars_'[key] \in [num : {vars_'[key].num}, die : {-1}, typeCode : {vars_'[key].typeCode}]
        /\ die_requests_' = IF func_level_ > 0 THEN die_requests_ \cup {key} ELSE die_requests_
        /\ func_level_' = func_level_
    BY Redeclared DEF ScopesInv
  <1>4. /\ key = <<key[1], key[2]>> /\ key[1] = line.name /\ key[2] = func_level_
        /\ key[2] \in Int /\ line.cmd = "var"
    BY DEF Key, Rebuilt, Added, ScopesInv, VarsOK
  <1> HIDE DEF key
  <1>5. vars_'[key].die = -1
    BY <1>3
  <1>6. ASSUME NEW k \in DOMAIN vars_, k # key
        PROVE  /\ vars_'[k] = vars_[k] /\ vars_[k].die < n_line'
               /\ vars_[k] \in [num : {vars_[k].num}, die : Int, typeCode : {vars_[k].typeCode}]
               /\ k = <<k[1], k[2]>> /\ k[2] \in Int
    <2>1. vars_[k].die \in Int /\ vars_[k].die < n_line
      BY DEF ScopesInv, VarsOK
    <2> QED
      BY <1>2, <1>3, <1>6, <2>1 DEF ScopesInv, VarsOK
  <1>7. \A k \in die_requests_' : \/ k \in die_requests_
                                  \/ k = key /\ func_level_ > 0
    BY <1>3
  <1>8. VarsOK'
    <2>1. func_level_' \in Int /\ func_level_' <= 1
      BY <1>3 DEF ScopesInv, VarsOK
    <2>2. IsFiniteSet(DOMAIN vars_')
      BY <1>3, FS_AddElement DEF ScopesInv, VarsOK
    <2>3. ASSUME NEW k \in DOMAIN vars_'
          PROVE  /\ vars_'[k] \in [num : {vars_'[k].num}, die : Int, typeCode : {vars_'[k].typeCode}]
                 /\ k = <<k[1], k[2]>> /\ k[2] \in Int
                 /\ vars_'[k].die < n_line'
      <3>1. CASE k = key
        <4>1. vars_'[key].die < n_line'
          BY <1>2, <1>5
        <4>2. vars_'[key] \in [num : {vars_'[key].num}, die : Int,
                               typeCode : {vars_'[key].typeCode}]
          BY <1>3
        <4> QED
          BY <1>4, <3>1, <4>1, <4>2
      <3>2. CASE k # key
        BY <1>3, <1>6, <3>2
      <3> QED
        BY <3>1, <3>2
    <2>4. die_requests_' \subseteq DOMAIN vars_'
      BY <1>3, <1>7 DEF ScopesInv, VarsOK
    <2>5. ASSUME NEW k \in die_requests_'
          PROVE  k[2] > 0 /\ k[2] = func_level_' /\ vars_'[k].die = -1
      <3>1. CASE k = key
        <4>1. k \in die_requests_ \/ func_level_ > 0
          BY <1>7
        <4>2. k \in die_requests_ => k[2] > 0
          BY DEF ScopesInv, VarsOK
        <4> QED
          BY <1>3, <1>4, <1>5, <3>1, <4>1, <4>2
      <3>2. CASE k # key
        <4>1. k \in die_requests_ /\ k \in DOMAIN vars_
          BY <1>7, <3>2 DEF ScopesInv, VarsOK
        <4> QED
          BY <1>3, <1>6, <3>2, <4>1 DEF ScopesInv, VarsOK
      <3> QED
        BY <3>1, <3>2
    <2> QED
      BY <2>1, <2>2, <2>3, <2>4, <2>5 DEF VarsOK
  <1>9. AllRequested'
    <2> SUFFICES ASSUME n_line' <= 65535, NEW k \in DOMAIN vars_', k[2] > 0, vars_'[k].die = -1
                 PROVE  k \in die_requests_'
      BY DEF AllRequested
    <2>1. CASE k = key
      BY <1>3, <1>4, <2>1
    <2>2. CASE k # key
      <3>1. k \in DOMAIN vars_ /\ vars_[k].die = -1 /\ n_line <= 65535
        BY <1>2, <1>3, <2>2
      <3>2. k \in die_requests_
        BY <3>1 DEF ScopesInv, AllRequested
      <3> QED
        BY <1>3, <3>2
    <2> QED
      BY <2>1, <2>2
  <1>10. DeclaredHere'
    <2> SUFFICES ASSUME NEW k \in die_requests_'
                 PROVE  \E j \in 1 .. Len(file') :
                           /\ file'[j].cmd = "var" /\ file'[j].name = k[1]
                           /\ \A r \in j .. Len(file') : file'[r].cmd # "ret"
      BY DEF DeclaredHere
    <2>1. CASE k \in die_requests_
      BY <1>1, <1>4, <2>1, DeclaredStill DEF ScopesInv
    <2>2. CASE k = key
      <3> DEFINE last == Len(file) + 1
      <3>1. last \in 1 .. Len(file') /\ \A r \in last .. Len(file') : r = last
        BY <1>2
      <3>2. file'[last] = line
        BY <1>2
      <3> HIDE DEF last
      <3>3. /\ file'[last].cmd = "var" /\ file'[last].name = k[1]
            /\ \A r \in last .. Len(file') : file'[r].cmd # "ret"
        BY <1>4, <2>2, <3>1, <3>2
      <3> QED
        BY <3>1, <3>3
    <2> QED
      BY <1>7, <2>1, <2>2
  <1> QED
    BY <1>2, <1>8, <1>9, <1>10 DEF ScopesInv

LEMMA ScopesStep ==
  ASSUME ScopesInv, [Next]_vars
  PROVE  ScopesInv'
  <1>1. CASE UNCHANGED vars
    <2>1. UNCHANGED <<file, args_, vars_, die_requests_, func_level_, status>>
      BY <1>1 DEF vars, scopes
    <2>2. UNCHANGED n_line
      BY <2>1 DEF n_line
    <2> QED
      BY <2>1, <2>2 DEF ScopesInv, ReadOK, VarsOK, AllRequested, DeclaredHere
  <1>2. CASE status = "parsing" /\ ReachEnd
    BY <1>2, ScopesEnd
  <1>3. ASSUME status = "parsing", NEW line, Read(line)
        PROVE  ScopesInv'
    <2>1. VarsOK /\ n_line \in Nat
      BY Counted DEF ScopesInv
    <2>2. \/ Failing(line) \/ Plainly(line) \/ Ret(line)
          \/ Opened(line) \/ Rebuilt(line) \/ Added(line)
      BY <1>3, <2>1, ReadSteps
    <2> QED
      BY <1>3, <2>2, ScopesFailing, ScopesPlain, ScopesRet, ScopesVar
  <1> QED
    BY <1>1, <1>2, <1>3 DEF Next

\* No local outlives the ret of its function (Builder.h, CreateVarDieRequest and
\* ActivateDieRequests), in every script: LocalsDieTogether always holds.
THEOREM LocalsDie ==
  Spec => []LocalsDieTogether
  <1>1. ScopesInv => LocalsDieTogether
    <2> SUFFICES ASSUME ScopesInv, n_line <= 65535
                 PROVE  /\ die_requests_ = {k \in DOMAIN vars_ : k[2] > 0 /\ vars_[k].die = -1}
                        /\ \A k \in die_requests_ : k[2] = func_level_
      BY DEF LocalsDieTogether
    <2> QED
      BY DEF ScopesInv, VarsOK, AllRequested
  <1> QED
    BY <1>1, ScopesStart, ScopesStep, PTL DEF Spec

-----------------------------------------------------------------------------
\* What a name can become.
LEMMA Unlessed ==
  ASSUME NEW unref, NEW arg
  PROVE  Unless(unref, arg).kind \in {arg.kind, "invalid"}
  BY DEF Unless, Invalid

LEMMA Members ==
  ASSUME NEW path, NEW unref, NEW struct
  PROVE  ManageStructVar(path, unref, struct).kind
           \in {"name", "invalid", "member", "funcMemberIT", "funcMember"}
  BY Unlessed DEF ManageStructVar, Name, Invalid

LEMMA BecomesNumber ==
  ASSUME NEW arg, Typed(arg).kind = "num"
  PROVE  \/ arg.kind = "num" /\ Typed(arg) = arg
         \/ \E name \in DOMAIN consts_ : Typed(arg) = Num(consts_[name])
  <1> DEFINE name == arg.path[1]
             member == ManageStructVar(arg.path, arg.unref, MethodStruct)
  <1>1. member.kind \notin {"num", "var"}
    BY Members
  <1> HIDE DEF member, name
  <1>2. \A unref, a : Unless(unref, a).kind = "num" => Unless(unref, a) = a
    BY DEF Unless, Invalid
  <1>3. CASE arg.kind = "name" /\ Len(arg.path) = 1 /\ name \in DOMAIN consts_
    BY <1>2, <1>3 DEF Typed, Classify, name
  <1>4. CASE arg.kind # "name"
    BY <1>4 DEF Typed, Classify
  <1>5. CASE arg.kind = "name" /\ ~(Len(arg.path) = 1 /\ name \in DOMAIN consts_)
    BY <1>1, <1>2, <1>5 DEF Typed, Classify, name, member, Invalid
  <1> QED
    BY <1>3, <1>4, <1>5

LEMMA FreshName ==
  ASSUME NEW name, Fresh(name)
  PROVE  name \notin DOMAIN consts_ /\ name \notin DOMAIN labels_ /\ name \notin DOMAIN createdFuncs_
  <1> DEFINE arg == Name(<<name>>, FALSE)
  <1>1. /\ Classify(arg, FALSE, TRUE, FALSE).kind = "name"
        /\ arg.kind = "name" /\ arg.path[1] = name /\ Len(arg.path) = 1 /\ arg.unref = FALSE
    BY DEF Fresh, Name
  <1> HIDE DEF arg
  <1>2. \A a : Unless(arg.unref, a) = a
    BY <1>1 DEF Unless
  <1>3. name \notin DOMAIN consts_
    BY <1>1, <1>2 DEF Classify, Num
  <1>4. Visible(name, func_level_) = {}
    BY <1>1, <1>2, <1>3 DEF Classify, Invalid
  <1>5. name \notin DOMAIN labels_
    BY <1>1, <1>2, <1>3, <1>4 DEF Classify
  <1>6. name \notin DOMAIN createdFuncs_
    BY <1>1, <1>2, <1>3, <1>4, <1>5 DEF Classify
  <1> QED
    BY <1>3, <1>5, <1>6

LEMMA InnermostIn ==
  ASSUME NEW S, S \subseteq {0, 1}, S # {}
  PROVE  Innermost(S) \in S
  <1>1. \E l \in S : \A k \in S : k <= l
    <2>1. CASE 1 \in S
      BY <2>1
    <2>2. CASE 1 \notin S
      <3>1. 0 \in S /\ \A k \in S : k = 0
        BY <2>2
      <3> QED
        BY <3>1
    <2> QED
      BY <2>1, <2>2
  <1> QED
    BY <1>1 DEF Innermost

\* A name read as a variable is one that lives, of the innermost level.
LEMMA BecomesVariable ==
  ASSUME VarsOK, n_line \in Nat, struct_func_level_ \in Int, struct_func_level_ <= 1,
         NEW arg, NEW s, arg.kind # "var",
         Used(arg, s).kind = "var"
  PROVE  \E l \in Int : /\ <<arg.path[1], l>> \in DOMAIN vars_
                        /\ vars_[<<arg.path[1], l>>].die = -1
                        /\ Used(arg, s).var = vars_[<<arg.path[1], l>>].num
  <1> DEFINE name == arg.path[1]
             level == IF s THEN struct_func_level_ ELSE func_level_
             levels == Visible(name, level)
             found == Innermost(levels)
             member == ManageStructVar(arg.path, arg.unref, MethodStruct)
  <1>1. member.kind # "var"
    BY Members
  <1>2. /\ level \in Int /\ level <= 1
        /\ \A l \in levels : /\ l \in {0, 1} /\ <<name, l>> \in DOMAIN vars_
                             /\ ~(vars_[<<name, l>>].die # -1 /\ vars_[<<name, l>>].die < n_line)
    <2>1. level \in Int /\ level <= 1
      BY DEF VarsOK
    <2> HIDE DEF level
    <2> QED
      BY <2>1 DEF Visible
  <1>3. levels # {} => found \in levels
    BY <1>2, InnermostIn
  <1> HIDE DEF levels, found, level, member
  <1>4. levels # {} /\ Used(arg, s) = [kind |-> "var", var |-> vars_[<<name, found>>].num]
    <2>1. arg.kind = "name"
      BY DEF Used, Classify
    <2>2. \A unref, a : a.kind # "var" => Unless(unref, a).kind # "var"
      BY DEF Unless, Invalid
    <2>3. ~(Len(arg.path) = 1 /\ name \in DOMAIN consts_)
      BY <2>1, <2>2 DEF Used, Classify, Num
    <2>4. Len(arg.path) = 1 /\ levels # {}
      BY <1>1, <2>1, <2>2, <2>3 DEF Used, Classify, Num, levels, level, member
    <2> QED
      BY <2>1, <2>3, <2>4 DEF Used, Classify, Invalid, levels, level, found
  <1>5. vars_[<<name, found>>].die < n_line /\ vars_[<<name, found>>].die \in Int
    BY <1>2, <1>3, <1>4 DEF VarsOK
  <1>6. /\ found \in Int /\ <<name, found>> \in DOMAIN vars_
        /\ vars_[<<name, found>>].die = -1
    BY <1>2, <1>3, <1>4, <1>5
  <1>7. Used(arg, s).var = vars_[<<name, found>>].num
    BY <1>4
  <1> QED
    BY <1>6, <1>7

-----------------------------------------------------------------------------
\* What a source line holds: an argument is nothing, a name or a number.
Written(arg) == arg.kind \in {"null", "name"} \/ (arg.kind = "num" /\ arg.num \in Int)

LinesWritten ==
  \A read : \A line \in Continues(read) :
    /\ line.cmd \in {"use", "name"} => Written(line.arg) /\ Written(line.arg2)
    /\ line.cmd = "var" => Written(line.type)

StructLevelOK == struct_func_level_ \in Int /\ struct_func_level_ <= 1

LEMMA StructLevelStep ==
  ASSUME VarsOK, StructLevelOK, [Next]_vars
  PROVE  StructLevelOK'
  <1>0. func_level_ \in Int /\ func_level_ <= 1
    BY DEF VarsOK
  <1>1. struct_func_level_' \in {struct_func_level_, func_level_}
    <2>1. CASE UNCHANGED vars \/ ReachEnd
      BY <2>1 DEF vars, scopes, ReachEnd
    <2>2. ASSUME NEW line, Read(line)
          PROVE  struct_func_level_' \in {struct_func_level_, func_level_}
      <3>0. ASSUME NEW how, Ends(line, how) PROVE struct_func_level_' = struct_func_level_
        BY <3>0 DEF Ends, scopes
      <3>1. CASE Null(line)
        BY <3>1 DEF Null, scopes
      <3>2. CASE Func(line)
        BY <3>0, <3>2 DEF Func, Throw, scopes
      <3>3. CASE Ret(line)
        BY <3>3 DEF Ret
      <3>4. CASE CFunc(line)
        BY <3>0, <3>4 DEF CFunc, Throw
      <3>5. CASE PFunc(line)
        BY <3>0, <3>5 DEF PFunc, Throw, scopes
      <3>6. CASE Label(line)
        BY <3>0, <3>6 DEF Label, Throw, scopes
      <3>7. CASE Const(line)
        BY <3>0, <3>7 DEF Const, Throw, scopes
      <3>8. CASE Extern(line)
        BY <3>0, <3>8 DEF Extern, Throw, scopes
      <3>9. CASE Import(line)
        BY <3>0, <3>9 DEF Import, Throw, scopes
      <3>10. CASE UserCommand(line)
        BY <3>0, <3>10 DEF UserCommand, Throw, scopes
      <3>11. CASE Var(line)
        BY <3>0, <3>11 DEF Var, Throw
      <3>12. CASE Struct(line)
        BY <3>0, <3>12 DEF Struct, Throw
      <3>13. CASE StructVar(line)
        BY <3>0, <3>13 DEF StructVar, Throw, scopes
      <3>14. CASE StructCFunc(line)
        BY <3>0, <3>14 DEF StructCFunc, Throw
      <3>15. CASE StructPFunc(line)
        BY <3>0, <3>15 DEF StructPFunc, Throw, scopes
      <3>16. CASE EndStruct(line)
        BY <3>16 DEF EndStruct
      <3> QED
        BY <2>2, <3>1, <3>2, <3>3, <3>4, <3>5, <3>6, <3>7, <3>8, <3>9, <3>10, <3>11, <3>12,
           <3>13, <3>14, <3>15, <3>16 DEF Read
    <2> QED
      BY <2>1, <2>2 DEF Next
  <1> QED
    BY <1>0, <1>1 DEF StructLevelOK

\* An argument of the line just stored, when it has become a local.
LEMMA ArgumentDeclared ==
  ASSUME ScopesInv, StructLevelOK, status = "parsing",
         NEW line, Plainly(line), n_line' <= 65535,
         NEW given, Written(given), NEW s, UsesLocal(Used(given, s))
  PROVE  DeclaredSinceRet(given.path[1], n_line)'
  <1>1. PICK cmd, arg, arg2 : PushData(line, cmd, arg, arg2)
    BY DEF Plainly
  <1> DEFINE i == n_line + 1
  <1>2. /\ n_line' = i /\ n_line \in Nat /\ Len(file) = n_line /\ Len(file') = i
        /\ \A j \in 1 .. n_line : file'[j] = file[j]
        /\ file'[i] = line
    BY <1>1, Stored, Counted DEF ScopesInv, ReadOK
  <1>3. vars_' = vars_ /\ line.cmd # "ret"
    BY DEF Plainly
  <1> HIDE DEF i
  <1>a. 0 < i /\ i <= 65535 /\ Used(given, s).kind = "var"
        /\ \A g \in DOMAIN vars_ : vars_[g].num = Used(given, s).var => g[2] > 0
    BY <1>2 DEF i, UsesLocal
  <1>4. given.kind # "var"
    BY DEF Written
  <1>5. PICK l \in Int : /\ <<given.path[1], l>> \in DOMAIN vars_
                         /\ vars_[<<given.path[1], l>>].die = -1
                         /\ Used(given, s).var = vars_[<<given.path[1], l>>].num
    BY <1>2, <1>4, <1>a, BecomesVariable DEF ScopesInv, StructLevelOK
  <1> DEFINE key == <<given.path[1], l>>
  <1>6. key \in DOMAIN vars_ /\ key[1] = given.path[1] /\ key[2] > 0 /\ vars_[key].die = -1
    BY <1>5, <1>a
  <1> HIDE DEF key
  <1>7. key \in die_requests_
    <2>1. n_line <= 65535
      BY <1>2, <1>a DEF i
    <2> QED
      BY <1>6, <2>1 DEF ScopesInv, AllRequested
  <1>8. PICK j \in 1 .. n_line : /\ file[j].cmd = "var" /\ file[j].name = key[1]
                                 /\ \A r \in j .. n_line : file[r].cmd # "ret"
    BY <1>2, <1>7 DEF ScopesInv, DeclaredHere
  <1>9. j \in 1 .. i - 1 /\ file'[j] = file[j]
    BY <1>2 DEF i
  <1>10. ASSUME NEW r \in j .. i
         PROVE  file'[r].cmd # "ret"
    <2>1. (r \in j .. n_line /\ r \in 1 .. n_line) \/ r = i
      BY <1>2 DEF i
    <2> QED
      BY <1>2, <1>3, <1>8, <2>1
  <1>11. file'[j].cmd = "var" /\ file'[j].name = given.path[1]
    BY <1>6, <1>8, <1>9
  <1> QED
    BY <1>2, <1>9, <1>10, <1>11 DEF DeclaredSinceRet

\* The line just stored.
LEMMA UsedWhereDeclared ==
  ASSUME ScopesInv, StructLevelOK, status = "parsing",
         NEW line, line.cmd \in {"use", "name"} => Written(line.arg) /\ Written(line.arg2),
         Plainly(line)
  PROVE  LocalsStayLocal'
  <1>1. PICK cmd, arg, arg2 :
          /\ PushData(line, cmd, arg, arg2)
          /\ cmd \in Commands => /\ line.cmd \in {"use", "name"}
                                /\ \E s : arg = Used(line.arg, s) /\ arg2 = Used(line.arg2, s)
    BY DEF Plainly
  <1>2. /\ args_[n_line]'.cmd = cmd /\ args_[n_line]'.arg = arg /\ args_[n_line]'.arg2 = arg2
        /\ file[n_line]' = line
    BY <1>1, Stored, Counted DEF ScopesInv, ReadOK
  <1>3. vars_' = vars_
    BY DEF Plainly
  <1> SUFFICES ASSUME n_line' <= 65535, cmd \in Commands
               PROVE  /\ UsesLocal(arg) => DeclaredSinceRet(line.arg.path[1], n_line)'
                      /\ UsesLocal(arg2) => DeclaredSinceRet(line.arg2.path[1], n_line)'
    <2>1. (args_[n_line].cmd \in {"Func", "UFunc"})' => cmd \in Commands
      BY <1>2 DEF Commands
    <2>2. /\ UsesLocal(args_[n_line].arg)' => UsesLocal(arg)
          /\ UsesLocal(args_[n_line].arg2)' => UsesLocal(arg2)
      BY <1>2, <1>3 DEF UsesLocal
    <2> QED
      BY <1>2, <2>1, <2>2 DEF LocalsStayLocal
  <1>4. PICK s : arg = Used(line.arg, s) /\ arg2 = Used(line.arg2, s)
    BY <1>1
  <1>5. Written(line.arg) /\ Written(line.arg2)
    BY <1>1
  <1> QED
    BY <1>4, <1>5, ArgumentDeclared

LEMMA StaysLocalStep ==
  ASSUME LinesWritten, ScopesInv, StructLevelOK, LocalsStayLocal, [Next]_vars
  PROVE  LocalsStayLocal'
  <1>0. n_line \in Nat
    BY Counted DEF ScopesInv
  <1>1. CASE UNCHANGED vars
    <2>1. UNCHANGED <<file, args_, vars_>>
      BY <1>1 DEF vars
    <2>2. UNCHANGED n_line
      BY <2>1 DEF n_line
    <2> QED
      BY <2>1, <2>2 DEF LocalsStayLocal, UsesLocal, DeclaredSinceRet
  <1>2. CASE status = "parsing" /\ ReachEnd
    <2>1. /\ n_line' = n_line /\ UNCHANGED <<file, vars_>>
          /\ \A i \in 1 .. n_line :
                /\ args_'[i].cmd = args_[i].cmd
                /\ args_'[i].arg.kind = "var" => args_'[i].arg = args_[i].arg
                /\ args_'[i].arg2.kind = "var" => args_'[i].arg2 = args_[i].arg2
      BY <1>2, AtEnd DEF ScopesInv, types
    <2> SUFFICES ASSUME 0 < n_line, n_line <= 65535, Len(file) = n_line,
                        args_'[n_line].cmd \in {"Func", "UFunc"}
                 PROVE  /\ UsesLocal(args_'[n_line].arg)
                           => DeclaredSinceRet(file[n_line].arg.path[1], n_line)
                        /\ UsesLocal(args_'[n_line].arg2)
                           => DeclaredSinceRet(file[n_line].arg2.path[1], n_line)
      <3>1. ASSUME NEW arg PROVE UsesLocal(arg)' <=> UsesLocal(arg')
        BY <2>1 DEF UsesLocal
      <3>2. ASSUME NEW name PROVE DeclaredSinceRet(name, n_line)' <=> DeclaredSinceRet(name', n_line)
        BY <2>1 DEF DeclaredSinceRet
      <3> QED
        BY <2>1, <3>1, <3>2 DEF LocalsStayLocal, UsesLocal, DeclaredSinceRet
    <2>2. n_line \in 1 .. n_line
      OBVIOUS
    <2>3. args_[n_line].cmd \in {"Func", "UFunc"}
      BY <2>1, <2>2
    <2>4. /\ UsesLocal(args_'[n_line].arg) => UsesLocal(args_[n_line].arg)
          /\ UsesLocal(args_'[n_line].arg2) => UsesLocal(args_[n_line].arg2)
      BY <2>1, <2>2 DEF UsesLocal
    <2> QED
      BY <2>3, <2>4 DEF LocalsStayLocal
  <1>3. ASSUME status = "parsing", NEW line \in Continues(file), Read(line)
        PROVE  LocalsStayLocal'
    <2>1. line.cmd \in {"use", "name"} => Written(line.arg) /\ Written(line.arg2)
      BY DEF LinesWritten
    <2>2. CASE Failing(line)
      <3>1. n_line' = n_line /\ n_line < Len(file')
        BY <1>3, <2>2, Ended DEF Failing, ScopesInv
      <3> QED
        BY <1>0, <3>1 DEF LocalsStayLocal
    <2>3. CASE Plainly(line)
      BY <1>3, <2>1, <2>3, UsedWhereDeclared
    <2>4. CASE Ret(line) \/ Opened(line) \/ Rebuilt(line) \/ Added(line)
      <3>1. PICK cmd, arg, arg2 : PushData(line, cmd, arg, arg2) /\ cmd \notin Commands
        <4>1. CASE Ret(line)
          BY <4>1 DEF Ret, Commands
        <4>2. CASE Opened(line) \/ Rebuilt(line) \/ Added(line)
          BY <4>2 DEF Opened, Rebuilt, Added
        <4> QED
          BY <2>4, <4>1, <4>2
      <3>2. n_line' = n_line + 1 /\ args_'[n_line + 1].cmd \notin Commands
        BY <1>3, <3>1, Stored DEF ScopesInv
      <3>3. ~(args_[n_line].cmd \in {"Func", "UFunc"})'
        BY <3>2 DEF Commands
      <3> QED
        BY <3>3 DEF LocalsStayLocal
    <2> QED
      BY <1>0, <1>3, <2>2, <2>3, <2>4, ReadSteps DEF ScopesInv
  <1> QED
    BY <1>1, <1>2, <1>3 DEF Next

StayInv == ScopesInv /\ StructLevelOK /\ LocalsStayLocal

\* A local is used only where it is declared (_in_clsf_arg over the levels of
\* vars_), in every script whose arguments are names and numbers: LocalsStayLocal.
THEOREM LocalsStay ==
  ASSUME LinesWritten
  PROVE  Spec => []LocalsStayLocal
  <1>1. Init => StayInv
    <2> SUFFICES ASSUME Init PROVE StructLevelOK /\ LocalsStayLocal
      BY ScopesStart DEF StayInv
    <2>1. n_line = 0 /\ struct_func_level_ = 0
      BY DEF Init, n_line
    <2> QED
      BY <2>1 DEF StructLevelOK, LocalsStayLocal
  <1>2. StayInv /\ [Next]_vars => StayInv'
    BY ScopesStep, StructLevelStep, StaysLocalStep DEF ScopesInv, StayInv
  <1>3. StayInv => LocalsStayLocal
    BY DEF StayInv
  <1> QED
    BY <1>1, <1>2, <1>3, PTL DEF Spec

-----------------------------------------------------------------------------
\* What a name means.  A struct's type constant is made without a check.
Declared == DOMAIN createdFuncs_ \cup DOMAIN labels_

NamesInv ==
  /\ Declared \cap DOMAIN userFuncs_ = {}
  /\ Declared \cap (DOMAIN consts_ \ StructTypes) = {}
  /\ \A n : ~(Defined(createdFuncs_, n) /\ Defined(labels_, n))
  /\ status = "built" => AllDefined

\* The steps, by what they do to the names.
SameNames == UNCHANGED <<createdFuncs_, labels_, consts_, userFuncs_>>

Announced(line) ==
  /\ \E level : CheckName(line.name, level)
  /\ UNCHANGED <<consts_, userFuncs_>>
  /\ \E n \in {n_line, -1} :
       \/ createdFuncs_' = Put(createdFuncs_, line.name, n) /\ UNCHANGED labels_
       \/ labels_' = Put(labels_, line.name, n) /\ UNCHANGED createdFuncs_

Introduced(line) ==
  /\ Fresh(line.name)
  /\ UNCHANGED <<createdFuncs_, labels_>>
  /\ \/ /\ line.cmd = "const"
        /\ consts_' = Put(consts_, line.name, 0) /\ UNCHANGED userFuncs_
     \/ /\ line.cmd = "extern" /\ line.name \notin DOMAIN consts_
        /\ (\E n : userFuncs_' = Put(userFuncs_, line.name, n)) /\ UNCHANGED consts_

Structured(line) ==
  /\ line.cmd = "struct"
  /\ UNCHANGED <<createdFuncs_, labels_, userFuncs_>>
  /\ \E n \in {Cardinality(DOMAIN sizes_) + 1} : consts_' = Put(consts_, TypeName(line.name), n)

StoredLine(line) == \E cmd, arg, arg2 : PushData(line, cmd, arg, arg2)

LEMMA NameSteps ==
  ASSUME NEW line, Read(line)
  PROVE  \/ Failing(line)
         \/ /\ StoredLine(line)
            /\ SameNames \/ Announced(line) \/ Introduced(line) \/ Structured(line)
  <1>a. ASSUME Throw(line) PROVE Failing(line)
    BY <1>a DEF Failing, Throw
  <1>b. ASSUME NEW cmd, NEW arg, NEW arg2, PushData(line, cmd, arg, arg2) PROVE StoredLine(line)
    BY <1>b DEF StoredLine
  <1>1. CASE Null(line)
    BY <1>1, <1>b DEF Null, SameNames, names
  <1>2. CASE Func(line)
    BY <1>2, <1>a, <1>b DEF Func, SameNames, names
  <1>3. CASE Ret(line)
    BY <1>3, <1>b DEF Ret, SameNames, names
  <1>4. CASE CFunc(line)
    BY <1>4, <1>a, <1>b DEF CFunc, Announced
  <1>5. CASE PFunc(line)
    BY <1>5, <1>a, <1>b DEF PFunc, Announced
  <1>6. CASE Label(line)
    BY <1>6, <1>a, <1>b DEF Label, Announced
  <1>7. CASE Const(line)
    BY <1>7, <1>a, <1>b DEF Const, Introduced
  <1>8. CASE Extern(line)
    BY <1>8, <1>a, <1>b DEF Extern, Introduced, CheckName
  <1>9. CASE Import(line)
    BY <1>9, <1>a, <1>b DEF Import, SameNames
  <1>10. CASE UserCommand(line)
    BY <1>10, <1>a, <1>b DEF UserCommand, SameNames, names
  <1>11. CASE Var(line)
    <2>1. Throw(line) \/ (StoredLine(line) /\ UNCHANGED names)
      BY <1>11, <1>b DEF Var
    <2> QED
      BY <1>a, <2>1 DEF SameNames, names
  <1>12. CASE Struct(line)
    BY <1>12, <1>a, <1>b DEF Struct, Structured
  <1>13. CASE StructVar(line)
    BY <1>13, <1>a, <1>b DEF StructVar, SameNames, names
  <1>14. CASE StructCFunc(line)
    BY <1>14, <1>a, <1>b DEF StructCFunc, SameNames, names
  <1>15. CASE StructPFunc(line)
    <2>1. Throw(line) \/ Ends(line, "crashed") \/ (StoredLine(line) /\ UNCHANGED names)
      BY <1>15, <1>b DEF StructPFunc
    <2> QED
      BY <1>a, <2>1 DEF Failing, SameNames, names
  <1>16. CASE EndStruct(line)
    BY <1>16, <1>b DEF EndStruct, SameNames, names
  <1> QED
    BY <1>1, <1>2, <1>3, <1>4, <1>5, <1>6, <1>7, <1>8, <1>9, <1>10, <1>11, <1>12,
       <1>13, <1>14, <1>15, <1>16 DEF Read

LEMMA StructTypesGrow ==
  ASSUME ReadOK, NEW line, file' = Append(file, line)
  PROVE  /\ StructTypes \subseteq StructTypes'
         /\ line.cmd = "struct" => TypeName(line.name) \in StructTypes'
  <1>1. /\ DOMAIN file = 1 .. Len(file) /\ DOMAIN file' = 1 .. Len(file')
        /\ Len(file) \in Nat /\ Len(file') = Len(file) + 1
        /\ \A i \in 1 .. Len(file) : file'[i] = file[i]
        /\ file'[Len(file) + 1] = line
    <2>1. IsSeq(file)
      BY DEF ReadOK
    <2>2. IsSeq(file')
      BY <2>1, AppendIsSeq
    <2> QED
      BY <2>1, <2>2, AppendIsSeq DEF IsSeq
  <1>2. ASSUME NEW i \in DOMAIN file, file[i].cmd = "struct"
        PROVE  TypeName(file[i].name) \in StructTypes'
    <2>1. i \in DOMAIN file' /\ file'[i] = file[i]
      BY <1>1
    <2> QED
      BY <1>2, <2>1 DEF StructTypes
  <1>3. ASSUME line.cmd = "struct"
        PROVE  TypeName(line.name) \in StructTypes'
    <2> DEFINE last == Len(file) + 1
    <2>1. last \in DOMAIN file' /\ file'[last] = line
      BY <1>1
    <2> HIDE DEF last
    <2> QED
      BY <1>3, <2>1 DEF StructTypes
  <1> QED
    BY <1>2, <1>3 DEF StructTypes

LEMMA NamesAnnounced ==
  ASSUME NamesInv, NEW line, Announced(line), StructTypes \subseteq StructTypes'
  PROVE  /\ Declared' \cap DOMAIN userFuncs_' = {}
         /\ Declared' \cap (DOMAIN consts_' \ StructTypes') = {}
         /\ \A n : ~(Defined(createdFuncs_', n) /\ Defined(labels_', n))
  <1>1. PICK value \in {n_line, -1} :
          \/ createdFuncs_' = Put(createdFuncs_, line.name, value) /\ UNCHANGED labels_
          \/ labels_' = Put(labels_, line.name, value) /\ UNCHANGED createdFuncs_
    BY DEF Announced
  <1>2. /\ line.name \notin DOMAIN consts_ /\ line.name \notin DOMAIN userFuncs_
        /\ ~Defined(createdFuncs_, line.name) /\ ~Defined(labels_, line.name)
        /\ UNCHANGED <<consts_, userFuncs_>>
    BY DEF Announced, CheckName
  <1> DEFINE created == Put(createdFuncs_, line.name, value)
             labelled == Put(labels_, line.name, value)
  <1>p. /\ DOMAIN created = DOMAIN createdFuncs_ \cup {line.name}
        /\ DOMAIN labelled = DOMAIN labels_ \cup {line.name}
        /\ \A n : n # line.name => (Defined(created, n) <=> Defined(createdFuncs_, n))
        /\ \A n : n # line.name => (Defined(labelled, n) <=> Defined(labels_, n))
    BY DEF Put, Defined
  <1>q. \/ createdFuncs_' = created /\ labels_' = labels_
        \/ labels_' = labelled /\ createdFuncs_' = createdFuncs_
    BY <1>1
  <1> HIDE DEF created, labelled
  <1>3. Declared' = Declared \cup {line.name}
    <2>1. Declared' = DOMAIN createdFuncs_' \cup DOMAIN labels_'
      BY DEF Declared
    <2>2. DOMAIN createdFuncs_' \cup DOMAIN labels_' =
            DOMAIN createdFuncs_ \cup DOMAIN labels_ \cup {line.name}
      <3>1. CASE createdFuncs_' = created /\ labels_' = labels_
        BY <1>p, <3>1
      <3>2. CASE labels_' = labelled /\ createdFuncs_' = createdFuncs_
        BY <1>p, <3>2
      <3> QED
        BY <1>q, <3>1, <3>2
    <2> QED
      BY <2>1, <2>2 DEF Declared
  <1>4. ASSUME NEW n, Defined(createdFuncs_', n), Defined(labels_', n)
        PROVE  FALSE
    <2>1. CASE n = line.name
      <3>1. Defined(createdFuncs_, n) \/ Defined(labels_, n)
        BY <1>q, <1>4
      <3> QED
        BY <1>2, <2>1, <3>1
    <2>2. CASE n # line.name
      <3>1. Defined(createdFuncs_, n) /\ Defined(labels_, n)
        BY <1>p, <1>q, <1>4, <2>2
      <3> QED
        BY <3>1 DEF NamesInv
    <2> QED
      BY <2>1, <2>2
  <1> QED
    BY <1>2, <1>3, <1>4 DEF NamesInv

LEMMA NamesStep ==
  ASSUME ReadOK, NamesInv, [Next]_vars
  PROVE  NamesInv'
  <1>1. CASE UNCHANGED vars
    <2>1. UNCHANGED <<file, createdFuncs_, labels_, consts_, userFuncs_, memberFuncs_, status>>
      BY <1>1 DEF vars, names, types
    <2> QED
      BY <2>1 DEF NamesInv, Declared, StructTypes, AllDefined
  <1>2. CASE status = "parsing" /\ ReachEnd
    <2>1. /\ UNCHANGED <<file, createdFuncs_, labels_, consts_, userFuncs_, memberFuncs_>>
          /\ status' = "built" => AllDefined
      BY <1>2, AtEnd DEF names, types
    <2> QED
      BY <2>1 DEF NamesInv, Declared, StructTypes, AllDefined
  <1>3. ASSUME status = "parsing", NEW line, Read(line)
        PROVE  NamesInv'
    <2>1. CASE Failing(line)
      <3>1. /\ UNCHANGED <<createdFuncs_, labels_, consts_, userFuncs_>>
            /\ status' # "built" /\ file' = Append(file, line)
        BY <2>1 DEF Failing, Ends, names
      <3>2. StructTypes \subseteq StructTypes'
        BY <3>1, StructTypesGrow
      <3> QED
        BY <3>1, <3>2 DEF NamesInv, Declared
    <2>2. CASE /\ StoredLine(line)
               /\ SameNames \/ Announced(line) \/ Introduced(line) \/ Structured(line)
      <3>1. file' = Append(file, line) /\ status' # "built"
        BY <1>3, <2>2 DEF StoredLine, PushData
      <3>2. /\ StructTypes \subseteq StructTypes'
            /\ line.cmd = "struct" => TypeName(line.name) \in StructTypes'
        BY <3>1, StructTypesGrow
      <3>3. CASE SameNames
        BY <3>1, <3>2, <3>3 DEF NamesInv, Declared, SameNames
      <3>4. CASE Announced(line)
        BY <3>1, <3>2, <3>4, NamesAnnounced DEF NamesInv
      <3>5. CASE Introduced(line)
        <4>1. line.name \notin Declared
          BY <3>5, FreshName DEF Introduced, Declared
        <4>2. UNCHANGED <<createdFuncs_, labels_>> /\ Declared' = Declared
          BY <3>5 DEF Introduced, Declared
        <4>3. /\ DOMAIN consts_' \subseteq DOMAIN consts_ \cup {line.name}
              /\ DOMAIN userFuncs_' \subseteq DOMAIN userFuncs_ \cup {line.name}
          <5>1. CASE consts_' = Put(consts_, line.name, 0) /\ UNCHANGED userFuncs_
            BY <5>1 DEF Put
          <5>2. CASE (\E n : userFuncs_' = Put(userFuncs_, line.name, n)) /\ UNCHANGED consts_
            <6>1. PICK n : userFuncs_' = Put(userFuncs_, line.name, n)
              BY <5>2
            <6>2. DOMAIN userFuncs_' = DOMAIN userFuncs_ \cup {line.name}
              BY <6>1 DEF Put
            <6> QED
              BY <5>2, <6>2
          <5> QED
            BY <3>5, <5>1, <5>2 DEF Introduced
        <4> QED
          BY <3>1, <3>2, <4>1, <4>2, <4>3 DEF NamesInv
      <3>6. CASE Structured(line)
        <4>1. /\ UNCHANGED <<createdFuncs_, labels_, userFuncs_>> /\ Declared' = Declared
              /\ DOMAIN consts_' = DOMAIN consts_ \cup {TypeName(line.name)}
              /\ TypeName(line.name) \in StructTypes'
          BY <3>2, <3>6 DEF Structured, Declared, Put
        <4> QED
          BY <3>1, <3>2, <4>1 DEF NamesInv
      <3> QED
        BY <2>2, <3>3, <3>4, <3>5, <3>6
    <2> QED
      BY <1>3, <2>1, <2>2, NameSteps
  <1> QED
    BY <1>1, <1>2, <1>3 DEF Next

\* Where the commands of the embedder were declared.
EmbedderNames ==
  /\ \A n \in DOMAIN userFuncs_ : \E i \in DOMAIN file : Declares(i, "extern", n)
  /\ \A n \in DOMAIN userFuncs_ \cap (DOMAIN consts_ \ StructTypes) :
       DeclaredAfter(n, "extern", "const")

LEMMA LinesStill ==
  ASSUME ReadOK, NEW line, file' = Append(file, line)
  PROVE  /\ \A i \in DOMAIN file : i \in DOMAIN file' /\ i < Len(file) + 1 /\ file'[i] = file[i]
         /\ Len(file) + 1 \in DOMAIN file' /\ file'[Len(file) + 1] = line
  <1>1. IsSeq(file) /\ IsSeq(file') /\ Len(file') = Len(file) + 1 /\ Len(file) \in Nat
        /\ \A i \in 1 .. Len(file) : file'[i] = file[i]
        /\ file'[Len(file) + 1] = line
    BY AppendIsSeq DEF ReadOK
  <1>2. DOMAIN file = 1 .. Len(file) /\ DOMAIN file' = 1 .. Len(file')
    BY <1>1 DEF IsSeq
  <1> QED
    BY <1>1, <1>2

LEMMA EmbedderStep ==
  ASSUME ReadOK, EmbedderNames, [Next]_vars
  PROVE  EmbedderNames'
  <1>1. CASE UNCHANGED <<file, consts_, userFuncs_>>
    BY <1>1 DEF EmbedderNames, StructTypes, DeclaredAfter, Declares
  <1>2. ASSUME status = "parsing", NEW line, Read(line)
        PROVE  EmbedderNames'
    <2>1. file' = Append(file, line)
      BY <1>2, NameSteps DEF StoredLine, PushData, Failing, Ends
    <2>2. /\ \A i \in DOMAIN file : /\ i \in DOMAIN file' /\ i < Len(file) + 1
                                   /\ file'[i] = file[i]
          /\ Len(file) + 1 \in DOMAIN file' /\ file'[Len(file) + 1] = line
      BY <2>1, LinesStill
    <2>3. StructTypes \subseteq StructTypes'
          /\ (line.cmd = "struct" => TypeName(line.name) \in StructTypes')
      BY <2>1, StructTypesGrow
    <2>4. ASSUME NEW n, NEW i \in DOMAIN file, Declares(i, "extern", n)
          PROVE  i \in DOMAIN file' /\ Declares(i, "extern", n)'
      BY <2>2, <2>4 DEF Declares
    <2>5. ASSUME NEW n, DeclaredAfter(n, "extern", "const")
          PROVE  DeclaredAfter(n, "extern", "const")'
      BY <2>2, <2>5 DEF DeclaredAfter, Declares
    <2>6. CASE UNCHANGED <<consts_, userFuncs_>>
      BY <2>3, <2>4, <2>5, <2>6 DEF EmbedderNames
    <2>7. CASE Structured(line)
      <3>1. UNCHANGED userFuncs_ /\ DOMAIN consts_' = DOMAIN consts_ \cup {TypeName(line.name)}
            /\ TypeName(line.name) \in StructTypes'
        BY <2>3, <2>7 DEF Structured, Put
      <3> QED
        BY <2>3, <2>4, <2>5, <3>1 DEF EmbedderNames
    <2>8. CASE line.cmd = "const" /\ consts_' = Put(consts_, line.name, 0) /\ UNCHANGED userFuncs_
      <3>1. DOMAIN consts_' = DOMAIN consts_ \cup {line.name}
        BY <2>8 DEF Put
      <3>2. ASSUME line.name \in DOMAIN userFuncs_
            PROVE  DeclaredAfter(line.name, "extern", "const")'
        <4>1. PICK i \in DOMAIN file : Declares(i, "extern", line.name)
          BY <3>2 DEF EmbedderNames
        <4> DEFINE j == Len(file) + 1
        <4>2. i \in DOMAIN file' /\ j \in DOMAIN file' /\ i < j /\ file'[i] = file[i]
              /\ file'[j] = line
          BY <2>2
        <4>3. Declares(i, "extern", line.name)'
          BY <4>1, <4>2 DEF Declares
        <4> HIDE DEF j
        <4> QED
          BY <2>8, <4>2, <4>3 DEF DeclaredAfter, Declares
      <3> QED
        BY <2>3, <2>4, <2>5, <2>8, <3>1, <3>2 DEF EmbedderNames
    <2>9. CASE /\ line.cmd = "extern" /\ line.name \notin DOMAIN consts_
               /\ (\E n : userFuncs_' = Put(userFuncs_, line.name, n)) /\ UNCHANGED consts_
      <3>1. DOMAIN userFuncs_' = DOMAIN userFuncs_ \cup {line.name}
        <4>1. PICK n : userFuncs_' = Put(userFuncs_, line.name, n)
          BY <2>9
        <4> QED
          BY <4>1 DEF Put
      <3>2. \E i \in DOMAIN file' : Declares(i, "extern", line.name)'
        <4> DEFINE j == Len(file) + 1
        <4>1. j \in DOMAIN file' /\ file'[j] = line
          BY <2>2
        <4> HIDE DEF j
        <4> QED
          BY <2>9, <4>1 DEF Declares
      <3> QED
        BY <2>3, <2>4, <2>5, <2>9, <3>1, <3>2 DEF EmbedderNames
    <2>10. \/ UNCHANGED <<consts_, userFuncs_>> \/ Introduced(line) \/ Structured(line)
      BY <1>2, NameSteps DEF Failing, Ends, names, SameNames, Announced
    <2> QED
      BY <2>6, <2>7, <2>8, <2>9, <2>10 DEF Introduced
  <1>3. CASE UNCHANGED vars \/ ReachEnd
    BY <1>1, <1>3 DEF vars, names, ReachEnd
  <1> QED
    BY <1>2, <1>3 DEF Next

\* CheckName and ResolvePrototypes together leave a name one meaning in every
\* script that is built: OneMeaning.
THEOREM MeaningsApart ==
  Spec => []OneMeaning
  <1>1. Init => NamesInv /\ EmbedderNames
    <2> SUFFICES ASSUME Init PROVE NamesInv /\ EmbedderNames
      OBVIOUS
    <2>1. createdFuncs_ = <<>> /\ labels_ = <<>> /\ userFuncs_ = <<>> /\ status = "parsing"
      BY DEF Init
    <2>2. DOMAIN createdFuncs_ = {} /\ DOMAIN labels_ = {} /\ DOMAIN userFuncs_ = {}
      BY <2>1
    <2> QED
      BY <2>1, <2>2 DEF NamesInv, EmbedderNames, Declared, Defined
  <1>2. (ScopesInv /\ NamesInv /\ EmbedderNames) /\ [Next]_vars => NamesInv' /\ EmbedderNames'
    BY NamesStep, EmbedderStep DEF ScopesInv
  <1>3. NamesInv /\ EmbedderNames => OneMeaning
    <2> SUFFICES ASSUME NamesInv, EmbedderNames, status = "built" PROVE OneMeaning
      BY DEF OneMeaning
    <2>1. AllDefined
      BY DEF NamesInv
    <2>2. DOMAIN createdFuncs_ \cap DOMAIN labels_ = {}
      BY <2>1 DEF NamesInv, AllDefined
    <2>3. (DOMAIN createdFuncs_ \cup DOMAIN labels_)
             \cap ((DOMAIN consts_ \ StructTypes) \cup DOMAIN userFuncs_) = {}
      BY DEF NamesInv, Declared
    <2>4. \A n \in DOMAIN userFuncs_ \cap (DOMAIN consts_ \ StructTypes) :
            DeclaredAfter(n, "extern", "const")
      BY DEF EmbedderNames
    <2> QED
      BY <2>2, <2>3, <2>4 DEF OneMeaning
  <1> QED
    BY <1>1, <1>2, <1>3, ScopesStart, ScopesStep, PTL DEF Spec

-----------------------------------------------------------------------------
\* Where a line stands depends on the lines before it.
LEMMA PlacesSame ==
  ASSUME NEW lines, NEW more, NEW i \in Nat, \A j \in 1 .. i - 1 : more[j] = lines[j]
  PROVE  /\ InStruct(more, i) <=> InStruct(lines, i)
         /\ Level(more, i) = Level(lines, i)
  <1>1. ASSUME NEW k \in 1 .. i
        PROVE  InStruct(more, k) <=> InStruct(lines, k)
    <2>1. \A j \in 1 .. k - 1 : more[j] = lines[j]
      OBVIOUS
    <2>2. \A s \in 1 .. k - 1 : \A e \in s .. k - 1 : more[e] = lines[e]
      BY <2>1
    <2> QED
      BY <2>1, <2>2 DEF InStruct
  <1>2. {f \in 1 .. i - 1 : more[f].cmd = "func" /\ ~InStruct(more, f)}
          = {f \in 1 .. i - 1 : lines[f].cmd = "func" /\ ~InStruct(lines, f)}
    BY <1>1
  <1>3. {r \in 1 .. i - 1 : more[r].cmd = "ret"} = {r \in 1 .. i - 1 : lines[r].cmd = "ret"}
    OBVIOUS
  <1>4. Level(more, i) = Level(lines, i)
    BY <1>2, <1>3 DEF Level
  <1>5. InStruct(more, i) <=> InStruct(lines, i)
    <2>1. CASE i = 0
      BY <2>1 DEF InStruct
    <2>2. CASE i # 0
      BY <1>1, <2>2
    <2> QED
      BY <2>1, <2>2
  <1> QED
    BY <1>4, <1>5

LEMMA OneMore ==
  ASSUME NEW n \in Nat, NEW T, NEW U, T \subseteq 1 .. n,
         U = T \/ U = T \cup {n + 1}
  PROVE  Cardinality(T) \in Nat
         /\ Cardinality(U) = Cardinality(T) + (IF U = T THEN 0 ELSE 1)
  <1>1. IsFiniteSet(T)
    <2>1. 1 \in Int /\ n \in Int /\ T \in SUBSET (1 .. n)
      OBVIOUS
    <2>2. IsFiniteSet(1 .. n)
      BY <2>1, FS_Interval
    <2> QED
      BY <2>1, <2>2, FS_Subset
  <1>2. n + 1 \notin T
    OBVIOUS
  <1> QED
    BY <1>1, <1>2, FS_AddElement, FS_CardinalityType

LEMMA PlaceNext ==
  ASSUME NEW lines, NEW n \in Nat, n > 0
  PROVE  /\ InStruct(lines, n + 1)
              <=> /\ lines[n].cmd # "struct_end"
                  /\ lines[n].cmd = "struct" \/ InStruct(lines, n)
         /\ Level(lines, n) \in Int
         /\ Level(lines, n + 1)
              = Level(lines, n) + (IF lines[n].cmd = "func" /\ ~InStruct(lines, n) THEN 1 ELSE 0)
                                - (IF lines[n].cmd = "ret" THEN 1 ELSE 0)
  <1>0. n + 1 - 1 = n /\ n - 1 \in Nat
    OBVIOUS
  <1>1. InStruct(lines, n + 1)
          => lines[n].cmd # "struct_end" /\ (lines[n].cmd = "struct" \/ InStruct(lines, n))
    <2> SUFFICES ASSUME NEW s \in 1 .. n, lines[s].cmd = "struct",
                        \A e \in s .. n : lines[e].cmd # "struct_end"
                 PROVE  lines[n].cmd # "struct_end"
                        /\ (lines[n].cmd = "struct" \/ InStruct(lines, n))
      BY <1>0 DEF InStruct
    <2>1. n \in s .. n
      OBVIOUS
    <2>2. CASE s = n
      BY <2>1, <2>2
    <2>3. CASE s # n
      <3>1. s \in 1 .. n - 1 /\ \A e \in s .. n - 1 : e \in s .. n
        BY <2>3
      <3> QED
        BY <2>1, <3>1 DEF InStruct
    <2> QED
      BY <2>2, <2>3
  <1>2. ASSUME lines[n].cmd = "struct" PROVE InStruct(lines, n + 1)
    <2>1. n \in 1 .. n /\ \A e \in n .. n : e = n
      OBVIOUS
    <2>2. \A e \in n .. n : lines[e].cmd # "struct_end"
      BY <1>2, <2>1
    <2> QED
      BY <1>0, <1>2, <2>1, <2>2 DEF InStruct
  <1>3. ASSUME lines[n].cmd # "struct_end", InStruct(lines, n) PROVE InStruct(lines, n + 1)
    <2>1. PICK s \in 1 .. n - 1 : /\ lines[s].cmd = "struct"
                                  /\ \A e \in s .. n - 1 : lines[e].cmd # "struct_end"
      BY <1>3 DEF InStruct
    <2>2. s \in 1 .. n /\ \A e \in s .. n : e \in s .. n - 1 \/ e = n
      OBVIOUS
    <2>3. \A e \in s .. n : lines[e].cmd # "struct_end"
      BY <1>3, <2>1, <2>2
    <2> QED
      BY <1>0, <2>1, <2>2, <2>3 DEF InStruct
  <1> DEFINE F(i) == {f \in 1 .. i - 1 : lines[f].cmd = "func" /\ ~InStruct(lines, f)}
             R(i) == {r \in 1 .. i - 1 : lines[r].cmd = "ret"}
  <1>4. \A i : Level(lines, i) = Cardinality(F(i)) - Cardinality(R(i))
    BY DEF Level
  <1>5. /\ F(n) \subseteq 1 .. n - 1
        /\ F(n + 1) = IF lines[n].cmd = "func" /\ ~InStruct(lines, n)
                      THEN F(n) \cup {n} ELSE F(n)
    <2>1. \A f : f \in 1 .. n + 1 - 1 <=> f \in 1 .. n - 1 \/ f = n
      OBVIOUS
    <2> QED
      BY <2>1
  <1>6. /\ R(n) \subseteq 1 .. n - 1
        /\ R(n + 1) = IF lines[n].cmd = "ret" THEN R(n) \cup {n} ELSE R(n)
    <2>1. \A r : r \in 1 .. n + 1 - 1 <=> r \in 1 .. n - 1 \/ r = n
      OBVIOUS
    <2> QED
      BY <2>1
  <1> HIDE DEF F, R
  <1>7. /\ Cardinality(F(n)) \in Nat
        /\ Cardinality(F(n + 1)) = Cardinality(F(n))
              + (IF lines[n].cmd = "func" /\ ~InStruct(lines, n) THEN 1 ELSE 0)
    <2>1. n \notin F(n) /\ n - 1 + 1 = n
      BY <1>5
    <2>2. F(n + 1) = F(n) \/ F(n + 1) = F(n) \cup {n - 1 + 1}
      BY <1>5, <2>1
    <2>3. F(n + 1) = F(n) <=> ~(lines[n].cmd = "func" /\ ~InStruct(lines, n))
      BY <1>5, <2>1
    <2>4. /\ Cardinality(F(n)) \in Nat
          /\ Cardinality(F(n + 1)) = Cardinality(F(n)) + (IF F(n + 1) = F(n) THEN 0 ELSE 1)
      BY <1>0, <1>5, <2>2, OneMore
    <2> QED
      BY <2>3, <2>4
  <1>8. /\ Cardinality(R(n)) \in Nat
        /\ Cardinality(R(n + 1)) = Cardinality(R(n)) + (IF lines[n].cmd = "ret" THEN 1 ELSE 0)
    <2>1. n \notin R(n) /\ n - 1 + 1 = n
      BY <1>6
    <2>2. R(n + 1) = R(n) \/ R(n + 1) = R(n) \cup {n - 1 + 1}
      BY <1>6, <2>1
    <2>3. R(n + 1) = R(n) <=> lines[n].cmd # "ret"
      BY <1>6, <2>1
    <2>4. /\ Cardinality(R(n)) \in Nat
          /\ Cardinality(R(n + 1)) = Cardinality(R(n)) + (IF R(n + 1) = R(n) THEN 0 ELSE 1)
      BY <1>0, <1>6, <2>2, OneMore
    <2> QED
      BY <2>3, <2>4
  <1>9. /\ Level(lines, n) = Cardinality(F(n)) - Cardinality(R(n))
        /\ Level(lines, n + 1) = Cardinality(F(n + 1)) - Cardinality(R(n + 1))
    BY <1>4
  <1> DEFINE up == IF lines[n].cmd = "func" /\ ~InStruct(lines, n) THEN 1 ELSE 0
             down == IF lines[n].cmd = "ret" THEN 1 ELSE 0
  <1>10. up \in Nat /\ down \in Nat
    OBVIOUS
  <1>11. Level(lines, n) \in Int /\ Level(lines, n + 1) = Level(lines, n) + up - down
    <2> HIDE DEF up, down
    <2>1. Cardinality(F(n + 1)) = Cardinality(F(n)) + up
          /\ Cardinality(R(n + 1)) = Cardinality(R(n)) + down
      BY <1>7, <1>8 DEF up, down
    <2> QED
      BY <1>7, <1>8, <1>9, <1>10, <2>1
  <1> QED
    BY <1>1, <1>2, <1>3, <1>11

\* The state of the build is that of the place it has reached, and a global was
\* declared by a line of the file.
PlaceInv ==
  /\ IsFiniteSet(DOMAIN sizes_)
  /\ status = "parsing" => /\ InStruct(file, Len(file) + 1) <=> currStruct_ # 0
                           /\ Level(file, Len(file) + 1) = func_level_
  /\ \A k \in DOMAIN vars_ : k[2] = 0 => \E i \in 1 .. n_line : DeclaresGlobal(file, i, k[1])

Moved(line) ==
  /\ IsFiniteSet(DOMAIN sizes_')
  /\ currStruct_' # 0 <=> /\ line.cmd # "struct_end"
                          /\ line.cmd = "struct" \/ currStruct_ # 0
  /\ func_level_' = func_level_ + (IF line.cmd = "func" /\ currStruct_ = 0 THEN 1 ELSE 0)
                                - (IF line.cmd = "ret" THEN 1 ELSE 0)

LEMMA PlaceSteps ==
  ASSUME NEW line, Read(line), IsFiniteSet(DOMAIN sizes_), func_level_ \in Int
  PROVE  Failing(line) \/ Moved(line)
  <1>a. ASSUME Throw(line) PROVE Failing(line)
    BY <1>a DEF Failing, Throw
  <1>b. ASSUME UNCHANGED <<currStruct_, func_level_, sizes_>>,
               line.cmd \notin {"struct", "struct_end", "ret"},
               line.cmd = "func" => currStruct_ # 0
        PROVE  Moved(line)
    BY <1>b DEF Moved
  <1>1. CASE Null(line)
    BY <1>1, <1>b DEF Null, scopes, types
  <1>2. CASE Func(line)
    BY <1>2, <1>a, <1>b DEF Func, scopes, types
  <1>3. CASE Ret(line)
    BY <1>3 DEF Ret, Moved, types
  <1>4. CASE CFunc(line)
    BY <1>4, <1>a DEF CFunc, Moved, types
  <1>5. CASE PFunc(line)
    BY <1>5, <1>a, <1>b DEF PFunc, scopes, types
  <1>6. CASE Label(line)
    BY <1>6, <1>a, <1>b DEF Label, scopes, types
  <1>7. CASE Const(line)
    BY <1>7, <1>a, <1>b DEF Const, scopes, types
  <1>8. CASE Extern(line)
    BY <1>8, <1>a, <1>b DEF Extern, scopes, types
  <1>9. CASE Import(line)
    BY <1>9, <1>a, <1>b DEF Import, scopes, types
  <1>10. CASE UserCommand(line)
    BY <1>10, <1>a, <1>b DEF UserCommand, scopes, types
  <1>11. CASE Var(line)
    <2>1. Throw(line) \/ (line.cmd = "var" /\ UNCHANGED <<currStruct_, func_level_, types>>)
      BY <1>11 DEF Var
    <2> QED
      BY <1>a, <1>b, <2>1 DEF types
  <1>12. CASE Struct(line)
    <2>1. \/ Throw(line)
          \/ /\ line.cmd = "struct" /\ UNCHANGED func_level_
             /\ currStruct_' = Cardinality(DOMAIN sizes_) + 1
             /\ DOMAIN sizes_' = DOMAIN sizes_ \cup {Cardinality(DOMAIN sizes_) + 1}
      BY <1>12 DEF Struct, Put
    <2>2. Cardinality(DOMAIN sizes_) \in Nat
      BY FS_CardinalityType
    <2> QED
      BY <1>a, <2>1, <2>2, FS_AddElement DEF Moved
  <1>13. CASE StructVar(line)
    <2>1. \/ Throw(line)
          \/ /\ line.cmd = "var" /\ currStruct_ # 0 /\ UNCHANGED <<currStruct_, func_level_>>
             /\ AddVar(line.name, TypeCode(line))
      BY <1>13 DEF StructVar, scopes
    <2>2. ASSUME AddVar(line.name, TypeCode(line)) PROVE DOMAIN sizes_' = DOMAIN sizes_
      BY <2>2 DEF AddVar
    <2> QED
      BY <1>a, <2>1, <2>2 DEF Moved
  <1>14. CASE StructCFunc(line)
    BY <1>14, <1>a, <1>b DEF StructCFunc
  <1>15. CASE StructPFunc(line)
    <2>1. \/ Throw(line) \/ Ends(line, "crashed")
          \/ line.cmd = "pfunc" /\ UNCHANGED <<scopes, sizes_>>
      BY <1>15 DEF StructPFunc
    <2> QED
      BY <1>a, <1>b, <2>1 DEF Failing, scopes
  <1>16. CASE EndStruct(line)
    BY <1>16 DEF EndStruct, Moved, types
  <1> QED
    BY <1>1, <1>2, <1>3, <1>4, <1>5, <1>6, <1>7, <1>8, <1>9, <1>10, <1>11, <1>12,
       <1>13, <1>14, <1>15, <1>16 DEF Read

\* A global that was declared stays declared.
LEMMA GlobalsStill ==
  ASSUME ReadOK, NEW line, file' = Append(file, line), n_line' \in {n_line, n_line + 1}
  PROVE  /\ \A i \in 1 .. n_line : i \in 1 .. n_line' /\
              \A name : DeclaresGlobal(file, i, name) => DeclaresGlobal(file', i, name)
         /\ \A name : DeclaredTwice(name) => DeclaredTwice(name)'
  <1>0. n_line \in Nat /\ Len(file) \in Nat /\ n_line <= Len(file)
    BY Counted DEF ReadOK
  <1>1. \A i \in 1 .. Len(file) : file'[i] = file[i]
    BY AppendIsSeq DEF ReadOK
  <1>2. ASSUME NEW i \in 1 .. n_line, NEW name, DeclaresGlobal(file, i, name)
        PROVE  DeclaresGlobal(file', i, name)
    <2>1. i \in Nat /\ file'[i] = file[i] /\ \A j \in 1 .. i - 1 : file'[j] = file[j]
      BY <1>0, <1>1
    <2>2. InStruct(file', i) <=> InStruct(file, i)
      BY <2>1, PlacesSame
    <2>3. Level(file', i) = Level(file, i)
      BY <2>1, PlacesSame
    <2> QED
      BY <1>2, <2>1, <2>2, <2>3 DEF DeclaresGlobal
  <1>3. \A i \in 1 .. n_line : i \in 1 .. n_line'
    BY <1>0
  <1>4. ASSUME NEW name, DeclaredTwice(name)
        PROVE  DeclaredTwice(name)'
    <2>1. PICK i, j \in 1 .. n_line : /\ i < j /\ DeclaresGlobal(file, i, name)
                                      /\ DeclaresGlobal(file, j, name)
      BY <1>4 DEF DeclaredTwice
    <2>2. DeclaresGlobal(file', i, name) /\ DeclaresGlobal(file', j, name)
      BY <1>2, <2>1
    <2> QED
      BY <1>3, <2>1, <2>2 DEF DeclaredTwice
  <1> QED
    BY <1>2, <1>3, <1>4

\* The line just stored declares a global.
LEMMA GlobalHere ==
  ASSUME ReadOK, VarsOK, PlaceInv, status = "parsing", NEW line, StoredLine(line), line.cmd = "var",
         currStruct_ = 0, func_level_ = 0
  PROVE  n_line' = n_line + 1 /\ DeclaresGlobal(file', n_line + 1, line.name)
  <1> DEFINE i == n_line + 1
  <1>1. PICK cmd, arg, arg2 : PushData(line, cmd, arg, arg2)
    BY DEF StoredLine
  <1>2. /\ n_line' = i /\ i \in Nat /\ i = Len(file) + 1
        /\ \A j \in 1 .. i - 1 : file'[j] = file[j]
        /\ file'[i] = line
    BY <1>1, Stored, Counted DEF ReadOK
  <1> HIDE DEF i
  <1>3. InStruct(file', i) <=> InStruct(file, i)
    BY <1>2, PlacesSame
  <1>4. Level(file', i) = Level(file, i)
    BY <1>2, PlacesSame
  <1>5. ~InStruct(file, i) /\ Level(file, i) = 0
    BY <1>2 DEF PlaceInv
  <1>6. DeclaresGlobal(file', i, line.name)
    BY <1>2, <1>3, <1>4, <1>5 DEF DeclaresGlobal
  <1> QED
    BY <1>2, <1>6 DEF i

LEMMA PlaceStep ==
  ASSUME ScopesInv, PlaceInv, [Next]_vars
  PROVE  PlaceInv'
  <1>0. VarsOK /\ ReadOK /\ n_line \in Nat
    BY Counted DEF ScopesInv
  <1>1. CASE UNCHANGED vars
    <2>1. UNCHANGED <<file, args_, vars_, sizes_, currStruct_, func_level_, status>>
      BY <1>1 DEF vars, scopes, types
    <2> QED
      BY <2>1 DEF PlaceInv, n_line
  <1>2. CASE status = "parsing" /\ ReachEnd
    <2>1. UNCHANGED <<file, vars_, sizes_>> /\ n_line' = n_line /\ status' # "parsing"
      BY <1>0, <1>2, AtEnd DEF types
    <2> QED
      BY <2>1 DEF PlaceInv
  <1>3. ASSUME status = "parsing", NEW line, Read(line)
        PROVE  PlaceInv'
    <2>1. CASE Failing(line)
      <3>1. /\ n_line' = n_line /\ status' # "parsing" /\ UNCHANGED <<vars_, sizes_>>
            /\ file' = Append(file, line)
        BY <1>0, <1>3, <2>1, Ended DEF Failing, Ends, types
      <3> QED
        BY <1>0, <3>1, GlobalsStill DEF PlaceInv
    <2>2. CASE Moved(line) /\ StoredLine(line)
      <3>1. PICK cmd, arg, arg2 : PushData(line, cmd, arg, arg2)
        BY <2>2 DEF StoredLine
      <3> DEFINE i == Len(file) + 1
      <3>2. /\ n_line' = n_line + 1 /\ file' = Append(file, line) /\ Len(file') = i
            /\ i \in Nat /\ i > 0 /\ file'[i] = line /\ i = n_line + 1
            /\ \A j \in 1 .. i - 1 : file'[j] = file[j]
        BY <1>0, <1>3, <3>1, Stored, Counted DEF PushData, ReadOK
      <3>3. (InStruct(file, i) <=> currStruct_ # 0) /\ Level(file, i) = func_level_
        BY <1>3 DEF PlaceInv
      <3> HIDE DEF i
      <3>4. (InStruct(file', i) <=> currStruct_ # 0)
        BY <3>2, <3>3, PlacesSame
      <3>5. Level(file', i) = func_level_
        BY <3>2, <3>3, PlacesSame
      <3>6. InStruct(file', i + 1) <=> currStruct_' # 0
        BY <2>2, <3>2, <3>4, PlaceNext DEF Moved
      <3>7. Level(file', i + 1) = func_level_'
        <4>1. Level(file', i + 1) = Level(file', i)
                + (IF line.cmd = "func" /\ ~InStruct(file', i) THEN 1 ELSE 0)
                - (IF line.cmd = "ret" THEN 1 ELSE 0)
          BY <3>2, PlaceNext
        <4> QED
          BY <2>2, <3>4, <3>5, <4>1 DEF Moved
      <3>8. \A j \in 1 .. n_line : j \in 1 .. n_line' /\
              \A name : DeclaresGlobal(file, j, name) => DeclaresGlobal(file', j, name)
        BY <1>0, <3>2, GlobalsStill
      <3>9. ASSUME NEW k \in DOMAIN vars_', k[2] = 0
            PROVE  \E j \in 1 .. n_line' : DeclaresGlobal(file', j, k[1])
        <4>1. CASE k \in DOMAIN vars_
          BY <3>8, <3>9, <4>1 DEF PlaceInv
        <4>2. CASE k \notin DOMAIN vars_
          <5>1. Added(line) /\ k = Key(line)
            <6>1. Failing(line) \/ Plainly(line) \/ Opened(line) => UNCHANGED vars_
              BY DEF Failing, Ends, Plainly, Opened
            <6>2. Ret(line) => DOMAIN vars_' = DOMAIN vars_
              BY DEF Ret, ActivateDieRequests
            <6>3. Rebuilt(line) => DOMAIN vars_' = DOMAIN vars_
              BY DEF Rebuilt
            <6>4. Added(line)
              BY <1>0, <1>3, <3>9, <4>2, <6>1, <6>2, <6>3, ReadSteps
            <6>5. DOMAIN vars_' = DOMAIN vars_ \cup {Key(line)}
              BY <6>4 DEF Added, Put
            <6> QED
              BY <3>9, <4>2, <6>4, <6>5
          <5>2. line.cmd = "var" /\ currStruct_ = 0 /\ func_level_ = 0 /\ k[1] = line.name
            BY <3>9, <5>1 DEF Added, Key
          <5>3. DeclaresGlobal(file', n_line + 1, k[1])
            BY <1>0, <1>3, <2>2, <5>2, GlobalHere
          <5> QED
            BY <1>0, <3>2, <5>3
        <4> QED
          BY <4>1, <4>2
      <3> QED
        BY <2>2, <3>2, <3>6, <3>7, <3>9 DEF PlaceInv, Moved
    <2>3. Failing(line) \/ Moved(line)
      BY <1>0, <1>3, PlaceSteps DEF VarsOK, PlaceInv
    <2> QED
      BY <1>3, <2>1, <2>2, <2>3, NameSteps
  <1> QED
    BY <1>1, <1>2, <1>3 DEF Next

LEMMA PlaceStart ==
  ASSUME Init
  PROVE  PlaceInv
  <1>1. /\ Len(file) = 0 /\ DOMAIN vars_ = {} /\ currStruct_ = 0 /\ func_level_ = 0
        /\ DOMAIN sizes_ = 1 .. 5
    BY DEF Init, ScalarSizes
  <1>2. ~InStruct(file, 1)
    BY DEF InStruct
  <1>3. Level(file, 1) = 0
    <2>1. {f \in 1 .. 1 - 1 : file[f].cmd = "func" /\ ~InStruct(file, f)} = {}
          /\ {r \in 1 .. 1 - 1 : file[r].cmd = "ret"} = {}
      OBVIOUS
    <2> QED
      BY <2>1, FS_EmptySet DEF Level
  <1>4. IsFiniteSet(DOMAIN sizes_)
    <2>1. 1 \in Int /\ 5 \in Int
      OBVIOUS
    <2>2. IsFiniteSet(1 .. 5)
      BY <2>1, FS_Interval
    <2> QED
      BY <1>1, <2>2
  <1>5. Len(file) + 1 = 1
    BY <1>1
  <1> QED
    BY <1>1, <1>2, <1>3, <1>4, <1>5 DEF PlaceInv

-----------------------------------------------------------------------------
\* The numbers of the variables.
LEMMA Renumbered ==
  ASSUME VarsOK, StorageApart, DOMAIN vars_' = DOMAIN vars_,
         \A k \in DOMAIN vars_ : vars_'[k].num = vars_[k].num,
         \A name : DeclaredTwice(name) => DeclaredTwice(name)'
  PROVE  StorageApart'
  <1>1. \A k \in DOMAIN vars_' : vars_'[k].num \in 0 .. Cardinality(DOMAIN vars_') - 1
    BY DEF StorageApart
  <1>2. ASSUME NEW j \in DOMAIN vars_', NEW k \in DOMAIN vars_', j # k,
               vars_'[j].num = vars_'[k].num
        PROVE  \E g \in {j, k} : g[2] = 0 /\ DeclaredTwice(g[1])'
    <2>1. PICK g \in {j, k} : g[2] = 0 /\ DeclaredTwice(g[1])
      BY <1>2 DEF StorageApart
    <2>2. DeclaredTwice(g[1])'
      BY <2>1
    <2> QED
      BY <2>1, <2>2
  <1> QED
    BY <1>1, <1>2 DEF StorageApart

LEMMA StorageAdded ==
  ASSUME ReadOK, VarsOK, PlaceInv, StorageApart, EntryFirst, n_line \in Nat,
         status = "parsing", NEW line, Added(line)
  PROVE  StorageApart'
  <1> DEFINE key == Key(line)
             size == Cardinality(DOMAIN vars_)
             size1 == Cardinality(DOMAIN vars_')
  <1>1. /\ DOMAIN vars_' = DOMAIN vars_ \cup {key}
        /\ \A k \in DOMAIN vars_ : k # key => vars_'[k] = vars_[k]
        /\ vars_'[key].num = NewNumber(key)
    BY DEF Added, Put
  <1>a. \A name : DeclaredTwice(name) => DeclaredTwice(name)'
    <2>1. PICK cmd, arg, arg2 : PushData(line, cmd, arg, arg2)
      BY DEF Added
    <2>2. file' = Append(file, line) /\ n_line' = n_line + 1
      BY <2>1, Stored DEF PushData
    <2> QED
      BY <2>2, GlobalsStill
  <1>2. ASSUME key \in DOMAIN vars_
        PROVE  key[2] = 0 /\ DeclaredTwice(line.name)'
    <2>1. vars_[key].die \in Int /\ vars_[key].die < n_line
      BY <1>2 DEF VarsOK
    <2>2. key[2] = func_level_ /\ key[1] = line.name
      BY DEF Key
    <2>3. key[2] = 0 /\ func_level_ = 0
      BY <1>2, <2>1, <2>2 DEF Added
    <2>4. PICK i \in 1 .. n_line : DeclaresGlobal(file, i, line.name)
      BY <1>2, <2>2, <2>3 DEF PlaceInv
    <2>5. StoredLine(line) /\ line.cmd = "var" /\ currStruct_ = 0
      BY DEF Added, StoredLine
    <2>6. n_line' = n_line + 1 /\ DeclaresGlobal(file', n_line + 1, line.name)
      BY <2>2, <2>3, <2>5, GlobalHere
    <2>7. DeclaresGlobal(file', i, line.name)
      <3>1. file' = Append(file, line)
        BY <2>5 DEF StoredLine, PushData
      <3> QED
        BY <2>4, <2>6, <3>1, GlobalsStill
    <2>8. i \in 1 .. n_line' /\ n_line + 1 \in 1 .. n_line' /\ i < n_line + 1
      BY <2>6
    <2> DEFINE m == n_line + 1
    <2>9. m \in 1 .. n_line' /\ i < m /\ DeclaresGlobal(file', m, line.name)
      BY <2>6, <2>8
    <2> HIDE DEF m
    <2>10. DeclaredTwice(line.name)'
      BY <2>7, <2>8, <2>9 DEF DeclaredTwice
    <2> QED
      BY <2>3, <2>10
  <1>3. /\ size \in Nat /\ size1 \in Nat
        /\ size1 = IF key \in DOMAIN vars_ THEN size ELSE size + 1
    BY <1>1, FS_AddElement, FS_CardinalityType DEF VarsOK
  <1>4. key \in DOMAIN vars_ => size > 0
    BY FS_EmptySet, FS_CardinalityType DEF VarsOK
  <1>5. NewNumber(key) = size1 - 1
    BY <1>1 DEF NewNumber
  <1>6. \A k \in DOMAIN vars_ : vars_[k].num \in 0 .. size - 1
    BY DEF StorageApart
  <1>b. key[1] = line.name
    BY DEF Key
  <1> HIDE DEF key, size, size1
  <1>7. ASSUME NEW k \in DOMAIN vars_'
        PROVE  vars_'[k].num \in 0 .. size1 - 1
    <2>1. CASE k = key
      BY <1>1, <1>3, <1>4, <1>5, <2>1
    <2>2. CASE k # key
      <3>1. vars_'[k].num \in 0 .. size - 1
        BY <1>1, <1>6, <2>2
      <3> QED
        BY <1>3, <3>1
    <2> QED
      BY <2>1, <2>2
  <1>8. ASSUME NEW k \in DOMAIN vars_, k # key, vars_'[k].num = vars_'[key].num
        PROVE  key[2] = 0 /\ DeclaredTwice(line.name)'
    <2>1. vars_[k].num = size1 - 1 /\ vars_[k].num \in 0 .. size - 1
      BY <1>1, <1>5, <1>6, <1>8
    <2>2. key \in DOMAIN vars_
      BY <1>3, <2>1
    <2> QED
      BY <1>2, <2>2
  <1>9. ASSUME NEW j \in DOMAIN vars_', NEW k \in DOMAIN vars_', j # k,
               vars_'[j].num = vars_'[k].num
        PROVE  \E g \in {j, k} : g[2] = 0 /\ DeclaredTwice(g[1])'
    <2>1. CASE j = key \/ k = key
      <3>1. key \in {j, k} /\ key[2] = 0 /\ DeclaredTwice(line.name)'
        BY <1>1, <1>8, <1>9, <2>1
      <3> QED
        BY <1>b, <3>1
    <2>2. CASE j # key /\ k # key
      <3>1. PICK g \in {j, k} : g[2] = 0 /\ DeclaredTwice(g[1])
        BY <1>1, <1>9, <2>2 DEF StorageApart
      <3> QED
        BY <1>a, <3>1
    <2> QED
      BY <2>1, <2>2
  <1> QED
    BY <1>7, <1>9 DEF StorageApart, size1

LEMMA RetRenumbers ==
  ASSUME VarsOK, NEW line, Ret(line)
  PROVE  /\ DOMAIN vars_' = DOMAIN vars_
         /\ \A k \in DOMAIN vars_ : /\ vars_'[k].num = vars_[k].num
                                    /\ vars_'[k].typeCode = vars_[k].typeCode
  <1> DEFINE now == SignExtend(n_line, 2)
  <1>1. vars_' = [k \in DOMAIN vars_ |-> IF k \in die_requests_
                                         THEN [vars_[k] EXCEPT !.die = now]
                                         ELSE vars_[k]]
    BY DEF Ret, ActivateDieRequests
  <1> HIDE DEF now
  <1>2. ASSUME NEW k \in DOMAIN vars_
        PROVE  vars_'[k].num = vars_[k].num /\ vars_'[k].typeCode = vars_[k].typeCode
    <2>1. vars_[k] \in [num : {vars_[k].num}, die : Int, typeCode : {vars_[k].typeCode}]
      BY DEF VarsOK
    <2>2. vars_'[k] = vars_[k] \/ vars_'[k] = [vars_[k] EXCEPT !.die = now]
      BY <1>1
    <2> QED
      BY <2>1, <2>2
  <1> QED
    BY <1>1, <1>2

LEMMA RebuiltRenumbers ==
  ASSUME VarsOK, NEW line, Rebuilt(line)
  PROVE  /\ DOMAIN vars_' = DOMAIN vars_
         /\ \A k \in DOMAIN vars_ : /\ vars_'[k].num = vars_[k].num
                                    /\ vars_'[k].typeCode = vars_[k].typeCode
  <1> DEFINE key == Key(line)
  <1>1. key \in DOMAIN vars_ /\ vars_' = [vars_ EXCEPT ![key].die = -1]
    BY DEF Rebuilt
  <1>2. vars_[key] \in [num : {vars_[key].num}, die : Int, typeCode : {vars_[key].typeCode}]
    BY <1>1 DEF VarsOK
  <1> HIDE DEF key
  <1>3. vars_'[key] = [vars_[key] EXCEPT !.die = -1]
    BY <1>1
  <1>4. vars_'[key].num = vars_[key].num /\ vars_'[key].typeCode = vars_[key].typeCode
    BY <1>2, <1>3
  <1>5. DOMAIN vars_' = DOMAIN vars_ /\ \A k \in DOMAIN vars_ : k # key => vars_'[k] = vars_[k]
    BY <1>1
  <1> QED
    BY <1>4, <1>5

LEMMA StorageStep ==
  ASSUME EntryFirst, ScopesInv, PlaceInv, StorageApart, [Next]_vars
  PROVE  StorageApart'
  <1>0. VarsOK /\ ReadOK /\ n_line \in Nat
    BY Counted DEF ScopesInv
  <1>1. ASSUME status = "parsing", NEW line, Read(line)
        PROVE  StorageApart'
    <2>1. \A name : DeclaredTwice(name) => DeclaredTwice(name)'
      <3>1. file' = Append(file, line) /\ n_line' \in {n_line, n_line + 1}
        <4>1. CASE Failing(line)
          BY <1>0, <1>1, <4>1, Ended DEF Failing, Ends
        <4>2. CASE StoredLine(line)
          <5>1. PICK cmd, arg, arg2 : PushData(line, cmd, arg, arg2)
            BY <4>2 DEF StoredLine
          <5> QED
            BY <1>0, <1>1, <5>1, Stored DEF PushData
        <4> QED
          BY <1>1, <4>1, <4>2, NameSteps
      <3> QED
        BY <1>0, <3>1, GlobalsStill
    <2>2. CASE Failing(line) \/ Plainly(line) \/ Opened(line)
      <3>1. UNCHANGED vars_
        BY <2>2 DEF Failing, Ends, Plainly, Opened
      <3> QED
        BY <1>0, <2>1, <3>1, Renumbered
    <2>3. CASE Ret(line)
      BY <1>0, <2>1, <2>3, RetRenumbers, Renumbered
    <2>4. CASE Rebuilt(line)
      BY <1>0, <2>1, <2>4, RebuiltRenumbers, Renumbered
    <2> QED
      BY <1>0, <1>1, <2>2, <2>3, <2>4, ReadSteps, StorageAdded
  <1>2. CASE UNCHANGED vars \/ (status = "parsing" /\ ReachEnd)
    <2>1. UNCHANGED <<file, vars_>> /\ n_line' = n_line
      <3>1. CASE UNCHANGED vars
        BY <3>1 DEF vars, n_line
      <3>2. CASE status = "parsing" /\ ReachEnd
        BY <1>0, <3>2, AtEnd
      <3> QED
        BY <1>2, <3>1, <3>2
    <2>2. \A name : DeclaredTwice(name) => DeclaredTwice(name)'
      BY <2>1 DEF DeclaredTwice
    <2> QED
      BY <1>0, <2>1, <2>2, Renumbered
  <1> QED
    BY <1>1, <1>2 DEF Next

\* The table that ScriptLoader_t makes has a place for every variable, and two share
\* one only if one is a global that the script declares twice, when
\* vars_[key] = {size () - 1} makes the entry first, as a compiler does under which
\* test.txt loads: StorageApart.
THEOREM PlacesApart ==
  ASSUME EntryFirst
  PROVE  Spec => []StorageApart
  <1>1. Init => StorageApart
    <2> SUFFICES ASSUME Init PROVE StorageApart
      OBVIOUS
    <2>1. DOMAIN vars_ = {}
      BY DEF Init
    <2> QED
      BY <2>1 DEF StorageApart
  <1>2. ScopesInv /\ PlaceInv /\ [Next]_vars => PlaceInv'
    BY PlaceStep
  <1>3. (ScopesInv /\ PlaceInv /\ StorageApart) /\ [Next]_vars => StorageApart'
    BY StorageStep
  <1> QED
    BY <1>1, <1>2, <1>3, ScopesStart, ScopesStep, PlaceStart, PTL DEF Spec

-----------------------------------------------------------------------------
\* The types and their fields.
NumTypes == Cardinality(DOMAIN sizes_)

ConstsOK == \A n \in DOMAIN consts_ : consts_[n] \in Int

SizesOK ==
  /\ NumTypes \in Nat /\ DOMAIN sizes_ = 1 .. NumTypes
  /\ \A c \in DOMAIN sizes_ : sizes_[c] \in Nat
  /\ currStruct_ \in {0, NumTypes}

FieldsOK ==
  \A s \in DOMAIN mvars_ :
    /\ s \in DOMAIN sizes_
    /\ \A f \in DOMAIN mvars_[s] : mvars_[s][f] \in [offset : Nat, typeCode : Int]

\* Where a field ends.
End(s, f) == mvars_[s][f].offset + SizeOf(mvars_[s][f].typeCode)

Placed ==
  \A s \in DOMAIN mvars_ : \A f \in Sized(s) :
    /\ End(s, f) <= sizes_[s]
    /\ \A g \in Sized(s) : f # g => \/ End(s, f) <= mvars_[s][g].offset
                                    \/ End(s, g) <= mvars_[s][f].offset

TypesInv == ConstsOK /\ SizesOK /\ FieldsOK /\ Placed

\* The steps, by what they do to the types.
SameTypes == UNCHANGED <<sizes_, mvars_, currStruct_>>

Opens(line) ==
  /\ \E n \in {NumTypes + 1} : sizes_' = Put(sizes_, n, 0) /\ currStruct_' = n
  /\ UNCHANGED mvars_

Grows(line) ==
  /\ line.cmd = "var"
  /\ currStruct_ # 0 /\ UNCHANGED currStruct_
  /\ AddVar(line.name, TypeCode(line))

Closes == currStruct_' = 0 /\ UNCHANGED <<sizes_, mvars_>>

LEMMA TypeSteps ==
  ASSUME NEW line, Read(line)
  PROVE  SameTypes \/ Opens(line) \/ Grows(line) \/ Closes
  <1>a. ASSUME NEW how, Ends(line, how) PROVE SameTypes
    BY <1>a DEF Ends, SameTypes, scopes, types
  <1>1. CASE Null(line)
    BY <1>1 DEF Null, SameTypes, scopes, types
  <1>2. CASE Func(line)
    BY <1>2, <1>a DEF Func, Throw, SameTypes, scopes, types
  <1>3. CASE Ret(line)
    BY <1>3 DEF Ret, SameTypes, types
  <1>4. CASE CFunc(line)
    BY <1>4, <1>a DEF CFunc, Throw, SameTypes, types
  <1>5. CASE PFunc(line)
    BY <1>5, <1>a DEF PFunc, Throw, SameTypes, scopes, types
  <1>6. CASE Label(line)
    BY <1>6, <1>a DEF Label, Throw, SameTypes, scopes, types
  <1>7. CASE Const(line)
    BY <1>7, <1>a DEF Const, Throw, SameTypes, scopes, types
  <1>8. CASE Extern(line)
    BY <1>8, <1>a DEF Extern, Throw, SameTypes, scopes, types
  <1>9. CASE Import(line)
    BY <1>9, <1>a DEF Import, Throw, SameTypes, scopes, types
  <1>10. CASE UserCommand(line)
    BY <1>10, <1>a DEF UserCommand, Throw, SameTypes, scopes, types
  <1>11. CASE Var(line)
    <2>1. Throw(line) \/ UNCHANGED <<currStruct_, types>>
      BY <1>11 DEF Var
    <2> QED
      BY <1>a, <2>1 DEF Throw, SameTypes, types
  <1>12. CASE Struct(line)
    BY <1>12, <1>a DEF Struct, Throw, Opens, NumTypes
  <1>13. CASE StructVar(line)
    <2>1. \/ Throw(line)
          \/ /\ line.cmd = "var" /\ currStruct_ # 0 /\ UNCHANGED scopes
             /\ AddVar(line.name, TypeCode(line))
      BY <1>13 DEF StructVar
    <2> QED
      BY <1>a, <2>1 DEF Throw, Grows, scopes
  <1>14. CASE StructCFunc(line)
    BY <1>14, <1>a DEF StructCFunc, Throw, SameTypes
  <1>15. CASE StructPFunc(line)
    <2>1. Throw(line) \/ Ends(line, "crashed") \/ UNCHANGED <<scopes, sizes_, mvars_>>
      BY <1>15 DEF StructPFunc
    <2> QED
      BY <1>a, <2>1 DEF Throw, SameTypes, scopes
  <1>16. CASE EndStruct(line)
    BY <1>16 DEF EndStruct, Closes, types
  <1> QED
    BY <1>1, <1>2, <1>3, <1>4, <1>5, <1>6, <1>7, <1>8, <1>9, <1>10, <1>11, <1>12,
       <1>13, <1>14, <1>15, <1>16 DEF Read

LEMMA TypeCodeInt ==
  ASSUME ConstsOK, NEW line, Written(line.type)
  PROVE  TypeCode(line) \in Int
  <1>1. TypeCode(line) = IF Typed(line.type).kind = "num" THEN Typed(line.type).num ELSE 4
    BY DEF TypeCode, Typed, TYPE_QWORD
  <1>2. ASSUME Typed(line.type).kind = "num"
        PROVE  Typed(line.type).num \in Int
    <2>1. CASE line.type.kind = "num" /\ Typed(line.type) = line.type
      BY <2>1 DEF Written
    <2>2. CASE \E name \in DOMAIN consts_ : Typed(line.type) = Num(consts_[name])
      BY <2>2 DEF ConstsOK, Num
    <2> QED
      BY <1>2, <2>1, <2>2, BecomesNumber
  <1> QED
    BY <1>1, <1>2

LEMMA SizesAreNat ==
  ASSUME SizesOK, NEW c
  PROVE  SizeOf(c) \in Nat
  BY DEF SizesOK, SizeOf

LEMMA ConstsStep ==
  ASSUME ConstsOK, SizesOK, [Next]_vars
  PROVE  ConstsOK'
  <1>1. CASE UNCHANGED consts_
    BY <1>1 DEF ConstsOK
  <1>2. ASSUME NEW name, NEW n \in Int, consts_' = Put(consts_, name, n)
        PROVE  ConstsOK'
    BY <1>2 DEF ConstsOK, Put
  <1>3. ASSUME NEW line, Read(line)
        PROVE  ConstsOK'
    <2>1. CASE Failing(line) \/ SameNames \/ Announced(line)
      BY <1>1, <2>1 DEF Failing, Ends, names, SameNames, Announced
    <2>2. CASE Introduced(line)
      BY <1>1, <1>2, <2>2 DEF Introduced
    <2>3. CASE Structured(line)
      <3>1. Cardinality(DOMAIN sizes_) + 1 \in Int
        BY DEF SizesOK, NumTypes
      <3> QED
        BY <1>2, <2>3, <3>1 DEF Structured
    <2> QED
      BY <1>3, <2>1, <2>2, <2>3, NameSteps
  <1>4. CASE UNCHANGED vars \/ ReachEnd
    BY <1>1, <1>4 DEF vars, names, ReachEnd
  <1> QED
    BY <1>3, <1>4 DEF Next

LEMMA TypesSame ==
  ASSUME SizesOK, FieldsOK, Placed, SameTypes \/ Closes
  PROVE  SizesOK' /\ FieldsOK' /\ Placed'
  <1>1. UNCHANGED <<sizes_, mvars_>> /\ currStruct_' \in {currStruct_, 0}
    BY DEF SameTypes, Closes
  <1>2. SizesOK'
    BY <1>1 DEF SizesOK, NumTypes
  <1>3. FieldsOK'
    BY <1>1 DEF FieldsOK
  <1>4. Placed'
    BY <1>1 DEF Placed, Sized, End, SizeOf
  <1> QED
    BY <1>2, <1>3, <1>4

\* Sizes that change only at or above the struct whose fields are looked at.
LEMMA PlacedBelow ==
  ASSUME Placed, FieldsOK, NEW s \in DOMAIN mvars_, NEW n \in Nat, s < n, s \in Int,
         mvars_'[s] = mvars_[s], sizes_'[s] = sizes_[s],
         \A c \in Int : c < n => SizeOf(c)' = SizeOf(c)
  PROVE  \A f \in Sized(s)' :
           /\ End(s, f)' <= sizes_'[s]
           /\ \A g \in Sized(s)' : f # g => \/ End(s, f)' <= mvars_'[s][g].offset
                                            \/ End(s, g)' <= mvars_'[s][f].offset
  <1>1. Sized(s)' = Sized(s)
    BY DEF Sized
  <1>2. ASSUME NEW f \in Sized(s)
        PROVE  End(s, f)' = End(s, f)
    <2>0. PICK c : c = mvars_[s][f].typeCode
      OBVIOUS
    <2>1. c \in Int /\ c < n
      BY <2>0 DEF Sized, FieldsOK
    <2>2. mvars_'[s][f].typeCode = c /\ mvars_'[s][f].offset = mvars_[s][f].offset
      BY <2>0
    <2>3. SizeOf(c)' = SizeOf(c)
      BY <2>1
    <2> QED
      BY <2>0, <2>2, <2>3 DEF End
  <1> QED
    BY <1>1, <1>2 DEF Placed

LEMMA TypesOpened ==
  ASSUME SizesOK, FieldsOK, Placed, NEW line, Opens(line)
  PROVE  SizesOK' /\ FieldsOK' /\ Placed'
  <1> DEFINE n == NumTypes + 1
  <1>1. sizes_' = Put(sizes_, n, 0) /\ currStruct_' = n /\ mvars_' = mvars_
    BY DEF Opens
  <1>2. NumTypes \in Nat /\ DOMAIN sizes_ = 1 .. NumTypes /\ n \in Nat /\ n \notin DOMAIN sizes_
    BY DEF SizesOK
  <1>3. /\ DOMAIN sizes_' = DOMAIN sizes_ \cup {n} /\ sizes_'[n] = 0
        /\ \A c \in DOMAIN sizes_ : sizes_'[c] = sizes_[c]
    BY <1>1, <1>2 DEF Put
  <1>4. DOMAIN sizes_' = 1 .. n
    BY <1>2, <1>3
  <1>5. NumTypes' = n
    <2>1. Cardinality(1 .. n) = n
      BY <1>2, FS_Interval
    <2> QED
      BY <1>4, <2>1 DEF NumTypes
  <1> HIDE DEF n
  <1>6. SizesOK'
    BY <1>1, <1>2, <1>3, <1>4, <1>5 DEF SizesOK
  <1>7. FieldsOK'
    BY <1>1, <1>3 DEF FieldsOK
  <1>8. \A c \in Int : c < n => SizeOf(c)' = SizeOf(c)
    BY <1>3 DEF SizeOf
  <1>9. ASSUME NEW s \in DOMAIN mvars_'
        PROVE  \A f \in Sized(s)' :
                 /\ End(s, f)' <= sizes_'[s]
                 /\ \A g \in Sized(s)' : f # g => \/ End(s, f)' <= mvars_'[s][g].offset
                                                  \/ End(s, g)' <= mvars_'[s][f].offset
    <2>1. s \in DOMAIN mvars_ /\ s \in DOMAIN sizes_ /\ mvars_'[s] = mvars_[s]
      BY <1>1 DEF FieldsOK
    <2>2. s \in Int /\ s < n /\ sizes_'[s] = sizes_[s]
      BY <1>2, <1>3, <2>1 DEF n
    <2> QED
      BY <1>2, <1>8, <2>1, <2>2, PlacedBelow
  <1>10. Placed'
    BY <1>9 DEF Placed
  <1> QED
    BY <1>6, <1>7, <1>10

LEMMA TypesGrown ==
  ASSUME SizesOK, FieldsOK, Placed, NEW line, Grows(line), TypeCode(line) \in Int
  PROVE  SizesOK' /\ FieldsOK' /\ Placed'
  <1>a. PICK cur, type, var : cur = currStruct_ /\ type = TypeCode(line) /\ var = line.name
    OBVIOUS
  <1>b. PICK old, new, bytes : /\ old = Fields(cur) /\ bytes = SizeOf(type)
                               /\ new = [offset |-> sizes_[cur], typeCode |-> type]
    OBVIOUS
  <1>1. /\ cur \in DOMAIN sizes_ /\ cur \in Int /\ cur = NumTypes /\ cur > 0
        /\ currStruct_' = cur /\ NumTypes \in Nat /\ DOMAIN sizes_ = 1 .. NumTypes
        /\ \A c \in DOMAIN sizes_ : c \in Int /\ c <= cur
    BY <1>a DEF Grows, SizesOK
  <1>2. sizes_' = [sizes_ EXCEPT ![cur] = @ + bytes] /\ mvars_' = Put(mvars_, cur, Put(old, var, new))
    BY <1>a, <1>b DEF Grows, AddVar
  <1>3. type \in Int /\ bytes \in Nat /\ sizes_[cur] \in Nat
    BY <1>1, <1>a, <1>b, SizesAreNat DEF SizesOK
  <1>4. new \in [offset : Nat, typeCode : Int] /\ new.offset = sizes_[cur] /\ new.typeCode = type
    BY <1>3, <1>b
  <1>5. \A f \in DOMAIN old : cur \in DOMAIN mvars_ /\ f \in DOMAIN mvars_[cur] /\ old = mvars_[cur]
    BY <1>b DEF Fields
  <1>6. /\ DOMAIN sizes_' = DOMAIN sizes_
        /\ sizes_'[cur] = sizes_[cur] + bytes
        /\ \A c \in DOMAIN sizes_ : c # cur => sizes_'[c] = sizes_[c]
    BY <1>1, <1>2
  <1>7. /\ DOMAIN mvars_' = DOMAIN mvars_ \cup {cur}
        /\ \A s \in DOMAIN mvars_ : s # cur => mvars_'[s] = mvars_[s]
        /\ DOMAIN mvars_'[cur] = DOMAIN old \cup {var}
        /\ mvars_'[cur][var] = new
        /\ \A f \in DOMAIN old : f # var => mvars_'[cur][f] = old[f]
    BY <1>2 DEF Put
  <1>8. SizesOK'
    <2>1. NumTypes' = NumTypes
      BY <1>6 DEF NumTypes
    <2>2. \A c \in DOMAIN sizes_ : sizes_'[c] \in Nat
      BY <1>3, <1>6 DEF SizesOK
    <2> QED
      BY <1>1, <1>6, <2>1, <2>2 DEF SizesOK
  <1>9. \A c \in Int : c < cur => SizeOf(c)' = SizeOf(c)
    BY <1>1, <1>6 DEF SizeOf
  <1>10. ASSUME NEW f \in DOMAIN old, f # var
         PROVE  mvars_'[cur][f] = mvars_[cur][f] /\ mvars_[cur][f] \in [offset : Nat, typeCode : Int]
    BY <1>5, <1>7, <1>10 DEF FieldsOK
  <1>11. FieldsOK'
    <2>1. ASSUME NEW s \in DOMAIN mvars_', NEW f \in DOMAIN mvars_'[s]
          PROVE  mvars_'[s][f] \in [offset : Nat, typeCode : Int]
      <3>1. CASE s # cur
        BY <1>7, <3>1 DEF FieldsOK
      <3>2. CASE s = cur /\ f = var
        BY <1>4, <1>7, <3>2
      <3>3. CASE s = cur /\ f # var
        BY <1>7, <1>10, <3>3
      <3> QED
        BY <3>1, <3>2, <3>3
    <2>2. DOMAIN mvars_' \subseteq DOMAIN sizes_'
      BY <1>1, <1>6, <1>7 DEF FieldsOK
    <2> QED
      BY <2>1, <2>2 DEF FieldsOK
  <1>12. ASSUME NEW f \in Sized(cur)', f # var
         PROVE  /\ End(cur, f)' \in Int /\ End(cur, f)' <= sizes_[cur]
                /\ mvars_'[cur][f] = mvars_[cur][f] /\ f \in Sized(cur)
                /\ End(cur, f)' = End(cur, f) /\ cur \in DOMAIN mvars_
    <2>1. /\ f \in DOMAIN old /\ mvars_'[cur][f] = mvars_[cur][f] /\ cur \in DOMAIN mvars_
          /\ mvars_[cur][f] \in [offset : Nat, typeCode : Int]
          /\ mvars_'[cur][f].typeCode < cur
      <3>1. f \in DOMAIN mvars_'[cur] /\ mvars_'[cur][f].typeCode < cur
        BY <1>1 DEF Sized
      <3> QED
        BY <1>5, <1>7, <1>10, <1>12, <3>1
    <2>a. PICK c : c = mvars_[cur][f].typeCode
      OBVIOUS
    <2>2. c \in Int /\ c < cur /\ mvars_[cur][f].offset \in Nat
      BY <2>1, <2>a
    <2>3. f \in Sized(cur)
      BY <1>5, <2>1 DEF Sized
    <2>4. SizeOf(c)' = SizeOf(c) /\ SizeOf(c) \in Nat
      BY <1>9, <2>2, SizesAreNat
    <2>5. End(cur, f)' = End(cur, f)
      BY <1>1, <2>1, <2>4, <2>a DEF End
    <2>6. End(cur, f) \in Int
      BY <2>2, <2>4, <2>a DEF End
    <2> QED
      BY <2>1, <2>3, <2>5, <2>6 DEF Placed
  <1>13. ASSUME var \in Sized(cur)'
         PROVE  End(cur, var)' = sizes_'[cur] /\ mvars_'[cur][var].offset = sizes_[cur]
    <2>1. mvars_'[cur][var].typeCode = type /\ mvars_'[cur][var].offset = sizes_[cur]
      BY <1>4, <1>7
    <2>2. type < cur
      BY <1>13, <2>1 DEF Sized
    <2>3. SizeOf(type)' = bytes
      BY <1>3, <1>9, <1>b, <2>2
    <2> QED
      BY <1>6, <2>1, <2>3 DEF End
  <1>14. ASSUME NEW s \in DOMAIN mvars_'
         PROVE  \A f \in Sized(s)' :
                  /\ End(s, f)' <= sizes_'[s]
                  /\ \A g \in Sized(s)' : f # g => \/ End(s, f)' <= mvars_'[s][g].offset
                                                   \/ End(s, g)' <= mvars_'[s][f].offset
    <2>1. CASE s # cur
      <3>1. s \in DOMAIN mvars_ /\ s \in DOMAIN sizes_ /\ mvars_'[s] = mvars_[s]
        BY <1>7, <2>1 DEF FieldsOK
      <3>2. s \in Int /\ s < cur /\ sizes_'[s] = sizes_[s]
        BY <1>1, <1>6, <2>1, <3>1
      <3>3. cur \in Nat
        BY <1>1
      <3> QED
        BY <1>9, <3>1, <3>2, <3>3, PlacedBelow
    <2>2. CASE s = cur
      <3>1. ASSUME NEW f \in Sized(cur)'
            PROVE  End(cur, f)' <= sizes_'[cur]
        <4>1. CASE f = var
          BY <1>3, <1>6, <1>13, <4>1
        <4>2. CASE f # var
          BY <1>3, <1>6, <1>12, <4>2
        <4> QED
          BY <4>1, <4>2
      <3>2. ASSUME NEW f \in Sized(cur)', NEW g \in Sized(cur)', f # g
            PROVE  \/ End(cur, f)' <= mvars_'[cur][g].offset
                   \/ End(cur, g)' <= mvars_'[cur][f].offset
        <4>1. CASE f = var
          BY <1>12, <1>13, <3>2, <4>1
        <4>2. CASE g = var
          BY <1>12, <1>13, <3>2, <4>2
        <4>3. CASE f # var /\ g # var
          BY <1>12, <3>2, <4>3 DEF Placed
        <4> QED
          BY <4>1, <4>2, <4>3
      <3> QED
        BY <1>1, <2>2, <3>1, <3>2
    <2> QED
      BY <2>1, <2>2
  <1>15. Placed'
    BY <1>14 DEF Placed
  <1> QED
    BY <1>8, <1>11, <1>15

LEMMA TypesStep ==
  ASSUME LinesWritten, TypesInv, [Next]_vars
  PROVE  TypesInv'
  <1>1. ConstsOK'
    BY ConstsStep DEF TypesInv
  <1>2. ASSUME status = "parsing", NEW line \in Continues(file), Read(line)
        PROVE  SizesOK' /\ FieldsOK' /\ Placed'
    <2>1. CASE SameTypes \/ Closes
      BY <2>1, TypesSame DEF TypesInv
    <2>2. CASE Opens(line)
      BY <2>2, TypesOpened DEF TypesInv
    <2>3. CASE Grows(line)
      <3>1. Written(line.type)
        BY <2>3 DEF Grows, LinesWritten
      <3>2. TypeCode(line) \in Int
        BY <3>1, TypeCodeInt DEF TypesInv
      <3> QED
        BY <2>3, <3>2, TypesGrown DEF TypesInv
    <2> QED
      BY <1>2, <2>1, <2>2, <2>3, TypeSteps
  <1>3. CASE UNCHANGED vars \/ ReachEnd
    <2>1. SameTypes
      BY <1>3 DEF SameTypes, vars, scopes, types, ReachEnd
    <2> QED
      BY <1>1, <2>1, TypesSame DEF TypesInv
  <1> QED
    BY <1>1, <1>2, <1>3 DEF TypesInv, Next

LEMMA TypesStart ==
  Init => TypesInv
  <1> SUFFICES ASSUME Init PROVE TypesInv
    OBVIOUS
  <1>1. ConstsOK
    BY DEF Init, ConstsOK, TYPE_QWORD, TYPE_PTR
  <1>2. DOMAIN sizes_ = 1 .. 5 /\ \A c \in 1 .. 5 : sizes_[c] \in Nat
    BY DEF Init, ScalarSizes
  <1>3. NumTypes = 5
    <2>1. \A n \in Nat : Cardinality(1 .. n) = n
      BY FS_Interval
    <2>2. PICK n \in Nat : n = 5
      OBVIOUS
    <2>3. DOMAIN sizes_ = 1 .. n
      BY <1>2, <2>2
    <2> QED
      BY <2>1, <2>2, <2>3 DEF NumTypes
  <1>4. currStruct_ = 0
    BY DEF Init
  <1>5. DOMAIN mvars_ = {}
    BY DEF Init
  <1> QED
    BY <1>1, <1>2, <1>3, <1>4, <1>5 DEF TypesInv, SizesOK, FieldsOK, Placed

\* AddVar places the fields of a struct apart and within its size, in every script
\* whose types are names and numbers: FieldsApart.
THEOREM FieldsDisjoint ==
  ASSUME LinesWritten
  PROVE  Spec => []FieldsApart
  <1>1. TypesInv => FieldsApart
    <2>1. ASSUME TypesInv, NEW s \in DOMAIN mvars_, NEW f \in Sized(s), NEW g \in Sized(s)
          PROVE  /\ Bytes(s, f) \subseteq 0 .. sizes_[s] - 1
                 /\ f # g => Bytes(s, f) \cap Bytes(s, g) = {}
      <3>1. /\ mvars_[s][f].offset \in Nat /\ mvars_[s][g].offset \in Nat /\ sizes_[s] \in Nat
        BY <2>1 DEF TypesInv, FieldsOK, SizesOK, Sized
      <3>2. End(s, f) \in Int /\ End(s, g) \in Int
        BY <2>1, <3>1, SizesAreNat DEF End, TypesInv
      <3>3. /\ End(s, f) <= sizes_[s]
            /\ f # g => End(s, f) <= mvars_[s][g].offset \/ End(s, g) <= mvars_[s][f].offset
        BY <2>1 DEF TypesInv, Placed
      <3>4. /\ Bytes(s, f) = mvars_[s][f].offset .. End(s, f) - 1
            /\ Bytes(s, g) = mvars_[s][g].offset .. End(s, g) - 1
        <4>1. \A c : SizeOf(c) \in Nat
          BY <2>1, SizesAreNat DEF TypesInv
        <4> QED
          BY <3>1, <4>1 DEF Bytes, End
      <3> QED
        BY <3>1, <3>2, <3>3, <3>4
    <2> QED
      BY <2>1 DEF FieldsApart
  <1> QED
    BY <1>1, TypesStart, TypesStep, PTL DEF Spec

-----------------------------------------------------------------------------
\* What the tables hold.
Lines(map) == \A n \in DOMAIN map : map[n] \in Int /\ map[n] >= -1 /\ map[n] < n_line

TablesOK ==
  /\ Lines(createdFuncs_) /\ Lines(labels_)
  /\ \A n \in DOMAIN memberFuncs_ :
       /\ memberFuncs_[n].func_ \in Int
       /\ memberFuncs_[n].func_ >= -1 /\ memberFuncs_[n].func_ < n_line
       /\ memberFuncs_[n].struct_ \in DOMAIN sizes_
  /\ \A k \in DOMAIN vars_ : vars_[k].typeCode \in Int
  /\ structFunc_ \in BOOLEAN

\* The steps, by what they do to the methods.
Method(line) ==
  \/ UNCHANGED memberFuncs_
  \/ /\ StoredLine(line) /\ currStruct_ # 0 /\ UNCHANGED sizes_
     /\ \E n \in {n_line, -1} : AddFunc(line.name, n)

LEMMA MethodSteps ==
  ASSUME NEW line, Read(line)
  PROVE  Method(line) /\ structFunc_' \in {structFunc_, TRUE, FALSE}
  <1> DEFINE Rest == UNCHANGED memberFuncs_ /\ UNCHANGED structFunc_
  <1>a. ASSUME NEW how, Ends(line, how) PROVE Rest
    BY <1>a DEF Ends, scopes, types
  <1>b. ASSUME NEW cmd, NEW arg, NEW arg2, PushData(line, cmd, arg, arg2) PROVE StoredLine(line)
    BY <1>b DEF StoredLine
  <1>1. CASE Null(line)
    BY <1>1 DEF Null, Method, scopes, types
  <1>2. CASE Func(line)
    BY <1>2, <1>a DEF Func, Throw, Method, scopes, types
  <1>3. CASE Ret(line)
    BY <1>3 DEF Ret, Method, types
  <1>4. CASE CFunc(line)
    BY <1>4, <1>a DEF CFunc, Throw, Method, types
  <1>5. CASE PFunc(line)
    BY <1>5, <1>a DEF PFunc, Throw, Method, scopes, types
  <1>6. CASE Label(line)
    BY <1>6, <1>a DEF Label, Throw, Method, scopes, types
  <1>7. CASE Const(line)
    BY <1>7, <1>a DEF Const, Throw, Method, scopes, types
  <1>8. CASE Extern(line)
    BY <1>8, <1>a DEF Extern, Throw, Method, scopes, types
  <1>9. CASE Import(line)
    BY <1>9, <1>a DEF Import, Throw, Method, scopes, types
  <1>10. CASE UserCommand(line)
    BY <1>10, <1>a DEF UserCommand, Throw, Method, scopes, types
  <1>11. CASE Var(line)
    <2>1. Throw(line) \/ UNCHANGED <<structFunc_, types>>
      BY <1>11 DEF Var
    <2> QED
      BY <1>a, <2>1 DEF Throw, Method, types
  <1>12. CASE Struct(line)
    BY <1>12, <1>a DEF Struct, Throw, Method
  <1>13. CASE StructVar(line)
    <2>1. Throw(line) \/ (UNCHANGED scopes /\ AddVar(line.name, TypeCode(line)))
      BY <1>13 DEF StructVar
    <2> QED
      BY <1>a, <2>1 DEF Throw, Method, AddVar, scopes
  <1>14. CASE StructCFunc(line)
    <2>1. \/ Throw(line)
          \/ /\ StoredLine(line) /\ currStruct_ # 0 /\ UNCHANGED sizes_
             /\ AddFunc(line.name, n_line) /\ structFunc_' = TRUE
      BY <1>14, <1>b DEF StructCFunc
    <2> QED
      BY <1>a, <2>1 DEF Throw, Method
  <1>15. CASE StructPFunc(line)
    <2>1. \/ Throw(line) \/ Ends(line, "crashed")
          \/ /\ StoredLine(line) /\ currStruct_ # 0 /\ UNCHANGED <<scopes, sizes_>>
             /\ AddFunc(line.name, -1) \/ UNCHANGED memberFuncs_
      BY <1>15, <1>b DEF StructPFunc
    <2> QED
      BY <1>a, <2>1 DEF Throw, Method, scopes
  <1>16. CASE EndStruct(line)
    BY <1>16 DEF EndStruct, Method, types
  <1> QED
    BY <1>1, <1>2, <1>3, <1>4, <1>5, <1>6, <1>7, <1>8, <1>9, <1>10, <1>11, <1>12,
       <1>13, <1>14, <1>15, <1>16 DEF Read

LEMMA LinesLater ==
  ASSUME n_line \in Nat, NEW map, Lines(map), n_line' >= n_line, n_line' \in Nat
  PROVE  \A n \in DOMAIN map : map[n] \in Int /\ map[n] >= -1 /\ map[n] < n_line'
  BY DEF Lines

LEMMA TablesStored ==
  ASSUME n_line \in Nat, n_line' = n_line + 1, NEW map, Lines(map),
         NEW name, NEW value \in {n_line, -1}
  PROVE  \A n \in DOMAIN Put(map, name, value) :
           /\ Put(map, name, value)[n] \in Int
           /\ Put(map, name, value)[n] >= -1 /\ Put(map, name, value)[n] < n_line'
  <1>1. value \in Int /\ value >= -1 /\ value < n_line'
    OBVIOUS
  <1>2. \A n \in DOMAIN map : map[n] \in Int /\ map[n] >= -1 /\ map[n] < n_line'
    BY LinesLater
  <1> QED
    BY <1>1, <1>2 DEF Put

LEMMA TypeCodesStep ==
  ASSUME ConstsOK, VarsOK, n_line \in Nat,
         \A k \in DOMAIN vars_ : vars_[k].typeCode \in Int,
         NEW line, line.cmd = "var" => Written(line.type), Read(line)
  PROVE  \A k \in DOMAIN vars_' : vars_'[k].typeCode \in Int
  <1>1. CASE Failing(line) \/ Plainly(line) \/ Opened(line)
    BY <1>1 DEF Failing, Ends, Plainly, Opened
  <1>2. CASE Ret(line)
    BY <1>2, RetRenumbers
  <1>3. CASE Rebuilt(line)
    BY <1>3, RebuiltRenumbers
  <1>4. CASE Added(line)
    <2>1. TypeCode(line) \in Int
      BY <1>4, TypeCodeInt DEF Added
    <2>2. PICK new : vars_' = Put(vars_, Key(line), new) /\ new.typeCode = TypeCode(line)
      BY <1>4 DEF Added
    <2> QED
      BY <2>1, <2>2 DEF Put
  <1> QED
    BY <1>1, <1>2, <1>3, <1>4, ReadSteps

LEMMA TablesStep ==
  ASSUME LinesWritten, ScopesInv, TypesInv, TablesOK, [Next]_vars
  PROVE  TablesOK'
  <1>0. n_line \in Nat /\ VarsOK /\ ReadOK
    BY Counted DEF ScopesInv
  <1>1. CASE UNCHANGED <<createdFuncs_, labels_, memberFuncs_, sizes_, vars_, structFunc_, n_line>>
    BY <1>1 DEF TablesOK, Lines
  <1>2. CASE UNCHANGED vars
    BY <1>1, <1>2 DEF vars, names, types, scopes, n_line
  <1>3. CASE status = "parsing" /\ ReachEnd
    BY <1>0, <1>1, <1>3, AtEnd DEF names, types, scopes
  <1>4. ASSUME status = "parsing", NEW line \in Continues(file), Read(line)
        PROVE  TablesOK'
    <2>1. CASE Failing(line)
      BY <1>0, <1>1, <1>4, <2>1, Ended DEF Failing, names, types, scopes
    <2>2. CASE /\ StoredLine(line)
               /\ SameNames \/ Announced(line) \/ Introduced(line) \/ Structured(line)
      <3>1. n_line' = n_line + 1 /\ n_line' \in Nat /\ n_line' >= n_line
        BY <1>0, <1>4, <2>2, Stored DEF StoredLine
      <3>2. Lines(createdFuncs_)' /\ Lines(labels_)'
        <4>0. Lines(createdFuncs_) /\ Lines(labels_)
          BY DEF TablesOK
        <4>1. CASE UNCHANGED <<createdFuncs_, labels_>>
          BY <1>0, <3>1, <4>0, <4>1, LinesLater DEF Lines
        <4>2. CASE Announced(line)
          <5>1. PICK value \in {n_line, -1} :
                  \/ createdFuncs_' = Put(createdFuncs_, line.name, value) /\ UNCHANGED labels_
                  \/ labels_' = Put(labels_, line.name, value) /\ UNCHANGED createdFuncs_
            BY <4>2 DEF Announced
          <5>2. CASE createdFuncs_' = Put(createdFuncs_, line.name, value) /\ UNCHANGED labels_
            BY <1>0, <3>1, <4>0, <5>2, LinesLater, TablesStored DEF Lines
          <5>3. CASE labels_' = Put(labels_, line.name, value) /\ UNCHANGED createdFuncs_
            BY <1>0, <3>1, <4>0, <5>3, LinesLater, TablesStored DEF Lines
          <5> QED
            BY <5>1, <5>2, <5>3
        <4> QED
          BY <2>2, <4>1, <4>2 DEF SameNames, Introduced, Structured
      <3>3. \A n \in DOMAIN memberFuncs_' :
              /\ memberFuncs_'[n].func_ \in Int
              /\ memberFuncs_'[n].func_ >= -1 /\ memberFuncs_'[n].func_ < n_line'
              /\ memberFuncs_'[n].struct_ \in DOMAIN sizes_'
        <4>1. DOMAIN sizes_ \subseteq DOMAIN sizes_'
          <5>1. CASE SameTypes \/ Closes
            BY <5>1 DEF SameTypes, Closes
          <5>2. CASE Opens(line)
            BY <5>2 DEF Opens, Put
          <5>3. CASE Grows(line)
            BY <5>3 DEF Grows, AddVar
          <5> QED
            BY <1>4, <5>1, <5>2, <5>3, TypeSteps
        <4>2. \A n \in DOMAIN memberFuncs_ :
                /\ memberFuncs_[n].func_ \in Int
                /\ memberFuncs_[n].func_ >= -1 /\ memberFuncs_[n].func_ < n_line'
                /\ memberFuncs_[n].struct_ \in DOMAIN sizes_'
          BY <1>0, <3>1, <4>1 DEF TablesOK
        <4>3. CASE UNCHANGED memberFuncs_
          BY <4>2, <4>3
        <4>4. ASSUME NEW n \in {n_line, -1}, AddFunc(line.name, n), currStruct_ # 0,
                     memberFuncs_' # memberFuncs_
              PROVE  \A m \in DOMAIN memberFuncs_' :
                       /\ memberFuncs_'[m].func_ \in Int
                       /\ memberFuncs_'[m].func_ >= -1 /\ memberFuncs_'[m].func_ < n_line'
                       /\ memberFuncs_'[m].struct_ \in DOMAIN sizes_'
          <5> DEFINE new == [func_ |-> n, struct_ |-> currStruct_]
          <5>1. memberFuncs_' = Put(memberFuncs_, line.name, new)
            BY <4>4 DEF AddFunc
          <5>2. currStruct_ \in DOMAIN sizes_
            BY <4>4 DEF TypesInv, SizesOK
          <5>3. new.func_ \in Int /\ new.func_ >= -1 /\ new.func_ < n_line'
                /\ new.struct_ \in DOMAIN sizes_'
            BY <1>0, <3>1, <4>1, <5>2
          <5> HIDE DEF new
          <5> QED
            BY <4>2, <5>1, <5>3 DEF Put
        <4> QED
          BY <1>4, <4>3, <4>4, MethodSteps DEF Method
      <3>4. \A k \in DOMAIN vars_' : vars_'[k].typeCode \in Int
        <4>1. line.cmd = "var" => Written(line.type)
          BY <1>4 DEF LinesWritten
        <4> QED
          BY <1>0, <1>4, <4>1, TypeCodesStep DEF TablesOK, TypesInv
      <3>5. structFunc_' \in BOOLEAN
        BY <1>4, MethodSteps DEF TablesOK
      <3> QED
        BY <3>2, <3>3, <3>4, <3>5 DEF TablesOK
    <2> QED
      BY <1>4, <2>1, <2>2, NameSteps
  <1> QED
    BY <1>2, <1>3, <1>4 DEF Next

BuildInv ==
  ScopesInv /\ StructLevelOK /\ PlaceInv /\ StorageApart /\ TypesInv /\ TablesOK

\* Every table of the compiler stays within its bounds, whatever the script: TypeOK.
THEOREM TypeCorrect ==
  ASSUME EntryFirst, LinesWritten
  PROVE  Spec => []TypeOK
  <1>1. Init => BuildInv
    <2> SUFFICES ASSUME Init PROVE StructLevelOK /\ StorageApart /\ TablesOK
      BY ScopesStart, TypesStart, PlaceStart DEF BuildInv
    <2>1. /\ DOMAIN vars_ = {} /\ DOMAIN createdFuncs_ = {} /\ DOMAIN labels_ = {}
          /\ DOMAIN memberFuncs_ = {} /\ struct_func_level_ = 0
      BY DEF Init
    <2>2. structFunc_ \in BOOLEAN
      BY Zenon DEF Init
    <2> QED
      BY <2>1, <2>2 DEF StructLevelOK, StorageApart, TablesOK, Lines
  <1>2. BuildInv /\ [Next]_vars => BuildInv'
    BY ScopesStep, StructLevelStep, PlaceStep, StorageStep, TypesStep, TablesStep
       DEF BuildInv, ScopesInv
  <1>3. BuildInv => TypeOK
    <2> SUFFICES ASSUME BuildInv PROVE TypeOK
      OBVIOUS
    <2>1. n_line \in Nat /\ n_line <= Len(file)
      BY Counted DEF BuildInv, ScopesInv, ReadOK
    <2>2. \A k \in DOMAIN vars_ : /\ vars_[k].num \in Nat /\ vars_[k].die \in Int
                                  /\ vars_[k].typeCode \in Int
      BY DEF BuildInv, ScopesInv, VarsOK, StorageApart, TablesOK
    <2>3. /\ \A n \in DOMAIN createdFuncs_ : createdFuncs_[n] \in -1 .. n_line - 1
          /\ \A n \in DOMAIN labels_ : labels_[n] \in -1 .. n_line - 1
          /\ \A n \in DOMAIN memberFuncs_ : memberFuncs_[n].func_ \in -1 .. n_line - 1
      BY <2>1 DEF BuildInv, TablesOK, Lines
    <2>4. DOMAIN mvars_ \subseteq DOMAIN sizes_ /\ currStruct_ \in {0} \cup DOMAIN sizes_
      BY DEF BuildInv, TypesInv, FieldsOK, SizesOK
    <2>5. /\ \A n \in DOMAIN memberFuncs_ : memberFuncs_[n].struct_ \in DOMAIN sizes_
          /\ structFunc_ \in BOOLEAN /\ die_requests_ \subseteq DOMAIN vars_
          /\ func_level_ <= 1 /\ struct_func_level_ <= 1
          /\ status \in {"parsing", "built", "thrown", "crashed"}
      BY DEF BuildInv, TablesOK, ScopesInv, VarsOK, ReadOK, StructLevelOK
    <2> QED
      BY <2>1, <2>2, <2>3, <2>4, <2>5 DEF TypeOK, n_line
  <1> QED
    BY <1>1, <1>2, <1>3, PTL DEF Spec
=============================================================================
