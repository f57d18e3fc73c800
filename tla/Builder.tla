------------------------------ MODULE Builder ------------------------------
(***************************************************************************)
(* ScriptCompiler_t (Builder.h, BuilderCases.h, Types.h): the one pass over   *)
(* the script that turns its names into numbers.  One action per kind of     *)
(* source line, each the whole handler; ReachEnd is the end of the file, where   *)
(* the prototypes are resolved.  An exception ends the build.                *)
(*                                                                         *)
(* A name is a string; an argument's name is the sequence of its parts, as in *)
(* "object.method".                                                           *)
(***************************************************************************)
EXTENDS Integers, Sequences, FiniteSets, Words
LOCAL INSTANCE SequencesExt

CONSTANTS
  Continues(_),  \* the lines that may follow those already read
  TypeName(_),   \* "type_" and the name of a struct
  Alphabet,      \* the names in the order a std::map keeps them
  EntryFirst,    \* whether vars_[key] = {size () - 1} makes the entry first
  Asserts,       \* whether assert evaluates its argument
  GarbageLines   \* what an iterator past the end of memberFuncs_ gives as a line

VARIABLES
  file,          \* the lines read so far
  args_,         \* what each became: its command and classified arguments
  consts_,       \* name -> number
  vars_,         \* <<name, level>> -> [num, die, typeCode]
  die_requests_, \* keys of vars_
  createdFuncs_, labels_,   \* name -> line, or -1 for a prototype
  userFuncs_, dllFuncs_,    \* name -> number
  memberFuncs_,  \* name -> [func_, struct_]
  sizes_,        \* type code -> bytes
  mvars_,        \* struct code -> (name -> [offset, typeCode])
  func_level_, struct_func_level_,
  currStruct_,   \* type code, 0 outside a struct
  structFunc_,
  status         \* "parsing", "built", "thrown" or "crashed"

scopes == <<die_requests_, func_level_, struct_func_level_, currStruct_, structFunc_>>
types  == <<memberFuncs_, sizes_, mvars_>>
names  == <<consts_, createdFuncs_, labels_, userFuncs_, dllFuncs_>>
vars   == <<file, args_, names, vars_, scopes, types, status>>

n_line == Len(args_)

\* std::map.
Put(map, key, value) == [k \in DOMAIN map \cup {key} |-> IF k = key THEN value ELSE map[k]]
Defined(map, key) == key \in DOMAIN map /\ map[key] # -1

TYPE_QWORD == 4
TYPE_PTR   == 5
ScalarSizes == <<1, 2, 4, 8, 8>>

None == [kind |-> "null"]
Name(path, unref) == [kind |-> "name", path |-> path, unref |-> unref]
Num(n) == [kind |-> "num", num |-> n]
Invalid == [kind |-> "invalid"]   \* the exception for a misplaced '*'

-----------------------------------------------------------------------------
\* Mutant: a variable that died is still found.
VisibleDead(name, level) ==
  {l \in 0 .. level : <<name, l>> \in DOMAIN vars_}

\* The levels at which _in_clsf_arg would accept a variable of this name.
Visible(name, level) ==
  {l \in 0 .. level : /\ <<name, l>> \in DOMAIN vars_
                      /\ ~(vars_[<<name, l>>].die # -1 /\ vars_[<<name, l>>].die < n_line)}

Innermost(levels) == CHOOSE l \in levels : \A k \in levels : k <= l

Unless(unref, arg) == IF unref THEN Invalid ELSE arg

\* Mutant: begin () for rbegin ().
MethodStructFirst ==
  IF structFunc_ /\ DOMAIN memberFuncs_ # {}
  THEN memberFuncs_[Alphabet[SelectInSeq(Alphabet, LAMBDA n : n \in DOMAIN memberFuncs_)]].struct_
  ELSE 0

\* The struct whose members a method may name: that of the last entry of
\* memberFuncs_, in the order of the map.
MethodStruct ==
  IF structFunc_ /\ DOMAIN memberFuncs_ # {}
  THEN LET last == CHOOSE i \in DOMAIN Alphabet :
                     /\ Alphabet[i] \in DOMAIN memberFuncs_
                     /\ \A j \in i + 1 .. Len(Alphabet) :
                          Alphabet[j] \notin DOMAIN memberFuncs_
       IN  memberFuncs_[Alphabet[last]].struct_
  ELSE 0

SizeOf(code) == IF code \in DOMAIN sizes_ THEN sizes_[code] ELSE 0
Fields(code) == IF code \in DOMAIN mvars_ THEN mvars_[code] ELSE <<>>

\* ManageStructVar follows the parts of a dotted name: a variable of the current
\* level, unless a method names members of its own struct, then members.
ObjectStep(name) ==
  LET key == <<name, func_level_>>
  IN  IF key \in DOMAIN vars_
      THEN [var |-> vars_[key].num + 1, code |-> vars_[key].typeCode, offset |-> 0,
            func |-> None, typeCode |-> 0, error |-> FALSE]
      ELSE [var |-> 0, code |-> 0, offset |-> 0, func |-> None, typeCode |-> 0,
            error |-> FALSE]

MemberStep(m, name) ==
  IF m.error THEN m
  ELSE IF name \in DOMAIN Fields(m.code)
  THEN LET f == Fields(m.code)[name]
       IN  [m EXCEPT !.offset = @ + f.offset, !.typeCode = f.typeCode, !.code = f.typeCode,
                     !.error = SizeOf(f.typeCode) = 0]
  ELSE IF name \in DOMAIN memberFuncs_
  THEN [m EXCEPT !.func = [line |-> memberFuncs_[name].func_], !.code = m.typeCode]
  ELSE [m EXCEPT !.error = TRUE]

ManageStructVar(path, unref, struct_) ==
  LET start == IF struct_ = 0 THEN ObjectStep(path[1])
               ELSE [var |-> 0, code |-> struct_, offset |-> 0, func |-> None,
                     typeCode |-> 0, error |-> FALSE]
      rest  == IF struct_ = 0 THEN Tail(path) ELSE path
      m     == FoldLeft(MemberStep, start, rest)
  IN  IF (Len(path) = 1 /\ struct_ = 0) \/ m.error THEN Name(path, unref)
      ELSE IF m.func = None
      THEN IF unref /\ m.typeCode # TYPE_PTR THEN Invalid
           ELSE [kind |-> "member", var |-> m.var, offset |-> m.offset,
                 typeCode |-> m.typeCode]
      ELSE Unless(unref, IF m.func.line = -1 THEN [kind |-> "funcMemberIT", path |-> path]
                         ELSE [kind |-> "funcMember", var |-> m.var, line |-> m.func.line])

\* _in_clsf_arg: the meanings of a name in the order they are tried.
Classify(arg, error, var, struct_) ==
  LET name   == arg.path[1]
      plain  == Len(arg.path) = 1
      levels == IF var THEN Visible(name, IF struct_ THEN struct_func_level_ ELSE func_level_)
                ELSE {}
      found  == Innermost(levels)
      member == ManageStructVar(arg.path, arg.unref, MethodStruct)
  IN  IF arg.kind # "name" THEN arg
      ELSE IF plain /\ name \in DOMAIN consts_ THEN Unless(arg.unref, Num(consts_[name]))
      ELSE IF plain /\ levels # {}
      THEN IF arg.unref /\ vars_[<<name, found>>].typeCode # TYPE_PTR THEN Invalid
           ELSE [kind |-> "var", var |-> vars_[<<name, found>>].num]
      ELSE IF plain /\ name \in DOMAIN labels_
      THEN Unless(arg.unref, IF labels_[name] = -1 THEN [kind |-> "labelIT", path |-> arg.path]
                             ELSE [kind |-> "label", line |-> labels_[name]])
      ELSE IF plain /\ name \in DOMAIN createdFuncs_
      THEN Unless(arg.unref, IF createdFuncs_[name] = -1 THEN [kind |-> "funcIT", path |-> arg.path]
                             ELSE [kind |-> "func", line |-> createdFuncs_[name]])
      ELSE IF plain /\ name \in DOMAIN dllFuncs_
      THEN Unless(arg.unref, [kind |-> "dllFunc", num |-> dllFuncs_[name]])
      ELSE IF member.kind = "name" /\ error THEN [kind |-> "error"]
      ELSE member

\* The arguments of a declaration: a name that means nothing yet.
Fresh(name) == Classify(Name(<<name>>, FALSE), FALSE, TRUE, FALSE).kind = "name"

\* Mutant: labels are forgotten.
CheckNameFunctions(name, level) ==
  /\ name \notin DOMAIN consts_
  /\ ~(<<name, level>> \in DOMAIN vars_ /\ vars_[<<name, level>>].die > n_line)
  /\ name \notin DOMAIN userFuncs_
  /\ ~Defined(createdFuncs_, name)

CheckName(name, level) ==
  /\ name \notin DOMAIN consts_
  /\ ~(<<name, level>> \in DOMAIN vars_ /\ vars_[<<name, level>>].die > n_line)
  /\ name \notin DOMAIN userFuncs_
  /\ ~Defined(createdFuncs_, name)
  /\ ~Defined(labels_, name)

-----------------------------------------------------------------------------
\* What PushData stores for a line; a line that ends the build.
PushData(line, cmd, arg, arg2) ==
  /\ file' = Append(file, line)
  /\ args_' = Append(args_, [cmd |-> cmd, arg |-> arg, arg2 |-> arg2])
  /\ UNCHANGED status

Ends(line, how) ==
  /\ file' = Append(file, line)
  /\ status' = how
  /\ UNCHANGED <<args_, names, vars_, scopes, types>>

Throw(line) == Ends(line, "thrown")

\* A blank line or a comment.
Null(line) ==
  /\ line.cmd = "null"
  /\ PushData(line, "Null", None, None)
  /\ UNCHANGED <<names, vars_, scopes, types>>

\* A command of the language with two arguments, inside a struct too.
Func(line) ==
  /\ line.cmd = "use"
  /\ LET arg  == Classify(line.arg, TRUE, TRUE, structFunc_)
         arg2 == Classify(line.arg2, TRUE, TRUE, structFunc_)
     IN  IF Invalid \in {arg, arg2} THEN Throw(line)
         ELSE /\ PushData(line, "Func", arg, arg2)
              /\ UNCHANGED <<names, vars_, scopes, types>>

\* Mutant: the list of requests is not cleared.
ActivateDieRequestsKept ==
  /\ vars_' = [k \in DOMAIN vars_ |-> IF k \in die_requests_
                                      THEN [vars_[k] EXCEPT !.die = SignExtend(n_line, 2)]
                                      ELSE vars_[k]]
  /\ UNCHANGED die_requests_

ActivateDieRequests ==
  /\ vars_' = [k \in DOMAIN vars_ |-> IF k \in die_requests_
                                      THEN [vars_[k] EXCEPT !.die = SignExtend(n_line, 2)]
                                      ELSE vars_[k]]
  /\ die_requests_' = {}

\* Every ret, a method's too, goes one level up and ends the pending variables.
Ret(line) ==
  /\ line.cmd = "ret"
  /\ func_level_' = func_level_ - 1
  /\ ActivateDieRequests
  /\ structFunc_' = FALSE
  /\ PushData(line, "Ret", None, None)
  /\ UNCHANGED <<names, struct_func_level_, currStruct_, types>>

\* Mutant: a function may be declared inside a function.
CFuncNested(line) ==
  /\ line.cmd = "func"
  /\ currStruct_ = 0
  /\ IF ~CheckName(line.name, func_level_ + 1) THEN Throw(line)
     ELSE /\ func_level_' = func_level_ + 1
          /\ createdFuncs_' = Put(createdFuncs_, line.name, n_line)
          /\ PushData(line, "CFunc", None, None)
          /\ UNCHANGED <<consts_, labels_, userFuncs_, dllFuncs_, vars_, die_requests_,
                         struct_func_level_, currStruct_, structFunc_, types>>

CFunc(line) ==
  /\ line.cmd = "func"
  /\ currStruct_ = 0
  /\ IF func_level_ > 0 \/ ~CheckName(line.name, func_level_ + 1) THEN Throw(line)
     ELSE /\ func_level_' = func_level_ + 1
          /\ createdFuncs_' = Put(createdFuncs_, line.name, n_line)
          /\ PushData(line, "CFunc", None, None)
          /\ UNCHANGED <<consts_, labels_, userFuncs_, dllFuncs_, vars_, die_requests_,
                         struct_func_level_, currStruct_, structFunc_, types>>

PFunc(line) ==
  /\ line.cmd = "pfunc"
  /\ currStruct_ = 0
  /\ IF ~CheckName(line.name, func_level_) THEN Throw(line)
     ELSE /\ createdFuncs_' = Put(createdFuncs_, line.name, -1)
          /\ PushData(line, "PFunc", None, None)
          /\ UNCHANGED <<consts_, labels_, userFuncs_, dllFuncs_, vars_, scopes, types>>

\* Label and PLabel, StructLabel and StructPLabel.
Label(line) ==
  /\ line.cmd \in {"label", "plabel"}
  /\ IF ~CheckName(line.name, func_level_) THEN Throw(line)
     ELSE /\ labels_' = Put(labels_, line.name, IF line.cmd = "label" THEN n_line ELSE -1)
          /\ PushData(line, "Null", None, None)
          /\ UNCHANGED <<consts_, createdFuncs_, userFuncs_, dllFuncs_, vars_, scopes, types>>

\* A constant takes no value, so it is 0; its name is not checked.
Const(line) ==
  /\ line.cmd = "const"
  /\ IF currStruct_ # 0 \/ ~Fresh(line.name) THEN Throw(line)
     ELSE /\ consts_' = Put(consts_, line.name, 0)
          /\ PushData(line, "Const", None, None)
          /\ UNCHANGED <<createdFuncs_, labels_, userFuncs_, dllFuncs_, vars_, scopes, types>>

Extern(line) ==
  /\ line.cmd = "extern"
  /\ IF ~Fresh(line.name) \/ ~CheckName(line.name, func_level_) THEN Throw(line)
     ELSE /\ userFuncs_' = Put(userFuncs_, line.name,
                               Cardinality(DOMAIN userFuncs_) - IF EntryFirst THEN 0 ELSE 1)
          /\ PushData(line, "Extern", None, None)
          /\ UNCHANGED <<consts_, createdFuncs_, labels_, dllFuncs_, vars_, scopes, types>>

Import(line) ==
  /\ line.cmd = "import"
  /\ IF currStruct_ # 0 \/ line.name \in DOMAIN dllFuncs_ THEN Throw(line)
     ELSE /\ dllFuncs_' = Put(dllFuncs_, line.name, Cardinality(DOMAIN dllFuncs_))
          /\ PushData(line, "Import", None, None)
          /\ UNCHANGED <<consts_, createdFuncs_, labels_, userFuncs_, vars_, scopes, types>>

\* A command that is no word of the language: the function of the embedder that has
\* its name, whose number nothing changes later.
UserCommand(line) ==
  /\ line.cmd = "name"
  /\ LET arg  == Classify(line.arg, TRUE, TRUE, FALSE)
         arg2 == Classify(line.arg2, TRUE, TRUE, FALSE)
     IN  IF Invalid \in {arg, arg2} \/ line.name \notin DOMAIN userFuncs_ THEN Throw(line)
         ELSE /\ PushData(line, "UFunc", arg, arg2)
              /\ UNCHANGED <<names, vars_, scopes, types>>

-----------------------------------------------------------------------------
\* var.  The type must have become a number; that it is a type's is not checked.
CheckVarArgs(line) ==
  /\ Classify(Name(<<line.name>>, FALSE), FALSE, FALSE, FALSE).kind = "name"
  /\ Classify(line.type, FALSE, FALSE, FALSE).kind \in {"null", "num"}

TypeCode(line) ==
  LET type == Classify(line.type, FALSE, FALSE, FALSE)
  IN  IF type.kind = "num" THEN type.num ELSE TYPE_QWORD

CreateVarDieRequest(key) ==
  die_requests_' = IF func_level_ > 0 THEN die_requests_ \cup {key} ELSE die_requests_

\* Mutant: numbers are given out again once their variables have died.
NewNumberLive(key) == Cardinality({k \in DOMAIN vars_ : vars_[k].die = -1})

\* What size () - 1 is beside the insertion of the key.
NewNumber(key) ==
  Cardinality(DOMAIN vars_ \cup IF EntryFirst THEN {key} ELSE {}) - 1

Var(line) ==
  /\ line.cmd = "var"
  /\ currStruct_ = 0
  /\ LET key   == <<line.name, func_level_>>
         known == key \in DOMAIN vars_
         die   == vars_[key].die
     IN  IF \/ ~CheckVarArgs(line)
            \/ known /\ ((func_level_ # 0 /\ die = -1) \/ die > n_line)
         THEN Throw(line)
         ELSE IF known /\ die < n_line /\ die # -1
         THEN /\ vars_' = [vars_ EXCEPT ![key].die = -1]
              /\ CreateVarDieRequest(key)
              /\ PushData(line, "RebuildVar", [kind |-> "var", var |-> vars_[key].num],
                          Classify(line.type, FALSE, FALSE, FALSE))
              /\ UNCHANGED <<names, func_level_, struct_func_level_, currStruct_,
                             structFunc_, types>>
         ELSE IF ~CheckName(line.name, func_level_) THEN Throw(line)
         ELSE /\ vars_' = Put(vars_, key, [num |-> NewNumber(key), die |-> -1,
                                           typeCode |-> TypeCode(line)])
              /\ CreateVarDieRequest(key)
              /\ PushData(line, "Null", None, None)
              /\ UNCHANGED <<names, func_level_, struct_func_level_, currStruct_,
                             structFunc_, types>>

-----------------------------------------------------------------------------
\* struct, AddNewType: its size grows with its fields.
Struct(line) ==
  /\ line.cmd = "struct"
  /\ IF currStruct_ # 0 \/ ~CheckName(line.name, func_level_) THEN Throw(line)
     ELSE LET code == Cardinality(DOMAIN sizes_) + 1
          IN  /\ consts_' = Put(consts_, TypeName(line.name), code)
              /\ sizes_' = Put(sizes_, code, 0)
              /\ currStruct_' = code
              /\ struct_func_level_' = func_level_
              /\ PushData(line, "Null", None, None)
              /\ UNCHANGED <<createdFuncs_, labels_, userFuncs_, dllFuncs_, vars_,
                             die_requests_, func_level_, structFunc_, memberFuncs_, mvars_>>

\* Mutant: the size is increased before the offset is taken.
AddVarAfter(var, type) ==
  /\ sizes_' = [sizes_ EXCEPT ![currStruct_] = @ + SizeOf(type)]
  /\ mvars_' = Put(mvars_, currStruct_,
                   Put(Fields(currStruct_), var,
                       [offset |-> sizes_[currStruct_] + SizeOf(type), typeCode |-> type]))
  /\ UNCHANGED memberFuncs_

AddVar(var, type) ==
  /\ sizes_' = [sizes_ EXCEPT ![currStruct_] = @ + SizeOf(type)]
  /\ mvars_' = Put(mvars_, currStruct_,
                   Put(Fields(currStruct_), var,
                       [offset |-> sizes_[currStruct_], typeCode |-> type]))
  /\ UNCHANGED memberFuncs_

\* var in a struct, in a method too, is a field.
StructVar(line) ==
  /\ line.cmd = "var"
  /\ currStruct_ # 0
  /\ IF ~CheckVarArgs(line) \/ ~CheckName(line.name, func_level_) THEN Throw(line)
     ELSE /\ AddVar(line.name, TypeCode(line))
          /\ PushData(line, "Null", None, None)
          /\ UNCHANGED <<names, vars_, scopes>>

\* AddFunc refuses a method that is defined, of whatever struct.
AddFunc(func, line) ==
  memberFuncs_' = IF func \in DOMAIN memberFuncs_ /\ memberFuncs_[func].func_ # -1
                  THEN memberFuncs_
                  ELSE Put(memberFuncs_, func, [func_ |-> line, struct_ |-> currStruct_])

\* func in a struct ignores the refusal and leaves func_level_ alone.
StructCFunc(line) ==
  /\ line.cmd = "func"
  /\ currStruct_ # 0
  /\ IF structFunc_ THEN Throw(line)
     ELSE /\ AddFunc(line.name, n_line)
          /\ structFunc_' = TRUE
          /\ PushData(line, "CFunc", None, None)
          /\ UNCHANGED <<names, vars_, die_requests_, func_level_, struct_func_level_,
                         currStruct_, sizes_, mvars_>>

\* pfunc in a struct does its work inside an assert.
StructPFunc(line) ==
  /\ line.cmd = "pfunc"
  /\ currStruct_ # 0
  /\ IF ~CheckName(line.name, func_level_) THEN Throw(line)
     ELSE IF /\ Asserts
             /\ line.name \in DOMAIN memberFuncs_
             /\ memberFuncs_[line.name].func_ # -1
     THEN Ends(line, "crashed")
     ELSE /\ IF Asserts THEN AddFunc(line.name, -1) ELSE UNCHANGED memberFuncs_
          /\ PushData(line, "PFunc", None, None)
          /\ UNCHANGED <<names, vars_, scopes, sizes_, mvars_>>

\* Outside a struct the command has no case and nothing happens.
EndStruct(line) ==
  /\ line.cmd = "struct_end"
  /\ currStruct_' = 0
  /\ PushData(line, IF currStruct_ # 0 THEN "Null" ELSE "EndStruct", None, None)
  /\ UNCHANGED <<names, vars_, die_requests_, func_level_, struct_func_level_,
                 structFunc_, types>>

-----------------------------------------------------------------------------
\* ResolvePrototypes: everything announced must be defined.

\* Mutant: labels are not looked at.
AllDefinedFunctions ==
  /\ \A n \in DOMAIN createdFuncs_ : Defined(createdFuncs_, n)
  /\ \A n \in DOMAIN memberFuncs_ : memberFuncs_[n].func_ # -1

AllDefined ==
  /\ \A n \in DOMAIN createdFuncs_ : Defined(createdFuncs_, n)
  /\ \A n \in DOMAIN labels_ : Defined(labels_, n)
  /\ \A n \in DOMAIN memberFuncs_ : memberFuncs_[n].func_ # -1

\* A method announced is looked up under the whole name of the argument, its object is
\* forgotten.  The name is in memberFuncsPrototypes_, at a place that arg1 is shifted
\* by 32 bits to hold; arg2 is shifted back by 16, which finds only the first name.
FuncMemberIT(arg) == arg.kind = "funcMemberIT"

Misnamed(arg) == FuncMemberIT(arg) /\ Len(arg.path) > 1

Misnamed2(i) ==
  /\ FuncMemberIT(args_[i].arg2)
  /\ \/ Misnamed(args_[i].arg2)
     \/ FuncMemberIT(args_[i].arg)
     \/ \E j \in 1 .. i - 1 : FuncMemberIT(args_[j].arg) \/ FuncMemberIT(args_[j].arg2)

Resolved(arg, misnamed, garbage) ==
  CASE arg.kind = "funcIT" -> [kind |-> "func", line |-> createdFuncs_[arg.path[1]]]
    [] arg.kind = "labelIT" -> [kind |-> "label", line |-> labels_[arg.path[1]]]
    [] arg.kind = "funcMemberIT" ->
         [kind |-> "funcMember", var |-> 0,
          line |-> IF misnamed THEN garbage ELSE memberFuncs_[arg.path[1]].func_]
    [] OTHER -> arg

ReachEnd ==
  /\ \/ ~AllDefined /\ status' = "thrown" /\ UNCHANGED args_
     \/ /\ AllDefined
        /\ \E garbage \in GarbageLines :
             args_' = [i \in DOMAIN args_ |->
                         [args_[i] EXCEPT
                            !.arg = Resolved(@, Misnamed(@), garbage),
                            !.arg2 = Resolved(@, Misnamed2(i), garbage)]]
        /\ status' = "built"
     \/ /\ AllDefined
        /\ \E i \in DOMAIN args_ : Misnamed(args_[i].arg) \/ Misnamed2(i)
        /\ status' = "crashed"
        /\ UNCHANGED args_
  /\ UNCHANGED <<file, names, vars_, scopes, types>>

-----------------------------------------------------------------------------
Init ==
  /\ file = <<>> /\ args_ = <<>>
  /\ consts_ = [type_byte |-> 1, type_word |-> 2, type_dword |-> 3, type_qword |-> TYPE_QWORD,
                 type_ptr |-> TYPE_PTR, PRINT_STRING |-> 54, PRINT_NUMBER |-> 55,
                 PRINT_STACK |-> 56]
  /\ vars_ = <<>> /\ die_requests_ = {}
  /\ createdFuncs_ = <<>> /\ labels_ = <<>> /\ userFuncs_ = <<>> /\ dllFuncs_ = <<>>
  /\ memberFuncs_ = <<>> /\ sizes_ = ScalarSizes /\ mvars_ = <<>>
  /\ func_level_ = 0 /\ struct_func_level_ = 0
  /\ currStruct_ = 0 /\ structFunc_ = FALSE
  /\ status = "parsing"

Read(line) ==
  \/ Null(line) \/ Func(line) \/ Ret(line) \/ CFunc(line) \/ PFunc(line) \/ Label(line)
  \/ Const(line) \/ Extern(line) \/ Import(line) \/ UserCommand(line) \/ Var(line)
  \/ Struct(line) \/ StructVar(line) \/ StructCFunc(line) \/ StructPFunc(line)
  \/ EndStruct(line)

Next ==
  /\ status = "parsing"
  /\ (\E line \in Continues(file) : Read(line)) \/ ReachEnd

Spec == Init /\ [][Next]_vars

-----------------------------------------------------------------------------
TypeOK ==
  /\ Len(args_) <= Len(file)
  /\ \A k \in DOMAIN vars_ : /\ vars_[k].num \in Nat /\ vars_[k].die \in Int
                             /\ vars_[k].typeCode \in Int
  /\ die_requests_ \subseteq DOMAIN vars_
  /\ \A n \in DOMAIN createdFuncs_ : createdFuncs_[n] \in -1 .. n_line - 1
  /\ \A n \in DOMAIN labels_ : labels_[n] \in -1 .. n_line - 1
  /\ \A n \in DOMAIN memberFuncs_ : /\ memberFuncs_[n].func_ \in -1 .. n_line - 1
                                    /\ memberFuncs_[n].struct_ \in DOMAIN sizes_
  /\ DOMAIN mvars_ \subseteq DOMAIN sizes_
  /\ func_level_ <= 1 /\ struct_func_level_ <= 1
  /\ currStruct_ \in {0} \cup DOMAIN sizes_
  /\ structFunc_ \in BOOLEAN
  /\ status \in {"parsing", "built", "thrown", "crashed"}

(***************************************************************************)
(* The locals of a function end together with it.  Those that will die at    *)
(* the next ret are exactly the live variables of a level above 0, and all   *)
(* of them belong to the function being read; so no local outlives the ret   *)
(* of its function, whatever is declared again in whatever order.            *)
(* (CreateVarDieRequest, ActivateDieRequests and func_level_.)  The line of   *)
(* death is an int16_t: a ret on line 65535 would set it to -1, alive.          *)
(***************************************************************************)
LocalsDieTogether ==
  n_line <= 65535 =>
    /\ die_requests_ = {k \in DOMAIN vars_ : k[2] > 0 /\ vars_[k].die = -1}
    /\ \A k \in die_requests_ : k[2] = func_level_

\* Where line i of a script stands: in a struct or not, and at which func_level_.
InStruct(lines, i) ==
  \E s \in 1 .. i - 1 : /\ lines[s].cmd = "struct"
                       /\ \A e \in s .. i - 1 : lines[e].cmd # "struct_end"

Level(lines, i) ==
  Cardinality({f \in 1 .. i - 1 : lines[f].cmd = "func" /\ ~InStruct(lines, f)})
    - Cardinality({r \in 1 .. i - 1 : lines[r].cmd = "ret"})

DeclaresGlobal(lines, i, name) ==
  /\ lines[i].cmd = "var" /\ lines[i].name = name
  /\ ~InStruct(lines, i) /\ Level(lines, i) = 0

DeclaredTwice(name) ==
  \E i, j \in 1 .. n_line :
    i < j /\ DeclaresGlobal(file, i, name) /\ DeclaresGlobal(file, j, name)

(***************************************************************************)
(* Storage.  ScriptLoader_t makes a table of as many variables as vars_ has  *)
(* entries and fills it by number: each number is in the table, and two      *)
(* entries share one only if one of them is a global that the script         *)
(* declares twice, which AddName numbers anew.                                *)
(***************************************************************************)
StorageApart ==
  /\ \A k \in DOMAIN vars_ : vars_[k].num \in 0 .. Cardinality(DOMAIN vars_) - 1
  /\ \A j, k \in DOMAIN vars_ :
       j # k /\ vars_[j].num = vars_[k].num
       => \E g \in {j, k} : g[2] = 0 /\ DeclaredTwice(g[1])

UsesLocal(arg) ==
  /\ arg.kind = "var"
  /\ \A g \in DOMAIN vars_ : vars_[g].num = arg.var => g[2] > 0

DeclaredSinceRet(name, line) ==
  \E j \in 1 .. line - 1 : /\ file[j].cmd = "var" /\ file[j].name = name
                           /\ \A r \in j .. line : file[r].cmd # "ret"

(***************************************************************************)
(* A local is used only where it is declared: a command that is given the     *)
(* number of a local comes after a var line of that name with no ret between. *)
(* (The search of _in_clsf_arg through the levels, and die, which 65535 lines   *)
(* do not exhaust.)  A global declared again may share the number when the       *)
(* line is read and is excepted.                                              *)
(***************************************************************************)
LocalsStayLocal ==
  0 < n_line /\ n_line <= 65535 /\ Len(file) = n_line
  /\ args_[n_line].cmd \in {"Func", "UFunc"}
  => /\ UsesLocal(args_[n_line].arg) => DeclaredSinceRet(file[n_line].arg.path[1], n_line)
     /\ UsesLocal(args_[n_line].arg2) => DeclaredSinceRet(file[n_line].arg2.path[1], n_line)

(***************************************************************************)
(* What was built can be run: no argument waits for a definition any more,   *)
(* and one that names a function, method or label holds the line of its      *)
(* declaration, wherever in the file that is.  (ResolvePrototypes.)  Excepted *)
(* is a method announced in its struct and, before it is defined, called on   *)
(* an object, or given as the second argument of a line that is not the first *)
(* to name such a method: it is looked up under the wrong name.                *)
(***************************************************************************)
Declares(i, cmd, name) == file[i].cmd = cmd /\ file[i].name = name

\* given is what line i was given as the argument stored.
RightLine(stored, given) ==
  LET name == given.path[Len(given.path)]
  IN  /\ stored.kind \notin {"name", "labelIT", "funcIT", "funcMemberIT"}
      /\ stored.kind \in {"label", "func", "funcMember"}
         => /\ stored.line \in 0 .. n_line - 1
            /\ Declares(stored.line + 1, IF stored.kind = "label" THEN "label" ELSE "func",
                        name)

Ahead(arg) == arg.kind = "funcMember" /\ arg.var = 0

BuiltResolves ==
  status = "built" =>
    \A i \in DOMAIN args_ : file[i].cmd \in {"use", "name"} =>
      /\ \/ RightLine(args_[i].arg, file[i].arg)
         \/ Ahead(args_[i].arg) /\ Len(file[i].arg.path) > 1
      /\ \/ RightLine(args_[i].arg2, file[i].arg2)
         \/ /\ Ahead(args_[i].arg2)
            /\ \/ Len(file[i].arg2.path) > 1 \/ Ahead(args_[i].arg)
               \/ \E j \in 1 .. i - 1 : Ahead(args_[j].arg) \/ Ahead(args_[j].arg2)

(***************************************************************************)
(* In a script that was built a name has one meaning: it is not at once a    *)
(* constant, a function, a label and a command of the embedder.  (CheckName  *)
(* lets a prototype be announced as two things; ResolvePrototypes finds the  *)
(* one that is left undefined.)  A command of the embedder is a constant too   *)
(* only if the script declares the constant after it, which Const does not      *)
(* check.  Variables may share their names, and the constant of a struct's       *)
(* type, which AddNewType makes without a check, any.                            *)
(***************************************************************************)
StructTypes == {TypeName(file[i].name) : i \in {j \in DOMAIN file : file[j].cmd = "struct"}}

\* The script declares the name by the one command and later by the other.
DeclaredAfter(name, first, second) ==
  \E i, j \in DOMAIN file : i < j /\ Declares(i, first, name) /\ Declares(j, second, name)

OneMeaning ==
  status = "built" =>
    /\ DOMAIN createdFuncs_ \cap DOMAIN labels_ = {}
    /\ (DOMAIN createdFuncs_ \cup DOMAIN labels_)
          \cap ((DOMAIN consts_ \ StructTypes) \cup DOMAIN userFuncs_) = {}
    /\ \A n \in DOMAIN userFuncs_ \cap (DOMAIN consts_ \ StructTypes) :
         DeclaredAfter(n, "extern", "const")

Sized(s) == {f \in DOMAIN mvars_[s] : mvars_[s][f].typeCode < s}

Bytes(s, f) ==
  LET field == mvars_[s][f]
  IN  field.offset .. field.offset + SizeOf(field.typeCode) - 1

(***************************************************************************)
(* The fields of a struct lie apart and within its size, the fields a method *)
(* declares as its variables included.  (AddVar.)  Excepted are fields of a    *)
(* type that is not declared before the struct, its own or a number that no     *)
(* struct has yet: their size is not known when the next field is placed.       *)
(***************************************************************************)
FieldsApart ==
  \A s \in DOMAIN mvars_ : \A f, g \in Sized(s) :
    /\ Bytes(s, f) \subseteq 0 .. sizes_[s] - 1
    /\ f # g => Bytes(s, f) \cap Bytes(s, g) = {}

(***************************************************************************)
(* A method names the fields of its own struct: a name it uses that is read   *)
(* as a member of the object it runs on is that field, and a field it names is *)
(* not missed, as long as the methods of a later struct have names that come    *)
(* later in the alphabet and the method has not been dropped for another's of    *)
(* its name.  (memberFuncs_.rbegin () of _in_clsf_arg, and the result of AddFunc   *)
(* that StructCFunc ignores; a field of a struct without fields is left out.)      *)
(***************************************************************************)
MethodsInOrder ==
  /\ \E m \in DOMAIN memberFuncs_ : memberFuncs_[m].struct_ = currStruct_
  /\ \A i, j \in DOMAIN Alphabet :
       i < j /\ {Alphabet[i], Alphabet[j]} \subseteq DOMAIN memberFuncs_
       => memberFuncs_[Alphabet[i]].struct_ <= memberFuncs_[Alphabet[j]].struct_

MethodsSeeTheirOwn ==
  LET n    == Len(file)
      arg  == args_[n].arg
      name == file[n].arg.path[1]
      own  == Fields(currStruct_)
  IN  (/\ status = "parsing" /\ n > 0 /\ structFunc_ /\ currStruct_ # 0
       /\ file[n].cmd = "use" /\ file[n].arg.kind = "name" /\ Len(file[n].arg.path) = 1
       /\ MethodsInOrder)
      => /\ arg.kind = "member" => name \in DOMAIN own /\ arg.offset = own[name].offset
         /\ arg.kind = "error" /\ name \in DOMAIN own => SizeOf(own[name].typeCode) = 0

(***************************************************************************)
(* BuilderCases.h:179 and 183: a var line checks whether the variable has    *)
(* already been created and "if yes rebuild the var with new type", if not   *)
(* creates a new one: what it does not refuse and finds, it rebuilds.        *)
(***************************************************************************)
RedeclaredIsRebuilt ==
  [][(/\ file' # file /\ status' = "parsing" /\ currStruct_ = 0
      /\ file'[Len(file')].cmd = "var"
      /\ <<file'[Len(file')].name, func_level_>> \in DOMAIN vars_)
     => args_'[Len(args_')].cmd = "RebuildVar"]_vars

\* No ret stands outside a function.
NoStrayRet(lines) ==
  \A n \in DOMAIN lines :
    Cardinality({i \in 1 .. n : lines[i].cmd = "ret"})
      <= Cardinality({i \in 1 .. n : lines[i].cmd = "func"})

(***************************************************************************)
(* README.md:12-13: the user has memory to create variables, and beside it    *)
(* fully-fledged classes: a command outside every struct and method that      *)
(* names a live variable of its own level gets it, in a script without stray  *)
(* rets.  (The ret of a method lowers func_level_, which its func did not     *)
(* raise, and _in_clsf_arg searches no level below 0.)                        *)
(***************************************************************************)
VariablesAreFound ==
  [][(/\ file' # file /\ status' = "parsing" /\ currStruct_ = 0 /\ ~structFunc_
      /\ NoStrayRet(file)
      /\ file'[Len(file')].cmd = "use" /\ file'[Len(file')].arg.kind = "name"
      /\ LET path == file'[Len(file')].arg.path
         IN  /\ Len(path) = 1
             /\ <<path[1], func_level_>> \in DOMAIN vars_
             /\ vars_[<<path[1], func_level_>>].die = -1)
     => args_'[Len(args_')].arg.kind # "error"]_vars
=============================================================================
