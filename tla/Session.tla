------------------------------ MODULE Session ------------------------------
(***************************************************************************)
(* An embedding program (main.cpp) at work: it compiles scripts, registers    *)
(* its functions, runs the saved file with one VirtualProcessor_t,            *)
(* interpreted or compiled, any number of times, and logs each exception it    *)
(* catches.  What survives from one run to the next is the subject: the         *)
(* processor's fields, the exception pool, the static strings messages point     *)
(* into, the logs and the saved file.                                          *)
(*                                                                         *)
(* A line of a script is only what it comes to: "fine", "error" (reported,      *)
(* the script goes on), "fatal", "unsized" (a command on a struct, which the    *)
(* translator refuses and the interpreter does not mind), a call of a function   *)
(* of the embedding program, or, where the file was misread, "wild": a command    *)
(* whose arguments are no variables, lines or strings of the script.              *)
(***************************************************************************)
EXTENDS ProgramFile

CONSTANTS
  Scripts,    \* name -> [program, parses]: the scripts there are
  Dlls,       \* the DLLs LoadLibrary finds, each with all functions asked of it
  Offered,    \* names the embedding program may register functions under
  Misread,    \* the lines that a file read out of place may come to
  Mode,       \* the error_mode_ the processor is constructed with
  PoolSize,   \* records exception_data is constructed with
  MaxOps      \* calls of the embedding program

ASSUME SessionAssumption == PoolSize \in Nat
ASSUME MisreadAssumption == \A lines \in Misread : lines \in Seq(ToSet(lines))

\* Functions of the embedding program are numbered from 0 as they are declared, each
\* name once, and a line calls one that has been declared.
CallsDeclared(p) ==
  LET numbers == {p.externs[n] : n \in DOMAIN p.externs}
  IN  /\ numbers = 0 .. Cardinality(DOMAIN p.externs) - 1
      /\ \A i \in DOMAIN p.lines : p.lines[i][1] = "call" => p.lines[i][2] \in numbers

\* A script that parses comes to a program.
ASSUME ScriptsAssumption ==
  \A s \in DOMAIN Scripts :
    Scripts[s].parses => IsProgram(Scripts[s].program) /\ CallsDeclared(Scripts[s].program)

VARIABLES
  compiled,   \* the program last saved, and
  pcs,        \* the file, <<>> when there is none
  regFuncs_,
  error_mode_,
  log_,       \* "null" or "open"
  instance_,  \* "null", "live" or "deleted"
  currentlyExecuting_,
  program,    \* what the loader read for the run
  line, ret,  \* the next line, from 1, and currentReturn_
  pool,       \* the records in use: [kind, about, cause], cause 0 for none
  thrown,     \* the exception in flight, 0 for none
  statics,    \* kind -> what the static string of that kind was made of
  errors_txt, \* the exception log
  script_log, \* the errors in the log of the current or last run
  lost_log,   \* the errors in the buffers of logs whose handles are lost
  reported,   \* the errors there were in it
  called,     \* the last call of a function of the embedding program
  run,        \* [how, named] of the current or last run: named if given a log
  ops,
  status      \* "idle", "filling", "running", "asking", "failed", "crashed", "exited"

files == <<compiled, pcs>>
processor == <<regFuncs_, error_mode_, log_, instance_, currentlyExecuting_>>
exceptions == <<pool, thrown, statics, errors_txt>>
logs == <<script_log, lost_log>>
history == <<reported, called, run, ops>>
vars == <<compiled, pcs, regFuncs_, error_mode_, log_, instance_, currentlyExecuting_,
          program, line, ret, pool, thrown, statics, errors_txt, script_log, lost_log,
          reported, called, run, ops, status>>

-----------------------------------------------------------------------------
\* Exceptions.  A record's message is a literal, a static string, or a local
\* string that is gone when the exception has been thrown.
Gone == {"open", "header", "unregistered", "save"}
Initialised == {"parse"}          \* static std::string s (...)
Accumulated == {"source", "dll", "fatal", "userFatal", "jitFatal"}   \* ...; s += ...

\* Mutant: no static string grows.
MadeOfOnce(kind, about) ==
  IF kind \in DOMAIN statics /\ statics[kind] = <<>>
  THEN [statics EXCEPT ![kind] = <<about>>] ELSE statics

MadeOf(kind, about) ==
  IF kind \in Accumulated THEN [statics EXCEPT ![kind] = Append(@, about)]
  ELSE IF kind \in Initialised /\ statics[kind] = <<>>
  THEN [statics EXCEPT ![kind] = <<about>>]
  ELSE statics

Record(kind, about, cause) == [kind |-> kind, about |-> about, cause |-> cause]

\* CONS_EXCEPTION for each layer the exception top passes, the inner one first.
Conses(records, top, kinds) ==
  LET Cause(i) == IF i = 1 THEN top ELSE Len(records) + i - 1
  IN  records \o [i \in DOMAIN kinds |-> Record(kinds[i], 0, Cause(i))]

\* NAT_EXCEPTION, and what the layers add.  Where no record is left the
\* constructor runs at nullptr.
Throw(kind, about, layers, next) ==
  LET records == Conses(Append(pool, Record(kind, about, 0)), Len(pool) + 1, layers)
  IN  /\ statics' = MadeOf(kind, about)
      /\ IF Len(records) > PoolSize
         THEN status' = "crashed" /\ UNCHANGED <<pool, thrown>>
         ELSE /\ pool' = records
              /\ thrown' = Len(records)
              /\ status' = next

\* Mutant: a record is taken whether or not one is left.
RethrowUnchecked(layers) ==
  /\ UNCHANGED statics
  /\ pool' = Conses(pool, thrown, layers) /\ thrown' = Len(pool') /\ status' = "failed"

\* Rethrown with the layers above.
Rethrow(layers) ==
  LET records == Conses(pool, thrown, layers)
  IN  /\ UNCHANGED statics
      /\ IF Len(records) > PoolSize
         THEN status' = "crashed" /\ UNCHANGED <<pool, thrown>>
         ELSE pool' = records /\ thrown' = Len(records) /\ status' = "failed"

\* WriteLog: the log as it is after the chain from the record top.
Text(records, strings, i) ==
  LET r == records[i]
  IN  IF r.kind \in Gone THEN <<>>
      ELSE IF r.kind \in DOMAIN strings THEN strings[r.kind] ELSE <<r.about>>

\* Mutant: every level opens the log.
WriteLogEach(records, strings, top) ==
  LET Chain[i \in 0 .. Len(records)] ==
        IF i = 0 THEN <<>>
        ELSE IF records[i].cause # 0 THEN Chain[records[i].cause]
        ELSE << [kind |-> records[i].kind, about |-> records[i].about,
                  text |-> Text(records, strings, i)] >>
  IN  Chain[top]

WriteLog(records, strings, top) ==
  LET Chain[i \in 0 .. Len(records)] ==
        IF i = 0 THEN <<>>
        ELSE << [kind |-> records[i].kind, about |-> records[i].about,
                  text |-> Text(records, strings, i)] >>
               \o Chain[records[i].cause]
  IN  Chain[top]

-----------------------------------------------------------------------------
\* The embedding program.
Called == status = "idle" /\ ops < MaxOps /\ ops' = ops + 1

\* ScriptCompiler_t and Save.  A script that does not parse leaves the old file.
Compile(s) ==
  /\ Called
  /\ \/ /\ Scripts[s].parses
        /\ compiled' = Scripts[s].program
        /\ pcs' = Save(Scripts[s].program)
        /\ UNCHANGED <<exceptions, status>>
     \/ /\ Scripts[s].parses
        /\ Throw("save", s, <<>>, "failed")
        /\ UNCHANGED <<files, errors_txt>>
     \/ /\ ~Scripts[s].parses
        /\ Throw("parse", s, <<"parser">>, "failed")
        /\ UNCHANGED <<files, errors_txt>>
  /\ UNCHANGED <<processor, program, line, ret, logs, reported, called, run>>

NoSource ==
  /\ Called
  /\ Throw("source", "missing", <<>>, "failed")
  /\ UNCHANGED <<files, errors_txt, processor, program, line, ret, logs,
                 reported, called, run>>

RegFuncs(names) ==
  /\ Called
  /\ regFuncs_' = regFuncs_ \cup names
  /\ UNCHANGED <<files, error_mode_, log_, instance_, currentlyExecuting_, program, line,
                 ret, exceptions, logs, reported, called, run, status>>

ClearFuncs ==
  /\ Called
  /\ regFuncs_' = {}
  /\ UNCHANGED <<files, error_mode_, log_, instance_, currentlyExecuting_, program, line,
                 ret, exceptions, logs, reported, called, run, status>>

\* The constructor of the run instance: the file, its header, its DLLs, the
\* functions it uses.  That a count was read out of place is not noticed: the lines
\* are whatever they are, unless the memory does not hold them.
NewInstance(layers, next) ==
  LET loaded       == Load(pcs)
      missing      == {d \in {loaded.dlls[i][1][1] : i \in DOMAIN loaded.dlls} : d \notin Dlls}
      unregistered == ToSet(loaded.userFuncs) \ regFuncs_
      Fails(kind, about) == Throw(kind, about, layers, "failed") /\ UNCHANGED <<instance_, program>>
  IN  \/ pcs = <<>> /\ Fails("open", 0)
      \/ pcs # <<>> /\ ~CheckHeader(pcs) /\ Fails("header", 0)
      \/ /\ pcs # <<>> /\ CheckHeader(pcs) /\ ~loaded.ok
         /\ status' = "crashed"
         /\ UNCHANGED <<instance_, program, pool, thrown, statics>>
      \/ /\ pcs # <<>> /\ CheckHeader(pcs)
         /\ IF missing # {} THEN Fails("dll", CHOOSE d \in missing : TRUE)
            ELSE IF unregistered # {} THEN Fails("unregistered", 0)
            ELSE /\ instance_' = "live"
                 /\ \E lines \in IF loaded.ok THEN {loaded.lines} ELSE Misread :
                      program' = [loaded EXCEPT !.lines = lines]
                 /\ status' = next
                 /\ UNCHANGED <<pool, thrown, statics>>

\* Opening for writing empties the log.  A handle that was open is lost, with what is
\* in its buffer.
OpenLog(named) ==
  LET opens == error_mode_ = "log" /\ named
  IN  /\ log_' = IF opens THEN "open" ELSE log_
      /\ script_log' = IF opens THEN 0 ELSE script_log
      /\ lost_log' = IF opens /\ log_ = "open" THEN lost_log + script_log ELSE lost_log

\* RunScript up to the loop: what the constructor throws is not caught.
RunScript(named) ==
  /\ Called
  /\ currentlyExecuting_' = TRUE
  /\ error_mode_' = IF error_mode_ = "log" /\ ~named THEN "silent" ELSE error_mode_
  /\ OpenLog(named)
  /\ NewInstance(<<>>, "running")
  /\ line' = 1 /\ ret' = "success" /\ reported' = 0
  /\ run' = [how |-> "interpret", named |-> named]
  /\ UNCHANGED <<files, regFuncs_, errors_txt, called>>

\* RunScriptJit does not open a log, whatever it is given.
RunScriptJit ==
  /\ Called
  /\ currentlyExecuting_' = TRUE
  /\ NewInstance(<<"processor">>, "filling")
  /\ line' = 1 /\ reported' = 0
  /\ run' = [how |-> "jit", named |-> FALSE]
  /\ UNCHANGED <<files, regFuncs_, error_mode_, log_, ret, errors_txt, logs, called>>

-----------------------------------------------------------------------------
\* checkIfError: where the message of a fatal error says to look.
Where == IF error_mode_ = "log" THEN <<"log", run.named>> ELSE <<error_mode_>>

\* FillJitCompiler: the first command that cannot be translated ends it.  To
\* report that in a log that is not open ends the process.
Unsized == {i \in DOMAIN program.lines : program.lines[i] = <<"unsized", 0>>}

FillJitCompiler ==
  /\ status = "filling"
  /\ \/ /\ Unsized = {}
        /\ status' = "running"
        /\ UNCHANGED <<pool, thrown, statics, script_log, reported>>
     \/ /\ Unsized # {}
        /\ error_mode_ = "log" /\ log_ = "null"
        /\ status' = "crashed"
        /\ UNCHANGED <<pool, thrown, statics, script_log, reported>>
     \/ /\ Unsized # {}
        /\ ~(error_mode_ = "log" /\ log_ = "null")
        /\ reported' = reported + 1
        /\ script_log' = script_log + IF error_mode_ = "log" THEN 1 ELSE 0
        /\ Throw("jitFatal", Where, <<"processor">>, "failed")
  /\ ret' = IF Unsized = {} THEN "success" ELSE "fatal"
  /\ UNCHANGED <<files, processor, program, line, errors_txt, lost_log, called, run, ops>>

\* The interpreter's loop.
Fetched(how, kinds) ==
  /\ status = "running"
  /\ run.how = how
  /\ line <= Len(program.lines)
  /\ program.lines[line][1] \in kinds

\* CHECK_ERROR, and the catch in the loop, which logs at once and asks.
Report(value) ==
  /\ reported' = reported + IF value = "success" THEN 0 ELSE 1
  /\ script_log' = script_log + IF value # "success" /\ error_mode_ = "log" THEN 1 ELSE 0

CheckError(value, kind) ==
  /\ Report(value)
  /\ IF value = "fatal"
     THEN /\ Throw(kind, Where, <<>>, "asking")
          /\ errors_txt' = IF status' = "asking" THEN WriteLog(pool', statics', thrown')
                           ELSE errors_txt
          /\ UNCHANGED line
     ELSE line' = line + 1 /\ UNCHANGED <<exceptions, status>>

Command ==
  /\ Fetched("interpret", {"fine", "unsized", "error", "fatal"})
  /\ ret' = CASE program.lines[line][1] \in {"fine", "unsized"} -> "success"
             [] OTHER -> program.lines[line][1]
  /\ CheckError(ret', "fatal")
  /\ UNCHANGED <<files, processor, program, lost_log, called, run, ops>>

\* Mutant: the functions are numbered as the embedding program registered them.
CallImportFuncRegistered(number) ==
  called' = [number |-> number, ran |-> Sorted(regFuncs_)[number + 1],
             externs |-> compiled.externs]

\* callImportFuncs_: numbered as the file names them.  A line read out of place may
\* have another number; the map then makes a function of it that is nullptr.
Imported == 0 .. Len(program.userFuncs) - 1
CallImportFunc(number) ==
  called' = [number |-> number, ran |-> program.userFuncs[number + 1],
             externs |-> compiled.externs]

\* CHECK_ERROR after it reads what the last command left.
UFunc ==
  /\ Fetched("interpret", {"call"})
  /\ program.lines[line][2] \in Imported
  /\ CallImportFunc(program.lines[line][2])
  /\ CheckError(ret, "userFatal")
  /\ UNCHANGED <<files, processor, program, ret, lost_log, run, ops>>

\* A line that is none of the script's ends the process.
Wild ==
  /\ \/ Fetched(run.how, {"wild"})
     \/ Fetched(run.how, {"call"}) /\ program.lines[line][2] \notin Imported
  /\ status' = "crashed"
  /\ UNCHANGED <<files, processor, program, line, ret, exceptions, logs, history>>

Proceed ==
  /\ status = "asking"
  /\ line' = line + 1
  /\ thrown' = 0
  /\ status' = "running"
  /\ UNCHANGED <<files, processor, program, ret, pool, statics, errors_txt, logs, history>>

\* The log stays open, the instance live, and the processor the executing one.
Refuse ==
  /\ status = "asking"
  /\ Rethrow(<<"loop", "processor">>)
  /\ UNCHANGED <<files, processor, program, line, ret, errors_txt, logs, history>>

\* Mutant: a run that ends leaves its log open.
FinishOpen ==
  /\ status = "running" /\ run.how = "interpret"
  /\ line > Len(program.lines)
  /\ instance_' = "deleted"
  /\ currentlyExecuting_' = FALSE
  /\ status' = "idle"
  /\ UNCHANGED <<files, regFuncs_, error_mode_, log_, program, line, ret, exceptions,
                 logs, history>>

Finish ==
  /\ status = "running" /\ run.how = "interpret"
  /\ line > Len(program.lines)
  /\ log_' = "null"
  /\ instance_' = "deleted"
  /\ currentlyExecuting_' = FALSE
  /\ status' = "idle"
  /\ UNCHANGED <<files, regFuncs_, error_mode_, program, line, ret, exceptions, logs, history>>

\* Compiled code does not look at what its commands return; ret is set again before
\* it is next read.  A function of the embedding program is called with parameters
\* that are not those it was registered with.
JitCommand ==
  /\ Fetched("jit", {"fine", "error", "fatal"})
  /\ line' = line + 1
  /\ UNCHANGED <<files, processor, program, ret, exceptions, logs, history, status>>

JitUFunc ==
  /\ Fetched("jit", {"call"})
  /\ program.lines[line][2] \in Imported
  /\ CallImportFunc(program.lines[line][2])
  /\ line' = line + 1
  /\ status' \in {"running", "crashed"}
  /\ UNCHANGED <<files, processor, program, ret, exceptions, logs, reported, run, ops>>

JitFinish ==
  /\ status = "running" /\ run.how = "jit"
  /\ line > Len(program.lines)
  /\ instance_' = "deleted"
  /\ currentlyExecuting_' = FALSE
  /\ status' = "idle"
  /\ UNCHANGED <<files, regFuncs_, error_mode_, log_, program, line, ret, exceptions,
                 logs, history>>

\* The catch of the embedding program, which logs what it caught.
Catch ==
  /\ status = "failed"
  /\ errors_txt' = WriteLog(pool, statics, thrown)
  /\ thrown' = 0
  /\ status' = "idle"
  /\ UNCHANGED <<files, processor, program, line, ret, pool, statics, logs, history>>

\* The end of the program writes out what is in the buffers of lost handles, each from
\* the start of the file and so over what a later run has written there.
Exit ==
  /\ status = "idle"
  /\ script_log' \in IF lost_log = 0 THEN {script_log} ELSE 0 .. script_log
  /\ status' = "exited"
  /\ UNCHANGED <<files, processor, program, line, ret, exceptions, lost_log, history>>

-----------------------------------------------------------------------------
Empty == [dlls |-> <<>>, vars |-> <<>>, userFuncs |-> <<>>, strings |-> <<>>,
          lines |-> <<>>, ok |-> TRUE]
Nothing == [dlls |-> <<>>, vars |-> <<>>, externs |-> <<>>, strings |-> <<>>, lines |-> <<>>]

\* Where the saved file should be there may be none, or one of another version.
Init ==
  /\ compiled = Nothing
  /\ pcs \in {<<>>, << <<"header", 2019>> >>}
  /\ regFuncs_ = {}
  /\ error_mode_ = Mode
  /\ log_ = "null" /\ instance_ = "null" /\ currentlyExecuting_ = FALSE
  /\ program = Empty
  /\ line = 1 /\ ret = "success"
  /\ pool = <<>> /\ thrown = 0
  /\ statics = [k \in Initialised \cup Accumulated |-> <<>>]
  /\ errors_txt = <<>>
  /\ script_log = 0 /\ lost_log = 0 /\ reported = 0
  /\ called = [number |-> -1]
  /\ run = [how |-> "none", named |-> FALSE]
  /\ ops = 0
  /\ status = "idle"

Next ==
  \/ \E s \in DOMAIN Scripts : Compile(s)
  \/ NoSource
  \/ \E names \in SUBSET Offered : RegFuncs(names)
  \/ ClearFuncs
  \/ \E named \in BOOLEAN : RunScript(named)
  \/ RunScriptJit \/ FillJitCompiler
  \/ Command \/ UFunc \/ Wild \/ Proceed \/ Refuse \/ Finish
  \/ JitCommand \/ JitUFunc \/ JitFinish \/ Catch \/ Exit

Spec == Init /\ [][Next]_vars

-----------------------------------------------------------------------------
Loading == {"open", "header", "dll", "unregistered"}
Origins == {"parse", "save", "source", "fatal", "userFatal", "jitFatal"} \cup Loading

TypeOK ==
  /\ regFuncs_ \subseteq Offered
  /\ error_mode_ \in {Mode, "silent"}
  /\ log_ \in {"null", "open"}
  /\ instance_ \in {"null", "live", "deleted"} /\ currentlyExecuting_ \in BOOLEAN
  /\ line \in 1 .. Len(program.lines) + 1
  /\ ret \in {"success", "error", "fatal"}
  /\ \A i \in DOMAIN pool : pool[i].cause \in 0 .. i - 1
  /\ Len(pool) <= PoolSize /\ thrown \in 0 .. Len(pool)
  /\ script_log \in Nat /\ lost_log \in Nat /\ reported \in Nat
  /\ status \in {"idle", "filling", "running", "asking", "failed", "crashed", "exited"}

(***************************************************************************)
(* README.md:32-35: each layer adds a record with a pointer to the deeper      *)
(* exception, and the log shows the whole chain.  errors.txt always holds one   *)
(* chain, the last one written, from the outermost layer the exception had        *)
(* reached down to where it was first thrown, with no layer left out.  (What was  *)
(* logged before is gone: Exception.h:142 opens the file anew.)                   *)
(***************************************************************************)
LogTellsChain ==
  errors_txt # <<>> =>
    LET origin == errors_txt[Len(errors_txt)].kind
        above  == [i \in 1 .. Len(errors_txt) - 1 |-> errors_txt[i].kind]
    IN  /\ origin \in Origins
        /\ origin = "parse" => above = <<"parser">>
        /\ origin \in {"save", "source"} => above = <<>>
        /\ origin \in Loading => above \in {<<>>, <<"processor">>}
        /\ origin = "jitFatal" => above = <<"processor">>
        /\ origin \in {"fatal", "userFatal"} => above \in {<<>>, <<"processor", "loop">>}

(***************************************************************************)
(* What the log says of where the exception came from.  The text is that of    *)
(* this event, behind those of earlier ones of its kind if the message is a      *)
(* static string that grows, except that every parse error of one check after     *)
(* the first says what the first did (BuilderCases.h:39-46), and that the message   *)
(* of a file that cannot be opened or read, or of a function that is not             *)
(* registered, is gone before it is logged (ScriptLoader.h:61 and 65,                *)
(* DataHandling.h:245).  A fatal error so tells where this run, not an earlier       *)
(* one, reports.                                                                   *)
(***************************************************************************)
TextsTell ==
  \A i \in {j \in DOMAIN errors_txt : errors_txt[j].kind \in Origins \ Gone} :
    LET level == errors_txt[i]
    IN  /\ level.text # <<>>
        /\ \/ level.text[Len(level.text)] = level.about
           \/ /\ level.kind = "parse"
              /\ \E r, s \in DOMAIN pool :
                   r < s /\ pool[r].kind = "parse" /\ pool[s].kind = "parse"

(***************************************************************************)
(* A processor constructed with MODE_LOG writes every error of an interpreted  *)
(* run that is given a log to that log and no other, as long as no earlier run    *)
(* went without one: that run leaves MODE_SILENT behind (Compiler.h:175-179).       *)
(* Not so when compiled: there is no log then.  The end of the program leaves the   *)
(* log as the run did, unless an earlier run ended by an exception, which leaves     *)
(* its log open (Compiler.h:264): only then are errors of another run in the log,     *)
(* over those of this one.                                                         *)
(***************************************************************************)
Overwritten == status = "exited" /\ lost_log > 0
EndedByException == \E i \in DOMAIN pool : pool[i].kind \in {"loop", "jitFatal"}

LoggedWhereAsked ==
  run.how = "interpret" /\ run.named /\ error_mode_ = "log" =>
    IF Overwritten THEN EndedByException ELSE script_log = reported

(***************************************************************************)
(* A line that names a function of the embedding program calls that function,   *)
(* if the script declares its functions in alphabetical order: the lines hold      *)
(* the order of declaration (Builder.h:544), the file the order of the names        *)
(* (Builder.h:466), and the loader counts in the file (DataHandling.h:237).         *)
(***************************************************************************)
CallsByName ==
  called.number # -1 =>
    LET externs == called.externs
        InOrder == \A a, b \in DOMAIN externs : Precedes(a, b) => externs[a] < externs[b]
    IN  InOrder => called.ran \in DOMAIN externs /\ externs[called.ran] = called.number

(***************************************************************************)
(* What runs is what was compiled, whatever the file was before and whatever    *)
(* failed in between.  The DLLs, the variables, each with its number and the type  *)
(* and size of the last one of that number, and the names of the functions of the   *)
(* embedding program come back in any case.  A string that holds the control         *)
(* character ends there, and what is behind it is read out of place: the strings      *)
(* before it come back, the lines that run may be any.  Without one, all strings       *)
(* and lines are as Save was given them.                                            *)
(***************************************************************************)
VarsAreCompiled ==
  /\ DOMAIN program.vars = 0 .. Len(compiled.vars) - 1
  /\ \A i \in DOMAIN compiled.vars :
       LET var == compiled.vars[i]
       IN  \/ program.vars[var.num] = [code |-> var.code, size |-> var.size]
           \/ \E j \in DOMAIN compiled.vars : i < j /\ compiled.vars[j].num = var.num

LoadedIsCompiled ==
  status \in {"filling", "running", "asking"} =>
    /\ {d[1][1] : d \in ToSet(program.dlls)} = DOMAIN compiled.dlls
    /\ VarsAreCompiled
    /\ ToSet(program.userFuncs) = DOMAIN compiled.externs
    /\ \A i \in DOMAIN compiled.strings :
         (\A j \in 1 .. i : Clean(compiled.strings[j])) => program.strings[i] = compiled.strings[i]
    /\ (\A string \in ToSet(compiled.strings) : Clean(string)) =>
         program.strings = compiled.strings /\ program.lines = compiled.lines
=============================================================================
