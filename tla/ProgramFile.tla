---------------------------- MODULE ProgramFile ----------------------------
(***************************************************************************)
(* The .pcs file: ScriptCompiler_t::Save writes the tables of a compiled      *)
(* script one after the other, ScriptLoader_t reads them back.  A file is a   *)
(* sequence of tokens of four kinds: the header, numbers, commands, and the    *)
(* characters of strings, each string ended by CONTROL_int8_tACTER.           *)
(*                                                                         *)
(* A program is a record of                                                 *)
(*   dlls     dll -> the sequence of <<function, number>> imported from it    *)
(*   vars     the sequence of variables, as vars_ orders them: [num, code,     *)
(*            size]; two of them may have one number                          *)
(*   externs  name of a function of the embedding program -> number          *)
(*   strings  the sequence of string constants                              *)
(*   lines    the sequence of commands with their arguments                  *)
(* A name is a string of one character.  typeSizes_ is written as vars are.    *)
(***************************************************************************)
EXTENDS Integers, Sequences, SequencesExt

CONSTANTS
  CONTROL,    \* the character that ends a string
  NameOrder   \* all names, in the order of std::map

ASSUME NamesAssumption ==
  /\ NameOrder \in Seq(ToSet(NameOrder)) /\ CONTROL \notin ToSet(NameOrder)
  /\ \A i, j \in DOMAIN NameOrder : NameOrder[i] = NameOrder[j] => i = j

\* What the compiler hands to Save.  The names of imported functions are cut from
\* string constants, but no function of a DLL has the control character in its name.
IsProgram(p) ==
  /\ DOMAIN p.dlls \subseteq ToSet(NameOrder)
  /\ \A d \in DOMAIN p.dlls :
       /\ p.dlls[d] \in Seq(ToSet(p.dlls[d]))
       /\ \A f \in ToSet(p.dlls[d]) : f[1] # CONTROL
  /\ p.vars \in Seq(ToSet(p.vars))
  /\ \A v \in ToSet(p.vars) : v.num \in 0 .. Len(p.vars) - 1
  /\ DOMAIN p.externs \subseteq ToSet(NameOrder)
  /\ p.strings \in Seq(ToSet(p.strings))
  /\ \A s \in ToSet(p.strings) : s \in Seq(ToSet(s))
  /\ p.lines \in Seq(ToSet(p.lines))

\* Read back, a string ends at the first character that ends a string.
Clean(string) == CONTROL \notin ToSet(string)

Header == <<"header", 2020>>
Num(n) == <<"number", n>>
Char(c) == <<"char", c>>

-----------------------------------------------------------------------------
Precedes(a, b) ==
  \E i, j \in DOMAIN NameOrder : i < j /\ NameOrder[i] = a /\ NameOrder[j] = b

\* As many names of a set come before the i-th as there are numbers below i.
Sorted(names) ==
  [i \in 1 .. Cardinality(names) |->
     CHOOSE n \in names : Cardinality({m \in names : Precedes(m, n)}) = i - 1]

\* WRITE_STR and WRITE_STL_LOOP.
WriteStr(s) == [i \in 1 .. Len(s) + 1 |-> Char(IF i > Len(s) THEN CONTROL ELSE s[i])]
WriteLoop(table) == <<Num(Len(table))>> \o FlattenSeq(table)
WriteStrings(table) == WriteLoop([i \in DOMAIN table |-> WriteStr(table[i])])

WriteVars(vars) ==
  WriteLoop([i \in DOMAIN vars |-> <<Num(vars[i].num), Num(vars[i].code), Num(vars[i].size)>>])

WriteImports(fs) == WriteLoop([i \in DOMAIN fs |-> WriteStr(<<fs[i][1]>>) \o <<Num(fs[i][2])>>])

WriteDlls(dlls) ==
  LET names == Sorted(DOMAIN dlls)
  IN  WriteLoop([i \in DOMAIN names |-> WriteStr(<<names[i]>>) \o WriteImports(dlls[names[i]])])

\* Of userFuncs_ only the names are written, as the map orders them.
WriteExterns(externs) ==
  LET names == Sorted(DOMAIN externs)
  IN  WriteStrings([i \in DOMAIN names |-> <<names[i]>>])

WriteLines(lines) == WriteLoop([i \in DOMAIN lines |-> << <<"line", lines[i]>> >>])

\* Mutant: the first variable is left out.
SaveShort(p) ==
  <<Header>> \o WriteDlls(p.dlls) \o WriteVars(SubSeq(p.vars, 2, Len(p.vars)))
             \o WriteExterns(p.externs) \o WriteStrings(p.strings) \o WriteLines(p.lines)

Save(p) ==
  <<Header>> \o WriteDlls(p.dlls) \o WriteVars(p.vars) \o WriteExterns(p.externs)
             \o WriteStrings(p.strings) \o WriteLines(p.lines)

-----------------------------------------------------------------------------
\* The loader.  A cursor is [at, out]: the next token and what was read.  ok says
\* that every count was one; otherwise what follows is read as it comes.
Start(at) == [at |-> at, out |-> <<>>, ok |-> TRUE]

\* Each[k]: the cursor after k items of a table; item maps a place to the cursor
\* after the item that is read there.
CountAt(f, at) == IF at <= Len(f) /\ f[at][1] = "number" THEN f[at][2] ELSE -1

Table(f, at, item) ==
  LET n == CountAt(f, at)
      Each[k \in 0 .. n] ==
        IF k = 0 THEN Start(at + 1)
        ELSE LET c == Each[k - 1]
                 i == item[c.at]
             IN  [at |-> i.at, out |-> Append(c.out, i.out), ok |-> c.ok /\ i.ok]
  IN  IF n < 0 THEN [Start(at) EXCEPT !.ok = FALSE] ELSE Each[n]

\* READ_STR.
ReadStr(f, at) ==
  LET ends == {i \in at .. Len(f) : f[i] = Char(CONTROL)}
      e == CHOOSE i \in ends : \A j \in ends : i <= j
  IN  IF ends = {} THEN [Start(at) EXCEPT !.ok = FALSE]
      ELSE [at |-> e + 1, out |-> [i \in 1 .. e - at |-> f[at + i - 1][2]], ok |-> TRUE]

ReadFields(n, f, at) ==
  [at |-> at + n, ok |-> at + n - 1 <= Len(f),
   out |-> [i \in 1 .. n |-> IF at + i - 1 <= Len(f) THEN f[at + i - 1][2] ELSE 0]]
ReadStrs(f)  == [at \in Nat |-> ReadStr(f, at)]
ReadVars(f)  == [at \in Nat |-> ReadFields(3, f, at)]
ReadLines(f) == [at \in Nat |-> ReadFields(1, f, at)]

ReadImport(f, at) ==
  LET name == ReadStr(f, at)
      num  == ReadFields(1, f, name.at)
  IN  [at |-> num.at, out |-> <<name.out, num.out[1]>>, ok |-> name.ok /\ num.ok]
ReadImports(f) == [at \in Nat |-> ReadImport(f, at)]

ReadDll(f, at) ==
  LET name == ReadStr(f, at)
      fs   == Table(f, name.at, ReadImports(f))
  IN  [at |-> fs.at, out |-> <<name.out, fs.out>>, ok |-> name.ok /\ fs.ok]
ReadDlls(f) == [at \in Nat |-> ReadDll(f, at)]

CheckHeader(f) == f # <<>> /\ f[1] = Header

\* vars_ of the loader: as many as were written, each of the type and size of the last
\* one of its number; a number that no variable has keeps the default.
NoVar == [code |-> 0, size |-> 0]
OfNumber(read, n) == {i \in DOMAIN read : read[i][1] = n}
Latest(read, n) == CHOOSE i \in OfNumber(read, n) : \A j \in OfNumber(read, n) : j <= i
Numbered(read) ==
  [n \in 0 .. Len(read) - 1 |->
     IF OfNumber(read, n) = {} THEN NoVar
     ELSE [code |-> read[Latest(read, n)][2], size |-> read[Latest(read, n)][3]]]

\* The tables in the order of the file.  Numbers out of place are not told from
\* others by the loader: ok is FALSE when what it reads is not what was written.
Load(f) ==
  LET dlls    == Table(f, 2, ReadDlls(f))
      vars    == Table(f, dlls.at, ReadVars(f))
      externs == Table(f, vars.at, ReadStrs(f))
      strings == Table(f, externs.at, ReadStrs(f))
      lines   == Table(f, strings.at, ReadLines(f))
  IN  [dlls      |-> dlls.out,
       vars      |-> Numbered(vars.out),
       userFuncs |-> [i \in DOMAIN externs.out |-> externs.out[i][1]],
       strings   |-> strings.out,
       lines     |-> [i \in DOMAIN lines.out |-> lines.out[i][1]],
       ok        |-> dlls.ok /\ vars.ok /\ externs.ok /\ strings.ok /\ lines.ok]
=============================================================================
