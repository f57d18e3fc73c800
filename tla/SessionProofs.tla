--------------------------- MODULE SessionProofs ---------------------------
(***************************************************************************)
(* What survives from one run to the next, for every set of scripts, every    *)
(* size of the exception pool and every number of calls: the exceptions and    *)
(* their log (PoolInv), the processor's fields (FieldsOK), the script's log     *)
(* (CountsInv), the file and what runs (FileInv).                             *)
(***************************************************************************)
EXTENDS Session, ProgramFileProofs

-----------------------------------------------------------------------------
\* The pool: a cause is an older record.
Chained(records) ==
  /\ IsSeq(records)
  /\ \A i \in 1 .. Len(records) :
       records[i] \in [kind : {records[i].kind}, about : {records[i].about}, cause : 0 .. i - 1]

LEMMA Consed ==
  ASSUME NEW records, Chained(records),
         NEW kind, NEW about, NEW cause \in 0 .. Len(records),
         NEW more, more = Append(records, Record(kind, about, cause))
  PROVE  /\ Chained(more)
         /\ Len(records) \in Nat /\ Len(more) = Len(records) + 1
         /\ \A i \in 1 .. Len(records) : more[i] = records[i]
         /\ more[Len(records) + 1].kind = kind
         /\ more[Len(records) + 1].about = about
         /\ more[Len(records) + 1].cause = cause
  <1> DEFINE r == Record(kind, about, cause)
             n == Len(records)
  <1>1. r \in [kind : {kind}, about : {about}, cause : {cause}]
    BY DEF Record
  <1>2. r.kind = kind /\ r.about = about /\ r.cause = cause
    BY <1>1
  <1>3. IsSeq(records) /\ more = Append(records, r)
    BY DEF Chained
  <1> HIDE DEF r
  <1>4. /\ IsSeq(more) /\ n \in Nat /\ Len(more) = n + 1
        /\ \A i \in 1 .. n : more[i] = records[i]
        /\ more[n + 1] = r
    BY <1>3, AppendIsSeq
  <1>5. r \in [kind : {r.kind}, about : {r.about}, cause : 0 .. (n + 1) - 1]
    BY <1>1, <1>2, <1>4
  <1>6. ASSUME NEW i \in 1 .. Len(more)
        PROVE  more[i] \in [kind : {more[i].kind}, about : {more[i].about}, cause : 0 .. i - 1]
    <2>1. i \in 1 .. n \/ i = n + 1
      BY <1>4
    <2> QED
      BY <1>4, <1>5, <2>1 DEF Chained
  <1> QED
    BY <1>2, <1>4, <1>6 DEF Chained

LEMMA ConsedChain ==
  ASSUME NEW records, Chained(records), NEW kind, NEW about, NEW cause \in 0 .. Len(records)
  PROVE  Chained(Append(records, Record(kind, about, cause)))
  <1> DEFINE more == Append(records, Record(kind, about, cause))
  <1>1. more = Append(records, Record(kind, about, cause))
    OBVIOUS
  <1> HIDE DEF more
  <1>2. Chained(more)
    BY <1>1, Consed
  <1> QED
    BY <1>1, <1>2


LEMMA ConsesNone ==
  ASSUME NEW records, Chained(records), NEW top
  PROVE  Conses(records, top, <<>>) = records
  <1>1. records \in Seq({records[i] : i \in DOMAIN records})
    BY DEF Chained, IsSeq
  <1> DEFINE none == [i \in DOMAIN <<>> |-> Record(<<>>[i], 0, IF i = 1 THEN top ELSE Len(records) + i - 1)]
  <1>2. Conses(records, top, <<>>) = records \o none
    BY DEF Conses
  <1>3. none = <<>>
    OBVIOUS
  <1> QED
    BY <1>1, <1>2, <1>3, ConcatEmptySeq

LEMMA ConsesOne ==
  ASSUME NEW records, Chained(records), NEW top, NEW kind
  PROVE  Conses(records, top, <<kind>>) = Append(records, Record(kind, 0, top))
  <1> DEFINE r == Record(kind, 0, top)
             S == {records[i] : i \in DOMAIN records} \cup {r}
  <1>1. records \in Seq(S) /\ r \in S
    BY DEF Chained, IsSeq
  <1>2. Conses(records, top, <<kind>>) = records \o <<r>>
    BY DEF Conses
  <1> HIDE DEF r, S
  <1>3. Append(records, r) = records \o <<r>>
    BY <1>1, AppendIsConcat
  <1> QED
    BY <1>2, <1>3 DEF r

LEMMA ConsesTwo ==
  ASSUME NEW records, Chained(records), NEW top, NEW kind, NEW above
  PROVE  Conses(records, top, <<kind, above>>)
           = Append(Append(records, Record(kind, 0, top)), Record(above, 0, Len(records) + 1))
  <1> DEFINE r == Record(kind, 0, top)
             s == Record(above, 0, Len(records) + 1)
             S == {records[i] : i \in DOMAIN records} \cup {r, s}
  <1>0. Len(records) \in Nat
    BY DEF Chained, IsSeq
  <1>1. records \in Seq(S) /\ r \in S /\ s \in S
    BY DEF Chained, IsSeq
  <1>2. Conses(records, top, <<kind, above>>) = records \o <<r, s>>
    BY <1>0 DEF Conses
  <1> HIDE DEF r, s, S
  <1>3. Append(Append(records, r), s) = records \o <<r, s>>
    BY <1>1
  <1> QED
    BY <1>2, <1>3 DEF r, s

-----------------------------------------------------------------------------
\* The log: a chain is its first level and the chain of the cause.
Level(records, strings, i) ==
  [kind |-> records[i].kind, about |-> records[i].about, text |-> Text(records, strings, i)]

IsChain(f, n, records, strings) ==
  f = [i \in 0 .. n |-> IF i = 0 THEN <<>>
                       ELSE <<Level(records, strings, i)>> \o f[records[i].cause]]

LEMMA ChainExists ==
  ASSUME NEW records, Chained(records), NEW strings
  PROVE  \E f : IsChain(f, Len(records), records, strings)
  <1> DEFINE T == {n \in Nat : n <= Len(records) => \E f : IsChain(f, n, records, strings)}
  <1>0. Len(records) \in Nat
    BY DEF Chained, IsSeq
  <1>1. 0 \in T
    <2> DEFINE f == [i \in 0 .. 0 |-> <<>>]
    <2>1. IsChain(f, 0, records, strings)
      BY DEF IsChain
    <2> QED
      BY <2>1
  <1>2. ASSUME NEW n \in Nat, n \in T PROVE n + 1 \in T
    <2> SUFFICES ASSUME n + 1 <= Len(records)
                 PROVE  \E f : IsChain(f, n + 1, records, strings)
      OBVIOUS
    <2>1. PICK f : IsChain(f, n, records, strings)
      BY <1>0, <1>2
    <2> DEFINE L(i, below) == <<Level(records, strings, i)>> \o below
               g == [i \in 0 .. n + 1 |-> IF i = n + 1 THEN L(i, f[records[i].cause]) ELSE f[i]]
    <2>2. \A i \in 1 .. n + 1 : records[i].cause \in 0 .. n /\ records[i].cause < i
      BY <1>0 DEF Chained
    <2>3. \A i \in 0 .. n : g[i] = f[i]
      OBVIOUS
    <2>4. \A i \in 1 .. n + 1 : g[records[i].cause] = f[records[i].cause]
      BY <2>2, <2>3
    <2>5. f = [i \in 0 .. n |-> IF i = 0 THEN <<>> ELSE L(i, f[records[i].cause])]
      BY <2>1 DEF IsChain
    <2> HIDE DEF L
    <2>6. \A i \in 0 .. n + 1 : g[i] = IF i = 0 THEN <<>> ELSE L(i, g[records[i].cause])
      <3> TAKE i \in 0 .. n + 1
      <3>1. CASE i = n + 1
        <4>1. g[i] = L(i, f[records[i].cause]) /\ i # 0
          BY <3>1
        <4> HIDE DEF g
        <4> QED
          BY <2>4, <3>1, <4>1
      <3>2. CASE i \in 0 .. n
        <4>1. f[i] = IF i = 0 THEN <<>> ELSE L(i, f[records[i].cause])
          BY <2>5, <3>2
        <4>2. i = 0 \/ i \in 1 .. n + 1
          BY <3>2
        <4>3. g[i] = f[i]
          BY <2>3, <3>2
        <4> HIDE DEF g
        <4> QED
          BY <2>4, <4>1, <4>2, <4>3
      <3> QED
        BY <3>1, <3>2
    <2>7. g = [i \in 0 .. n + 1 |-> IF i = 0 THEN <<>> ELSE L(i, g[records[i].cause])]
      BY <2>6
    <2> HIDE DEF g
    <2>8. IsChain(g, n + 1, records, strings)
      BY <2>7 DEF IsChain, L
    <2> QED
      BY <2>8
  <1> HIDE DEF T
  <1>3. Len(records) \in T
    BY <1>0, <1>1, <1>2, Induction
  <1> QED
    BY <1>0, <1>3 DEF T

LEMMA WriteLogUnfolds ==
  ASSUME NEW records, Chained(records), NEW strings
  PROVE  /\ WriteLog(records, strings, 0) = <<>>
         /\ \A i \in 1 .. Len(records) :
              WriteLog(records, strings, i) =
                <<Level(records, strings, i)>> \o WriteLog(records, strings, records[i].cause)
  <1> DEFINE f == CHOOSE f : IsChain(f, Len(records), records, strings)
  <1>1. IsChain(f, Len(records), records, strings)
    BY ChainExists
  <1>2. \A i : WriteLog(records, strings, i) = f[i]
    BY DEF WriteLog, IsChain, Level
  <1>3. \A i \in 1 .. Len(records) : i \in 0 .. Len(records) /\ records[i].cause \in 0 .. Len(records)
    BY DEF Chained, IsSeq
  <1>4. 0 \in 0 .. Len(records)
    BY DEF Chained, IsSeq
  <1> HIDE DEF f
  <1>5. f[0] = <<>>
    BY <1>1, <1>4 DEF IsChain
  <1>6. ASSUME NEW i \in 1 .. Len(records)
        PROVE  f[i] = <<Level(records, strings, i)>> \o f[records[i].cause]
    <2>1. i \in 0 .. Len(records) /\ i # 0
      BY <1>3
    <2>2. f = [j \in 0 .. Len(records) |-> IF j = 0 THEN <<>>
                    ELSE <<Level(records, strings, j)>> \o f[records[j].cause]]
      BY <1>1 DEF IsChain
    <2> QED
      BY <2>1, <2>2, Zenon
  <1> QED
    BY <1>2, <1>5, <1>6

-----------------------------------------------------------------------------
\* The exception in flight: the record o is where it was first thrown, and the
\* chain from the record top goes down to it.
Carries(records, top, o) ==
  LET kind  == records[o].kind
      outer == records[top]
  IN  /\ records[o].cause = 0
      /\ \/ top = o /\ kind \in Origins \ {"parse", "jitFatal"}
         \/ outer.cause = o /\ outer.kind = "parser" /\ kind = "parse"
         \/ /\ outer.cause = o /\ outer.kind = "processor"
            /\ kind \in Loading \cup {"jitFatal"}
         \/ /\ outer.cause \in 1 .. Len(records) /\ outer.kind = "processor"
            /\ records[outer.cause].cause = o /\ records[outer.cause].kind = "loop"
            /\ kind \in {"fatal", "userFatal"}

\* What a message says: of this event, or that of the first of several parse errors.
Twice(records) ==
  \E r, s \in DOMAIN records : r < s /\ records[r].kind = "parse" /\ records[s].kind = "parse"

Tells(kind, about, text, records) ==
  kind \notin Gone => /\ text # <<>>
                      /\ text[Len(text)] = about \/ (kind = "parse" /\ Twice(records))

InFlight(records, strings, top) ==
  \E o \in 1 .. Len(records) :
    /\ Carries(records, top, o)
    /\ Tells(records[o].kind, records[o].about, Text(records, strings, o), records)

StringsOK(strings) ==
  /\ DOMAIN strings = Initialised \cup Accumulated
  /\ \A k \in DOMAIN strings : IsSeq(strings[k])

\* The log: the levels of one chain, the lowest tells.
LogOK(log, records) ==
  log # <<>> =>
    \E base : /\ Tells(base.kind, base.about, base.text, records)
              /\ \/ /\ log = <<base>>
                    /\ base.kind \in Origins \ {"parse", "jitFatal"}
                 \/ \E outer :
                      /\ log = <<outer, base>>
                      /\ \/ outer.kind = "parser" /\ base.kind = "parse"
                         \/ outer.kind = "processor" /\ base.kind \in Loading \cup {"jitFatal"}
                 \/ \E outer, middle :
                      /\ log = <<outer, middle, base>>
                      /\ outer.kind = "processor" /\ middle.kind = "loop"
                      /\ base.kind \in {"fatal", "userFatal"}

\* After a crash nothing more is thrown or logged.
ExceptionsOK ==
  /\ Chained(pool) /\ Len(pool) <= PoolSize
  /\ thrown \in 0 .. Len(pool)
  /\ StringsOK(statics)
  /\ status # "crashed" =>
       /\ statics["parse"] # <<>> => \E r \in DOMAIN pool : pool[r].kind = "parse"
       /\ thrown # 0 => InFlight(pool, statics, thrown)
  /\ status = "asking" => /\ thrown # 0 /\ pool[thrown].cause = 0
                          /\ pool[thrown].kind \in {"fatal", "userFatal"}

PoolInv == ExceptionsOK /\ LogOK(errors_txt, pool)

LEMMA Joined ==
  ASSUME NEW x, NEW y, NEW z
  PROVE  /\ <<x>> \o <<>> = <<x>> /\ <<x>> \o <<y>> = <<x, y>>
         /\ <<x>> \o <<y, z>> = <<x, y, z>>
  <1> DEFINE S == {x, y, z}
  <1>1. <<x>> \in Seq(S) /\ <<y>> \in Seq(S) /\ <<y, z>> \in Seq(S) /\ <<x, y, z>> \in Seq(S)
    OBVIOUS
  <1> HIDE DEF S
  <1>2. <<x>> \o <<>> = <<x>>
    BY <1>1, ConcatEmptySeq
  <1>3. <<x>> \o <<y>> = <<x, y>>
    <2> DEFINE c == <<x>> \o <<y>>
    <2>1. c \in Seq(S) /\ Len(c) = 2 /\ c[1] = x /\ c[2] = y
      BY <1>1, ConcatProperties
    <2> HIDE DEF c
    <2>2. c = <<x, y>>
      BY <2>1
    <2> QED
      BY <2>2 DEF c
  <1>4. <<x>> \o <<y, z>> = <<x, y, z>>
    <2> DEFINE c == <<x>> \o <<y, z>>
    <2>1. c \in Seq(S) /\ Len(c) = 3 /\ c[1] = x /\ c[2] = y /\ c[3] = z
      BY <1>1, ConcatProperties
    <2> HIDE DEF c
    <2>2. c = <<x, y, z>>
      BY <2>1
    <2> QED
      BY <2>2 DEF c
  <1> QED
    BY <1>2, <1>3, <1>4

LEMMA LogWritten ==
  ASSUME NEW records, Chained(records), NEW strings, NEW top \in 1 .. Len(records),
         InFlight(records, strings, top)
  PROVE  LogOK(WriteLog(records, strings, top), records)
  <1> DEFINE L(i) == Level(records, strings, i)
             W(i) == WriteLog(records, strings, i)
  <1>1. PICK o \in 1 .. Len(records) :
          /\ Carries(records, top, o)
          /\ Tells(records[o].kind, records[o].about, Text(records, strings, o), records)
    BY DEF InFlight
  <1>2. W(0) = <<>> /\ \A i \in 1 .. Len(records) : W(i) = <<L(i)>> \o W(records[i].cause)
    BY WriteLogUnfolds
  <1>3. \A i : /\ L(i).kind = records[i].kind /\ L(i).about = records[i].about
               /\ L(i).text = Text(records, strings, i)
    BY DEF Level
  <1> HIDE DEF L, W
  <1>4. W(o) = <<L(o)>> \o <<>>
    BY <1>1, <1>2 DEF Carries
  <1>5. \A x, y, z : /\ <<x>> \o <<>> = <<x>> /\ <<x>> \o <<y>> = <<x, y>>
                     /\ <<x>> \o <<y, z>> = <<x, y, z>>
    BY Joined
  <1>6. W(o) = <<L(o)>>
    BY <1>4, <1>5
  <1>7. Tells(L(o).kind, L(o).about, L(o).text, records)
    BY <1>1, <1>3
  <1>8. LogOK(W(top), records)
    <2>1. CASE top = o /\ records[o].kind \in Origins \ {"parse", "jitFatal"}
      BY <1>3, <1>6, <1>7, <2>1 DEF LogOK
    <2>2. CASE /\ records[top].cause = o
               /\ \/ records[top].kind = "parser" /\ records[o].kind = "parse"
                  \/ records[top].kind = "processor" /\ records[o].kind \in Loading \cup {"jitFatal"}
      <3>1. W(top) = <<L(top), L(o)>>
        BY <1>2, <1>5, <1>6, <2>2
      <3> QED
        BY <1>3, <1>7, <2>2, <3>1 DEF LogOK
    <2>3. CASE /\ records[top].cause \in 1 .. Len(records) /\ records[top].kind = "processor"
               /\ records[records[top].cause].cause = o
               /\ records[records[top].cause].kind = "loop"
               /\ records[o].kind \in {"fatal", "userFatal"}
      <3> DEFINE m == records[top].cause
      <3>1. W(m) = <<L(m), L(o)>>
        BY <1>2, <1>5, <1>6, <2>3
      <3>2. W(top) = <<L(top), L(m), L(o)>>
        BY <1>2, <1>5, <2>3, <3>1
      <3> QED
        BY <1>3, <1>7, <2>3, <3>2 DEF LogOK
    <2> QED
      BY <1>1, <2>1, <2>2, <2>3 DEF Carries
  <1> QED
    BY <1>8 DEF W

LEMMA LogTells ==
  ASSUME LogOK(errors_txt, pool)
  PROVE  LogTellsChain /\ TextsTell
  <1>0. CASE errors_txt = <<>>
    BY <1>0 DEF LogTellsChain, TextsTell
  <1>1. ASSUME NEW base, errors_txt = <<base>>, base.kind \in Origins \ {"parse", "jitFatal"},
               Tells(base.kind, base.about, base.text, pool)
        PROVE  LogTellsChain /\ TextsTell
    <2>1. Len(errors_txt) = 1 /\ errors_txt[1] = base /\ DOMAIN errors_txt = {1}
      BY <1>1
    <2>2. [i \in 1 .. Len(errors_txt) - 1 |-> errors_txt[i].kind] = <<>>
      BY <2>1
    <2>3. LogTellsChain
      BY <1>1, <2>1, <2>2 DEF LogTellsChain, Origins, Loading
    <2>4. TextsTell
      BY <1>1, <2>1 DEF TextsTell, Tells, Twice
    <2> QED
      BY <2>3, <2>4
  <1>2. ASSUME NEW base, NEW outer, errors_txt = <<outer, base>>,
               \/ outer.kind = "parser" /\ base.kind = "parse"
               \/ outer.kind = "processor" /\ base.kind \in Loading \cup {"jitFatal"},
               Tells(base.kind, base.about, base.text, pool)
        PROVE  LogTellsChain /\ TextsTell
    <2>1. Len(errors_txt) = 2 /\ errors_txt[1] = outer /\ errors_txt[2] = base /\ DOMAIN errors_txt = {1, 2}
      BY <1>2
    <2>2. [i \in 1 .. Len(errors_txt) - 1 |-> errors_txt[i].kind] = <<outer.kind>>
      BY <2>1
    <2>3. LogTellsChain
      BY <1>2, <2>1, <2>2 DEF LogTellsChain, Origins, Loading
    <2>4. outer.kind \notin Origins
      BY <1>2 DEF Origins, Loading
    <2>5. TextsTell
      BY <1>2, <2>1, <2>4 DEF TextsTell, Tells, Twice
    <2> QED
      BY <2>3, <2>5
  <1>3. ASSUME NEW base, NEW outer, NEW middle, errors_txt = <<outer, middle, base>>,
               outer.kind = "processor", middle.kind = "loop",
               base.kind \in {"fatal", "userFatal"},
               Tells(base.kind, base.about, base.text, pool)
        PROVE  LogTellsChain /\ TextsTell
    <2>1. /\ Len(errors_txt) = 3 /\ errors_txt[1] = outer /\ errors_txt[2] = middle
          /\ errors_txt[3] = base /\ DOMAIN errors_txt = {1, 2, 3}
      BY <1>3
    <2>2. [i \in 1 .. Len(errors_txt) - 1 |-> errors_txt[i].kind] = <<outer.kind, middle.kind>>
      BY <2>1
    <2>3. LogTellsChain
      BY <1>3, <2>1, <2>2 DEF LogTellsChain, Origins, Loading
    <2>4. outer.kind \notin Origins /\ middle.kind \notin Origins
      BY <1>3 DEF Origins, Loading
    <2>5. TextsTell
      BY <1>3, <2>1, <2>4 DEF TextsTell, Tells, Twice
    <2> QED
      BY <2>3, <2>5
  <1> QED
    BY <1>0, <1>1, <1>2, <1>3 DEF LogOK

LEMMA LogKept ==
  ASSUME NEW log, NEW records, NEW more, LogOK(log, records), Twice(records) => Twice(more)
  PROVE  LogOK(log, more)
  <1>1. \A kind, about, text : Tells(kind, about, text, records) => Tells(kind, about, text, more)
    BY DEF Tells
  <1> QED
    BY <1>1 DEF LogOK

-----------------------------------------------------------------------------
\* A throw.  The pool only grows.
Grows == \A i \in DOMAIN pool : i \in DOMAIN pool' /\ pool'[i] = pool[i]
Thrown(kind) == status' # "crashed" => \E i \in DOMAIN pool' : pool'[i].kind = kind

Layered(kind, layers) ==
  \/ kind \in Origins \ {"parse", "jitFatal"} /\ layers = <<>>
  \/ kind = "parse" /\ layers = <<"parser">>
  \/ kind \in Loading \cup {"jitFatal"} /\ layers = <<"processor">>

LEMMA Messages ==
  ASSUME StringsOK(statics), NEW kind, NEW about, statics' = MadeOf(kind, about)
  PROVE  /\ StringsOK(statics')
         /\ kind \in Accumulated =>
              statics'[kind] # <<>> /\ statics'[kind][Len(statics'[kind])] = about
         /\ kind # "parse" => statics'["parse"] = statics["parse"]
         /\ kind = "parse" /\ statics["parse"] = <<>> => statics'["parse"] = <<about>>
         /\ kind = "parse" => statics'["parse"] # <<>>
  <1> DEFINE old == statics[kind]
             K == Initialised \cup Accumulated
  <1>0. Initialised \cap Accumulated = {} /\ Initialised = {"parse"} /\ "parse" \in K
    BY DEF Initialised, Accumulated
  <1>a. DOMAIN statics = K /\ \A k \in K : IsSeq(statics[k])
    BY DEF StringsOK
  <1>1. CASE kind \in Accumulated
    <2>1. statics' = [statics EXCEPT ![kind] = Append(old, about)] /\ IsSeq(old)
      BY <1>a, <1>1 DEF MadeOf
    <2> DEFINE new == Append(old, about)
    <2>2. IsSeq(new) /\ Len(new) = Len(old) + 1 /\ Len(old) \in Nat /\ new[Len(old) + 1] = about
      BY <2>1, AppendIsSeq
    <2>3. new # <<>> /\ new[Len(new)] = about
      BY <2>2
    <2> HIDE DEF new, K
    <2>4. statics' = [statics EXCEPT ![kind] = new]
      BY <2>1 DEF new
    <2>5. kind \in DOMAIN statics /\ kind # "parse"
      BY <1>0, <1>1, <1>a DEF K
    <2>6. statics'[kind] = new /\ DOMAIN statics' = DOMAIN statics
          /\ \A k \in DOMAIN statics : k # kind => statics'[k] = statics[k]
      BY <2>4, <2>5
    <2>7. StringsOK(statics')
      BY <1>a, <2>2, <2>6 DEF StringsOK, K
    <2> QED
      BY <1>0, <1>a, <2>3, <2>5, <2>6, <2>7
  <1>2. CASE kind = "parse" /\ statics["parse"] = <<>>
    <2>1. statics' = [statics EXCEPT !["parse"] = <<about>>]
      BY <1>0, <1>2 DEF MadeOf
    <2>2. IsSeq(<<about>>) /\ <<about>> # <<>>
      BY DEF IsSeq
    <2> HIDE DEF K
    <2>3. statics'["parse"] = <<about>> /\ DOMAIN statics' = DOMAIN statics
          /\ \A k \in DOMAIN statics : k # "parse" => statics'[k] = statics[k]
      BY <1>0, <1>a, <2>1
    <2>4. StringsOK(statics')
      BY <1>a, <2>2, <2>3 DEF StringsOK, K
    <2> QED
      BY <1>0, <1>2, <2>2, <2>3, <2>4
  <1>3. CASE kind \notin Accumulated /\ ~(kind = "parse" /\ statics["parse"] = <<>>)
    <2>1. statics' = statics
      BY <1>0, <1>3 DEF MadeOf
    <2> QED
      BY <1>3, <2>1
  <1> QED
    BY <1>1, <1>2, <1>3

LEMMA ThrowStep ==
  ASSUME ExceptionsOK, status # "crashed", NEW kind, NEW about, NEW layers,
         Layered(kind, layers), NEW next \in {"failed", "asking"},
         next = "asking" => kind \in {"fatal", "userFatal"} /\ layers = <<>>,
         Throw(kind, about, layers, next)
  PROVE  /\ ExceptionsOK'
         /\ Twice(pool) => Twice(pool')
         /\ status' \in {next, "crashed"}
         /\ status' # "crashed" => thrown' # 0
         /\ Grows /\ Thrown(kind)
  <1> DEFINE n == Len(pool)
             o == n + 1
             r == Record(kind, about, 0)
             one == Append(pool, r)
             all == Conses(one, o, layers)
  <1>0. /\ Chained(pool) /\ n \in Nat /\ StringsOK(statics) /\ Chained(one) /\ Len(one) = n + 1
        /\ \A i \in 1 .. n : one[i] = pool[i]
        /\ one[o].kind = kind /\ one[o].about = about /\ one[o].cause = 0
    <2>1. Chained(pool)
      BY DEF ExceptionsOK
    <2>2. 0 \in 0 .. Len(pool)
      BY <2>1 DEF Chained, IsSeq
    <2>3. one = Append(pool, Record(kind, about, 0)) /\ o = Len(pool) + 1
      OBVIOUS
    <2> HIDE DEF one, o
    <2>4. Chained(one)
      <3>1. Chained(Append(pool, Record(kind, about, 0)))
        BY <2>1, <2>2, ConsedChain
      <3> QED
        BY <2>3, <3>1
    <2>5. Len(pool) \in Nat /\ Len(one) = Len(pool) + 1
      BY <2>1, <2>2, <2>3, Consed
    <2>6. \A i \in 1 .. Len(pool) : one[i] = pool[i]
      BY <2>1, <2>2, <2>3, Consed
    <2>7. one[Len(pool) + 1].kind = kind
      BY <2>1, <2>2, <2>3, Consed
    <2>8. one[Len(pool) + 1].about = about
      BY <2>1, <2>2, <2>3, Consed
    <2>9. one[Len(pool) + 1].cause = 0
      BY <2>1, <2>2, <2>3, Consed
    <2> QED
      BY <2>1, <2>3, <2>4, <2>5, <2>6, <2>7, <2>8, <2>9 DEF ExceptionsOK
  <1>1. /\ Chained(all) /\ Len(all) \in n + 1 .. n + 2
        /\ \A i \in 1 .. n + 1 : all[i] = one[i]
        /\ layers = <<>> => Len(all) = o
        /\ layers # <<>> => /\ Len(all) = n + 2 /\ all[n + 2].cause = o
                            /\ layers = <<all[n + 2].kind>>
    <2> HIDE DEF one
    <2>1. CASE layers = <<>>
      <3>1. all = one
        BY <1>0, <2>1, ConsesNone
      <3> QED
        BY <1>0, <2>1, <3>1
    <2>2. ASSUME NEW layer, layers = <<layer>>
          PROVE  /\ Chained(all) /\ Len(all) = n + 2
                 /\ \A i \in 1 .. n + 1 : all[i] = one[i]
                 /\ all[n + 2].cause = o /\ all[n + 2].kind = layer
      <3>1. all = Append(one, Record(layer, 0, o))
        BY <1>0, <2>2, ConsesOne
      <3> HIDE DEF all
      <3>2. o \in 0 .. Len(one) /\ Len(one) + 1 = n + 2
        BY <1>0
      <3> HIDE DEF o
      <3>3. Chained(all)
        BY <1>0, <3>1, <3>2, Consed
      <3>4. Len(all) = Len(one) + 1
        BY <1>0, <3>1, <3>2, Consed
      <3>5. \A i \in 1 .. Len(one) : all[i] = one[i]
        BY <1>0, <3>1, <3>2, Consed
      <3>6. all[Len(one) + 1].kind = layer
        BY <1>0, <3>1, <3>2, Consed
      <3>7. all[Len(one) + 1].cause = o
        BY <1>0, <3>1, <3>2, Consed
      <3> QED
        BY <1>0, <3>2, <3>3, <3>4, <3>5, <3>6, <3>7
    <2>3. layers = <<>> \/ layers = <<"parser">> \/ layers = <<"processor">>
      BY DEF Layered
    <2>4. ASSUME NEW layer, layers = <<layer>>
          PROVE  layers # <<>>
      BY <2>4
    <2> HIDE DEF all
    <2>5. CASE layers = <<>>
      BY <1>0, <2>1, <2>5
    <2>6. CASE layers = <<"parser">>
      BY <1>0, <2>2, <2>6
    <2>7. CASE layers = <<"processor">>
      BY <1>0, <2>2, <2>7
    <2> QED
      BY <2>3, <2>5, <2>6, <2>7
  <1>2. /\ statics' = MadeOf(kind, about)
        /\ \/ Len(all) > PoolSize /\ status' = "crashed" /\ pool' = pool /\ thrown' = thrown
           \/ /\ ~(Len(all) > PoolSize)
              /\ pool' = all /\ thrown' = Len(all) /\ status' = next
    BY DEF Throw
  <1>3. CASE status' = "crashed" /\ pool' = pool /\ thrown' = thrown
    <2>1. StringsOK(statics')
      BY <1>0, <1>2, Messages
    <2> QED
      BY <1>3, <2>1 DEF ExceptionsOK, Grows, Thrown
  <1>4. CASE ~(Len(all) > PoolSize) /\ pool' = all /\ thrown' = Len(all) /\ status' = next
    <2> HIDE DEF all, one, r
    <2>1. /\ StringsOK(statics')
          /\ kind \in Accumulated =>
               statics'[kind] # <<>> /\ statics'[kind][Len(statics'[kind])] = about
          /\ kind # "parse" => statics'["parse"] = statics["parse"]
          /\ kind = "parse" /\ statics["parse"] = <<>> => statics'["parse"] = <<about>>
          /\ kind = "parse" => statics'["parse"] # <<>>
      BY <1>0, <1>2, Messages
    <2>2. Chained(pool') /\ Len(pool') <= PoolSize /\ thrown' \in 0 .. Len(pool') /\ thrown' # 0
      BY <1>0, <1>1, <1>4, SessionAssumption
    <2>3. /\ \A i \in 1 .. n : pool'[i] = pool[i]
          /\ pool'[o].kind = kind /\ pool'[o].about = about /\ pool'[o].cause = 0
          /\ DOMAIN pool = 1 .. n /\ o \in DOMAIN pool' /\ 1 .. n \subseteq DOMAIN pool'
      <3>1. IsSeq(pool) /\ IsSeq(pool')
        BY <1>0, <2>2 DEF Chained
      <3>2. DOMAIN pool = 1 .. n /\ DOMAIN pool' = 1 .. Len(pool')
        BY <3>1 DEF IsSeq
      <3> QED
        BY <1>0, <1>1, <1>4, <3>2
    <2>4. Twice(pool) => Twice(pool')
      BY <2>3 DEF Twice
    <2>5. kind \in Origins
      BY DEF Layered, Origins
    <2>6. Carries(pool', thrown', o)
      <3>1. CASE layers = <<>>
        <4>1. thrown' = o /\ kind \in Origins \ {"parse", "jitFatal"}
          BY <1>1, <1>4, <3>1 DEF Layered
        <4> QED
          BY <2>3, <4>1 DEF Carries
      <3>2. CASE layers # <<>>
        <4>1. thrown' = n + 2 /\ pool'[n + 2].cause = o /\ layers = <<pool'[n + 2].kind>>
          BY <1>1, <1>4, <3>2
        <4>2. \/ kind = "parse" /\ pool'[n + 2].kind = "parser"
              \/ kind \in Loading \cup {"jitFatal"} /\ pool'[n + 2].kind = "processor"
          BY <3>2, <4>1 DEF Layered
        <4> QED
          BY <2>3, <4>1, <4>2 DEF Carries
      <3> QED
        BY <3>1, <3>2
    <2>7. kind = "parse" /\ statics["parse"] # <<>> => Twice(pool')
      <3> SUFFICES ASSUME kind = "parse", statics["parse"] # <<>> PROVE Twice(pool')
        OBVIOUS
      <3>1. PICK i \in DOMAIN pool : pool[i].kind = "parse"
        BY DEF ExceptionsOK
      <3>2. i \in DOMAIN pool' /\ pool'[i].kind = "parse" /\ i < o
        BY <1>0, <2>3, <3>1
      <3> QED
        BY <2>3, <3>2 DEF Twice
    <2>8. kind \notin Gone => Text(pool', statics', o) = statics'[kind]
      <3>1. kind \notin Gone => kind \in DOMAIN statics'
        BY <2>1, <2>5 DEF StringsOK, Gone, Origins, Loading, Initialised, Accumulated
      <3> QED
        BY <2>3, <3>1 DEF Text
    <2>9. Tells(kind, about, Text(pool', statics', o), pool')
      <3>1. kind \notin Gone => kind = "parse" \/ kind \in Accumulated
        BY <2>5 DEF Gone, Origins, Loading, Accumulated
      <3>2. <<about>> # <<>> /\ <<about>>[Len(<<about>>)] = about
        OBVIOUS
      <3> QED
        BY <2>1, <2>7, <2>8, <3>1, <3>2 DEF Tells
    <2>10. InFlight(pool', statics', thrown')
      <3>1. o \in 1 .. Len(pool')
        BY <1>0, <1>1, <1>4
      <3> QED
        BY <2>3, <2>6, <2>9, <3>1 DEF InFlight
    <2>11. statics'["parse"] # <<>> => \E i \in DOMAIN pool' : pool'[i].kind = "parse"
      <3>1. CASE kind = "parse"
        BY <2>3, <3>1
      <3>2. CASE kind # "parse"
        BY <2>1, <2>3, <3>2 DEF ExceptionsOK
      <3> QED
        BY <3>1, <3>2
    <2>12. status' = "asking" => thrown' = o
      BY <1>1, <1>4
    <2>13. ExceptionsOK'
      BY <1>4, <2>1, <2>2, <2>3, <2>10, <2>11, <2>12 DEF ExceptionsOK
    <2>14. Grows /\ Thrown(kind)
      BY <2>3 DEF Grows, Thrown
    <2> QED
      BY <1>4, <2>2, <2>4, <2>13, <2>14
  <1> QED
    BY <1>2, <1>3, <1>4

-----------------------------------------------------------------------------
\* The steps, by what they do to exceptions.
Quiet ==
  /\ UNCHANGED <<pool, statics, errors_txt>>
  /\ thrown' \in {thrown, 0} /\ status # "crashed" /\ status' # "asking"

Fails ==
  /\ status # "crashed" /\ UNCHANGED errors_txt
  /\ \E kind, about, layers : Layered(kind, layers) /\ Throw(kind, about, layers, "failed")

Asks ==
  /\ status # "crashed"
  /\ \E kind \in {"fatal", "userFatal"} : \E about : Throw(kind, about, <<>>, "asking")
  /\ errors_txt' = IF status' = "asking" THEN WriteLog(pool', statics', thrown') ELSE errors_txt

LEMMA NewInstanceCases ==
  ASSUME NEW layers, NEW next, NewInstance(layers, next)
  PROVE  \/ /\ \E about : \E kind \in Loading : Throw(kind, about, layers, "failed")
            /\ UNCHANGED <<instance_, program>>
         \/ /\ UNCHANGED <<instance_, program, pool, thrown, statics>>
            /\ status' = "crashed"
         \/ /\ pcs # <<>> /\ CheckHeader(pcs)
            /\ instance_' = "live" /\ UNCHANGED <<pool, thrown, statics>> /\ status' = next
            /\ \E lines \in IF Load(pcs).ok THEN {Load(pcs).lines} ELSE Misread :
                 program' = [Load(pcs) EXCEPT !.lines = lines]
  BY DEF NewInstance, Loading

LEMMA NewInstanceStatus ==
  ASSUME NEW layers, NEW next, NewInstance(layers, next)
  PROVE  status' \in {"failed", "crashed", next} /\ instance_' \in {instance_, "live"}
  BY NewInstanceCases DEF Throw

LEMMA NewInstanceFails ==
  ASSUME NEW layers \in {<<>>, <<"processor">>}, NEW next \in {"running", "filling"},
         status # "crashed", UNCHANGED errors_txt, NewInstance(layers, next)
  PROVE  Quiet \/ Fails
  <1>1. \/ \E about : \E kind \in Loading : Throw(kind, about, layers, "failed")
        \/ UNCHANGED <<pool, thrown, statics>> /\ status' \in {"crashed", next}
    BY NewInstanceCases
  <1>2. \A kind \in Loading : Layered(kind, layers)
    BY DEF Layered, Loading, Origins
  <1> QED
    BY <1>1, <1>2 DEF Quiet, Fails

LEMMA ChecksError ==
  ASSUME status = "running", NEW value, NEW kind \in {"fatal", "userFatal"}, CheckError(value, kind)
  PROVE  Quiet \/ Asks
  BY DEF CheckError, Quiet, Asks, exceptions

LEMMA ExceptionSteps ==
  ASSUME Next
  PROVE  Quiet \/ Fails \/ Asks \/ Refuse \/ Catch
  <1>1. ASSUME NEW s \in DOMAIN Scripts, Compile(s) PROVE Quiet \/ Fails
    <2>1. status = "idle"
      BY <1>1 DEF Compile, Called
    <2>2. \/ UNCHANGED <<exceptions, status>>
          \/ UNCHANGED errors_txt /\ Throw("save", s, <<>>, "failed")
          \/ UNCHANGED errors_txt /\ Throw("parse", s, <<"parser">>, "failed")
      BY <1>1 DEF Compile
    <2>3. Layered("save", <<>>) /\ Layered("parse", <<"parser">>)
      BY DEF Layered, Origins
    <2> QED
      BY <2>1, <2>2, <2>3 DEF Quiet, Fails, exceptions
  <1>2. CASE NoSource
    <2>1. Layered("source", <<>>)
      BY DEF Layered, Origins
    <2> QED
      BY <1>2, <2>1 DEF NoSource, Called, Fails
  <1>3. CASE (\E names \in SUBSET Offered : RegFuncs(names)) \/ ClearFuncs
    BY <1>3 DEF RegFuncs, ClearFuncs, Called, Quiet, exceptions
  <1>4. CASE \E named \in BOOLEAN : RunScript(named)
    <2>1. status # "crashed" /\ UNCHANGED errors_txt /\ NewInstance(<<>>, "running")
      BY <1>4 DEF RunScript, Called
    <2> QED
      BY <2>1, NewInstanceFails
  <1>5. CASE RunScriptJit
    <2>1. status # "crashed" /\ UNCHANGED errors_txt /\ NewInstance(<<"processor">>, "filling")
      BY <1>5 DEF RunScriptJit, Called
    <2> QED
      BY <2>1, NewInstanceFails
  <1>6. CASE FillJitCompiler
    <2>1. Layered("jitFatal", <<"processor">>)
      BY DEF Layered
    <2> QED
      BY <1>6, <2>1 DEF FillJitCompiler, Quiet, Fails
  <1>7. CASE Command
    <2>1. status = "running" /\ CheckError(ret', "fatal")
      BY <1>7 DEF Command, Fetched
    <2> QED
      BY <2>1, ChecksError
  <1>8. CASE UFunc
    <2>1. status = "running" /\ CheckError(ret, "userFatal")
      BY <1>8 DEF UFunc, Fetched
    <2> QED
      BY <2>1, ChecksError
  <1>9. CASE Wild \/ Proceed \/ Finish \/ JitCommand \/ JitUFunc \/ JitFinish \/ Exit
    BY <1>9 DEF Wild, Proceed, Finish, JitCommand, JitUFunc, JitFinish, Exit, Fetched, Quiet,
                exceptions
  <1> QED
    BY <1>1, <1>2, <1>3, <1>4, <1>5, <1>6, <1>7, <1>8, <1>9 DEF Next

LEMMA QuietStep ==
  ASSUME PoolInv, Quiet
  PROVE  PoolInv'
  <1>1. Len(pool) \in Nat
    BY DEF PoolInv, ExceptionsOK, Chained, IsSeq
  <1> QED
    BY <1>1 DEF PoolInv, ExceptionsOK, Quiet

LEMMA RefuseStep ==
  ASSUME PoolInv, Refuse
  PROVE  PoolInv' /\ Grows /\ Thrown("loop")
  <1> DEFINE n == Len(pool)
             all == Conses(pool, thrown, <<"loop", "processor">>)
             one == Append(pool, Record("loop", 0, thrown))
  <1>0. /\ Chained(pool) /\ n \in Nat /\ thrown \in 1 .. n
        /\ pool[thrown].cause = 0 /\ pool[thrown].kind \in {"fatal", "userFatal"}
        /\ status = "asking" /\ DOMAIN pool = 1 .. n
    BY DEF PoolInv, ExceptionsOK, Refuse, Chained, IsSeq
  <1>1. /\ UNCHANGED <<statics, errors_txt>>
        /\ \/ status' = "crashed" /\ UNCHANGED <<pool, thrown>>
           \/ /\ ~(Len(all) > PoolSize)
              /\ pool' = all /\ thrown' = Len(all) /\ status' = "failed"
    BY DEF Refuse, Rethrow
  <1>2. CASE status' = "crashed" /\ UNCHANGED <<pool, thrown>>
    BY <1>1, <1>2 DEF PoolInv, ExceptionsOK, Grows, Thrown
  <1>3. CASE ~(Len(all) > PoolSize) /\ pool' = all /\ thrown' = Len(all) /\ status' = "failed"
    <2>1. all = Append(one, Record("processor", 0, n + 1))
      BY <1>0, ConsesTwo
    <2>2. one = Append(pool, Record("loop", 0, thrown)) /\ thrown \in 0 .. Len(pool)
      BY <1>0
    <2> HIDE DEF one, all
    <2>3. Chained(one)
      BY <1>0, <2>2, Consed
    <2>4. Len(one) = n + 1
      BY <1>0, <2>2, Consed
    <2>5. \A i \in 1 .. n : one[i] = pool[i]
      BY <1>0, <2>2, Consed
    <2>6. one[n + 1].kind = "loop"
      BY <1>0, <2>2, Consed
    <2>7. one[n + 1].cause = thrown
      BY <1>0, <2>2, Consed
    <2>8. PICK inner \in 0 .. Len(one) : inner = n + 1 /\ all = Append(one, Record("processor", 0, inner))
      BY <1>0, <2>1, <2>4
    <2>9. Chained(all)
      <3>1. Chained(Append(one, Record("processor", 0, inner)))
        BY <2>3, Consed
      <3> QED
        BY <2>8, <3>1
    <2>10. Len(all) = Len(one) + 1
      BY <2>3, <2>8, Consed
    <2>11. \A i \in 1 .. Len(one) : all[i] = one[i]
      BY <2>3, <2>8, Consed
    <2>12. all[Len(one) + 1].kind = "processor"
      BY <2>3, <2>8, Consed
    <2>13. all[Len(one) + 1].cause = inner
      BY <2>3, <2>8, Consed
    <2>14. /\ Len(all) = n + 2 /\ DOMAIN all = 1 .. n + 2
           /\ \A i \in 1 .. n : all[i] = pool[i]
           /\ all[n + 1].kind = "loop" /\ all[n + 1].cause = thrown
           /\ all[n + 2].kind = "processor" /\ all[n + 2].cause = n + 1
      <3>1. Len(one) + 1 = n + 2 /\ Len(all) = n + 2
        BY <1>0, <2>4, <2>10
      <3>2. IsSeq(all)
        BY <2>9 DEF Chained
      <3>3. DOMAIN all = 1 .. n + 2
        BY <3>1, <3>2 DEF IsSeq
      <3>4. all[n + 1] = one[n + 1] /\ \A i \in 1 .. n : all[i] = one[i]
        BY <1>0, <2>4, <2>11
      <3> QED
        BY <2>5, <2>6, <2>7, <2>8, <2>12, <2>13, <3>1, <3>3, <3>4
    <2>15. pool'[thrown] = pool[thrown] /\ thrown \in 1 .. Len(pool') /\ thrown' = n + 2
      BY <1>0, <1>3, <2>14
    <2>16. Twice(pool) => Twice(pool')
      BY <1>0, <1>3, <2>14 DEF Twice
    <2>17. InFlight(pool', statics', thrown')
      <3>1. Carries(pool', thrown', thrown)
        <4>1. n + 1 \in 1 .. Len(pool')
          BY <1>0, <1>3, <2>14
        <4> QED
          BY <1>0, <1>3, <2>14, <2>15, <4>1 DEF Carries
      <3>2. PICK o \in 1 .. n :
              /\ Carries(pool, thrown, o)
              /\ Tells(pool[o].kind, pool[o].about, Text(pool, statics, o), pool)
        BY <1>0 DEF PoolInv, ExceptionsOK, InFlight
      <3>3. o = thrown
        BY <1>0, <3>2 DEF Carries
      <3>4. Text(pool', statics', thrown) = Text(pool, statics, thrown)
        BY <1>1, <2>15 DEF Text
      <3>5. Tells(pool'[thrown].kind, pool'[thrown].about, Text(pool', statics', thrown), pool')
        BY <2>15, <2>16, <3>2, <3>3, <3>4 DEF Tells
      <3> QED
        BY <2>15, <3>1, <3>5 DEF InFlight
    <2>18. ExceptionsOK'
      <3>1. \A i \in DOMAIN pool : i \in DOMAIN pool' /\ pool'[i] = pool[i]
        BY <1>0, <1>3, <2>14
      <3>2. Chained(pool') /\ Len(pool') <= PoolSize /\ thrown' \in 0 .. Len(pool')
        BY <1>0, <1>3, <2>9, <2>14, SessionAssumption
      <3> QED
        BY <1>0, <1>1, <1>3, <2>17, <3>1, <3>2 DEF PoolInv, ExceptionsOK
    <2>19. Grows /\ Thrown("loop")
      <3>1. n + 1 \in DOMAIN pool' /\ pool'[n + 1].kind = "loop"
        BY <1>0, <1>3, <2>14
      <3> QED
        BY <1>0, <1>3, <2>14, <3>1 DEF Grows, Thrown
    <2> QED
      BY <1>1, <2>16, <2>18, <2>19, LogKept DEF PoolInv
  <1> QED
    BY <1>1, <1>2, <1>3

LEMMA PoolStep ==
  PoolInv /\ [Next]_vars => PoolInv'
  <1> SUFFICES ASSUME PoolInv, [Next]_vars PROVE PoolInv'
    OBVIOUS
  <1>0. CASE UNCHANGED vars
    BY <1>0 DEF vars, PoolInv, ExceptionsOK
  <1>1. CASE Fails
    <2>1. PICK kind, about, layers : Layered(kind, layers) /\ Throw(kind, about, layers, "failed")
      BY <1>1 DEF Fails
    <2>2. Twice(pool) => Twice(pool')
      BY <1>1, <2>1, ThrowStep DEF Fails, PoolInv
    <2>3. ExceptionsOK'
      BY <1>1, <2>1, ThrowStep DEF Fails, PoolInv
    <2> QED
      BY <1>1, <2>2, <2>3, LogKept DEF Fails, PoolInv
  <1>2. CASE Asks
    <2>0. PICK kind \in {"fatal", "userFatal"} : \E about : Throw(kind, about, <<>>, "asking")
      BY <1>2 DEF Asks
    <2>1. PICK about : Throw(kind, about, <<>>, "asking")
      BY <2>0
    <2>2. Layered(kind, <<>>)
      BY DEF Layered, Origins
    <2>3. /\ Twice(pool) => Twice(pool')
          /\ status' # "crashed" => thrown' # 0
      BY <1>2, <2>1, <2>2, ThrowStep DEF Asks, PoolInv
    <2>4. ExceptionsOK'
      BY <1>2, <2>1, <2>2, ThrowStep DEF Asks, PoolInv
    <2>5. CASE status' = "asking"
      <3>1. Chained(pool') /\ thrown' \in 1 .. Len(pool') /\ InFlight(pool', statics', thrown')
        BY <2>4, <2>5 DEF ExceptionsOK
      <3>2. LogOK(WriteLog(pool', statics', thrown'), pool')
        BY <3>1, LogWritten
      <3> QED
        BY <1>2, <2>4, <2>5, <3>2 DEF Asks, PoolInv
    <2>6. CASE status' # "asking"
      BY <1>2, <2>3, <2>4, <2>6, LogKept DEF Asks, PoolInv
    <2> QED
      BY <2>5, <2>6
  <1>3. CASE Catch
    <2>1. /\ UNCHANGED <<pool, statics>> /\ thrown' = 0 /\ status' = "idle" /\ status = "failed"
          /\ errors_txt' = WriteLog(pool, statics, thrown)
      BY <1>3 DEF Catch
    <2>2. Chained(pool) /\ Len(pool) \in Nat
      BY DEF PoolInv, ExceptionsOK, Chained, IsSeq
    <2>3. LogOK(WriteLog(pool, statics, thrown), pool)
      <3>1. CASE thrown = 0
        BY <2>2, <3>1, WriteLogUnfolds DEF LogOK
      <3>2. CASE thrown # 0
        <4>1. thrown \in 1 .. Len(pool) /\ InFlight(pool, statics, thrown)
          BY <2>1, <3>2 DEF PoolInv, ExceptionsOK
        <4> QED
          BY <2>2, <4>1, LogWritten
      <3> QED
        BY <3>1, <3>2
    <2>4. ExceptionsOK'
      BY <2>1, <2>2 DEF PoolInv, ExceptionsOK
    <2>5. LogOK(errors_txt', pool')
      BY <2>1, <2>3
    <2> QED
      BY <2>4, <2>5 DEF PoolInv
  <1> QED
    BY <1>0, <1>1, <1>2, <1>3, ExceptionSteps, QuietStep, RefuseStep

LEMMA PoolStart ==
  Init => PoolInv
  <1> SUFFICES ASSUME Init PROVE PoolInv
    OBVIOUS
  <1>1. pool = <<>> /\ thrown = 0 /\ errors_txt = <<>> /\ status = "idle"
    BY DEF Init
  <1>2. IsSeq(<<>>) /\ Len(<<>>) = 0
    BY DEF IsSeq
  <1>3. statics = [k \in Initialised \cup Accumulated |-> <<>>]
    BY DEF Init
  <1>4. StringsOK(statics) /\ statics["parse"] = <<>>
    BY <1>2, <1>3 DEF StringsOK, Initialised, Accumulated
  <1>5. Chained(pool)
    BY <1>1, <1>2 DEF Chained
  <1> QED
    BY <1>1, <1>2, <1>4, <1>5, SessionAssumption DEF PoolInv, ExceptionsOK, LogOK

\* errors.txt holds one whole chain, from the outermost layer an exception reached
\* down to where it was thrown (Exception.h, WriteLog): LogTellsChain.
THEOREM ChainsAreLogged == Spec => []LogTellsChain
  <1>1. PoolInv => LogTellsChain
    BY LogTells DEF PoolInv
  <1> QED
    BY <1>1, PoolStart, PoolStep, PTL DEF Spec

\* The lowest level of the log tells of this event, behind earlier ones of its kind,
\* or of the first of several parse errors (the static strings of NAT_EXCEPTION's
\* callers): TextsTell.
THEOREM MessagesTell == Spec => []TextsTell
  <1>1. PoolInv => TextsTell
    BY LogTells DEF PoolInv
  <1> QED
    BY <1>1, PoolStart, PoolStep, PTL DEF Spec

-----------------------------------------------------------------------------
\* The processor's fields and the logs, for TypeOK.
Statuses == {"idle", "filling", "running", "asking", "failed", "crashed", "exited"}

FieldsOK ==
  /\ regFuncs_ \subseteq Offered
  /\ error_mode_ \in {Mode, "silent"}
  /\ log_ \in {"null", "open"}
  /\ instance_ \in {"null", "live", "deleted"} /\ currentlyExecuting_ \in BOOLEAN
  /\ ret \in {"success", "error", "fatal"}
  /\ script_log \in Nat /\ lost_log \in Nat /\ reported \in Nat
  /\ status \in Statuses

LEMMA FieldsKept ==
  ASSUME FieldsOK, UNCHANGED processor, UNCHANGED ret, UNCHANGED logs, UNCHANGED reported,
         status' \in Statuses
  PROVE  FieldsOK'
  BY DEF FieldsOK, processor, logs

LEMMA FieldsStep ==
  FieldsOK /\ [Next]_vars => FieldsOK'
  <1> SUFFICES ASSUME FieldsOK, [Next]_vars PROVE FieldsOK'
    OBVIOUS
  <1>0. CASE UNCHANGED vars
    BY <1>0 DEF vars, FieldsOK
  <1>a. ASSUME NEW value, Report(value) PROVE script_log' \in Nat /\ reported' \in Nat
    BY <1>a DEF Report, FieldsOK
  <1>b. ASSUME NEW value, NEW kind, CheckError(value, kind), status = "running"
        PROVE  status' \in Statuses
    BY <1>b DEF CheckError, Throw, Statuses
  <1>1. ASSUME NEW s \in DOMAIN Scripts, Compile(s) PROVE FieldsOK'
    <2>1. status' \in Statuses
      BY <1>1 DEF Compile, Throw, FieldsOK, Statuses
    <2> QED
      BY <1>1, <2>1, FieldsKept DEF Compile
  <1>2. CASE NoSource
    <2>1. status' \in Statuses
      BY <1>2 DEF NoSource, Throw, Statuses
    <2> QED
      BY <1>2, <2>1, FieldsKept DEF NoSource
  <1>3. CASE (\E names \in SUBSET Offered : RegFuncs(names)) \/ ClearFuncs
    BY <1>3 DEF RegFuncs, ClearFuncs, FieldsOK, logs
  <1>4. ASSUME NEW named \in BOOLEAN, RunScript(named) PROVE FieldsOK'
    <2>1. status' \in Statuses /\ instance_' \in {instance_, "live"}
      BY <1>4, NewInstanceStatus DEF RunScript, Statuses
    <2>2. /\ script_log' \in {0, script_log} /\ lost_log' \in {lost_log, lost_log + script_log}
          /\ log_' \in {"open", log_}
      BY <1>4 DEF RunScript, OpenLog
    <2>3. error_mode_' \in {"silent", error_mode_}
      BY <1>4 DEF RunScript
    <2>4. script_log' \in Nat /\ lost_log' \in Nat
      BY <2>2 DEF FieldsOK
    <2> QED
      BY <1>4, <2>1, <2>2, <2>3, <2>4 DEF RunScript, FieldsOK
  <1>5. CASE RunScriptJit
    <2>1. status' \in Statuses /\ instance_' \in {instance_, "live"}
      BY <1>5, NewInstanceStatus DEF RunScriptJit, Statuses
    <2> QED
      BY <1>5, <2>1 DEF RunScriptJit, FieldsOK, logs
  <1>6. CASE FillJitCompiler
    <2>1. status' \in Statuses
      BY <1>6 DEF FillJitCompiler, Throw, Statuses
    <2>2. script_log' \in {script_log, script_log + 1, script_log + 0} /\ reported' \in {reported, reported + 1}
      BY <1>6 DEF FillJitCompiler
    <2>3. script_log' \in Nat /\ reported' \in Nat
      BY <2>2 DEF FieldsOK
    <2> QED
      BY <1>6, <2>1, <2>3 DEF FillJitCompiler, FieldsOK, processor
  <1>7. CASE Command
    <2>1. /\ status' \in Statuses
          /\ script_log' \in Nat /\ reported' \in Nat
      BY <1>7, <1>a, <1>b DEF Command, Fetched, CheckError
    <2>2. ret' \in {"success", "error", "fatal"}
      BY <1>7 DEF Command, Fetched
    <2> QED
      BY <1>7, <2>1, <2>2 DEF Command, FieldsOK, processor
  <1>8. CASE UFunc
    <2>1. /\ status' \in Statuses
          /\ script_log' \in Nat /\ reported' \in Nat
      BY <1>8, <1>a, <1>b DEF UFunc, Fetched, CheckError
    <2> QED
      BY <1>8, <2>1 DEF UFunc, FieldsOK, processor
  <1>9. CASE Refuse
    <2>1. status' \in Statuses
      BY <1>9 DEF Refuse, Rethrow, Statuses
    <2> QED
      BY <1>9, <2>1, FieldsKept DEF Refuse, history
  <1>10. CASE Wild \/ Proceed \/ JitCommand \/ JitUFunc \/ Catch
    BY <1>10, FieldsKept DEF Wild, Proceed, JitCommand, JitUFunc, Catch, Fetched, history, Statuses
  <1>11. CASE Finish \/ JitFinish
    BY <1>11 DEF Finish, JitFinish, FieldsOK, history, logs, Statuses
  <1>12. CASE Exit
    <2>1. script_log' \in Nat /\ lost_log' \in Nat /\ status' \in Statuses
      BY <1>12 DEF Exit, FieldsOK, Statuses
    <2> QED
      BY <1>12, <2>1 DEF Exit, FieldsOK, history, processor
  <1> QED
    BY <1>0, <1>1, <1>2, <1>3, <1>4, <1>5, <1>6, <1>7, <1>8, <1>9, <1>10, <1>11,
       <1>12 DEF Next

LEMMA FieldsStart ==
  Init => FieldsOK
  <1> SUFFICES ASSUME Init PROVE FieldsOK
    OBVIOUS
  <1>1. regFuncs_ = {} /\ error_mode_ = Mode /\ log_ = "null" /\ instance_ = "null"
    BY DEF Init
  <1>2. ret = "success" /\ script_log = 0 /\ lost_log = 0 /\ reported = 0 /\ status = "idle"
    BY DEF Init
  <1>3. currentlyExecuting_ \in BOOLEAN
    <2>1. currentlyExecuting_ = FALSE
      BY SMT DEF Init
    <2> QED
      BY <2>1
  <1> QED
    BY <1>1, <1>2, <1>3 DEF FieldsOK, Statuses

-----------------------------------------------------------------------------
\* What an interpreted run counts, both logs count from the same start and together.
\* A log that holds errors is open between runs only when a run ended by an exception.
InRun == run.how = "interpret" /\ status \in {"running", "asking"}

CountsInv ==
  /\ status = "filling" => run.how = "jit"
  /\ log_ = "open" /\ script_log > 0 => EndedByException \/ InRun \/ status = "crashed"
  /\ lost_log > 0 => EndedByException
  /\ LoggedWhereAsked

LEMMA EndsKept ==
  ASSUME PoolInv, Next, EndedByException
  PROVE  EndedByException'
  <1>1. Grows => EndedByException'
    BY DEF Grows, EndedByException
  <1>2. CASE Fails
    <2>1. PICK kind, about, layers : Layered(kind, layers) /\ Throw(kind, about, layers, "failed")
      BY <1>2 DEF Fails
    <2> QED
      BY <1>1, <1>2, <2>1, ThrowStep DEF Fails, PoolInv
  <1>3. CASE Asks
    <2>1. PICK kind \in {"fatal", "userFatal"} : \E about : Throw(kind, about, <<>>, "asking")
      BY <1>3 DEF Asks
    <2>2. PICK about : Throw(kind, about, <<>>, "asking")
      BY <2>1
    <2>3. Layered(kind, <<>>)
      BY DEF Layered, Origins
    <2> QED
      BY <1>1, <1>3, <2>2, <2>3, ThrowStep DEF Asks, PoolInv
  <1>4. CASE UNCHANGED pool
    BY <1>4 DEF EndedByException
  <1> QED
    BY <1>1, <1>2, <1>3, <1>4, ExceptionSteps, RefuseStep DEF Quiet, Catch

\* A step that counts nothing and ends no run but with its log closed.
LEMMA CountsKept ==
  ASSUME CountsInv, EndedByException => EndedByException',
         UNCHANGED <<error_mode_, logs, reported, run>>, log_' \in {log_, "null"},
         status \notin {"crashed", "exited"}, status' # "exited",
         status' = "filling" => status = "filling",
         InRun => InRun' \/ EndedByException' \/ status' = "crashed" \/ log_' = "null"
  PROVE  CountsInv'
  <1>1. UNCHANGED <<script_log, lost_log>>
    BY DEF logs
  <1>2. LoggedWhereAsked'
    BY <1>1 DEF CountsInv, LoggedWhereAsked, Overwritten
  <1>3. log_' = "open" /\ script_log' > 0 => EndedByException' \/ InRun' \/ status' = "crashed"
    BY <1>1 DEF CountsInv
  <1> QED
    BY <1>1, <1>2, <1>3 DEF CountsInv

LEMMA ErrorsCounted ==
  ASSUME CountsInv, FieldsOK, EndedByException => EndedByException',
         NEW value, NEW kind, CheckError(value, kind),
         status = "running", run.how = "interpret", UNCHANGED <<error_mode_, run, lost_log, log_>>
  PROVE  CountsInv'
  <1>1. status' \in {"running", "asking", "crashed"}
    BY DEF CheckError, Throw
  <1>2. /\ reported' = reported + IF value = "success" THEN 0 ELSE 1
        /\ script_log' = script_log + IF value # "success" /\ error_mode_ = "log" THEN 1 ELSE 0
    BY DEF CheckError, Report
  <1>3. error_mode_ = "log" /\ script_log = reported => script_log' = reported'
    BY <1>2
  <1>4. LoggedWhereAsked'
    BY <1>1, <1>3 DEF CountsInv, LoggedWhereAsked, Overwritten
  <1> QED
    BY <1>1, <1>4 DEF CountsInv, InRun

LEMMA CountsStep ==
  ASSUME CountsInv, FieldsOK, PoolInv, [Next]_vars
  PROVE  CountsInv'
  <1>0. CASE UNCHANGED vars
    BY <1>0 DEF vars, CountsInv, InRun, EndedByException, LoggedWhereAsked, Overwritten
  <1>e. Next => (EndedByException => EndedByException')
    BY EndsKept
  <1>1. ASSUME NEW s \in DOMAIN Scripts, Compile(s) PROVE CountsInv'
    <2>1. status = "idle" /\ status' \in {"idle", "failed", "crashed"}
      BY <1>1 DEF Compile, Called, Throw
    <2> QED
      BY <1>1, <1>e, <2>1, CountsKept DEF Compile, processor, Next, InRun
  <1>2. CASE NoSource
    <2>1. status = "idle" /\ status' \in {"failed", "crashed"}
      BY <1>2 DEF NoSource, Called, Throw
    <2> QED
      BY <1>2, <1>e, <2>1, CountsKept DEF NoSource, processor, Next, InRun
  <1>3. CASE (\E names \in SUBSET Offered : RegFuncs(names)) \/ ClearFuncs
    BY <1>3, <1>e, CountsKept DEF RegFuncs, ClearFuncs, Called, Next, InRun
  <1>4. ASSUME NEW named \in BOOLEAN, RunScript(named) PROVE CountsInv'
    <2>1. status = "idle" /\ status' \in {"failed", "crashed", "running"}
      BY <1>4, NewInstanceStatus DEF RunScript, Called
    <2>2. /\ run' = [how |-> "interpret", named |-> named] /\ reported' = 0
          /\ error_mode_' = IF error_mode_ = "log" /\ ~named THEN "silent" ELSE error_mode_
          /\ script_log' = IF error_mode_ = "log" /\ named THEN 0 ELSE script_log
          /\ log_' = IF error_mode_ = "log" /\ named THEN "open" ELSE log_
          /\ lost_log' = IF error_mode_ = "log" /\ named /\ log_ = "open"
                         THEN lost_log + script_log ELSE lost_log
      BY <1>4 DEF RunScript, OpenLog
    <2>3. EndedByException => EndedByException'
      BY <1>4, <1>e DEF Next
    <2>4. LoggedWhereAsked'
      BY <2>1, <2>2 DEF LoggedWhereAsked, Overwritten
    <2>5. log_ = "open" /\ script_log > 0 => EndedByException'
      BY <2>1, <2>3 DEF CountsInv, InRun
    <2>6. lost_log' > 0 => EndedByException'
      <3>1. CASE lost_log' = lost_log
        BY <2>3, <3>1 DEF CountsInv
      <3>2. CASE log_ = "open" /\ lost_log' = lost_log + script_log
        <4>1. lost_log' > 0 => lost_log > 0 \/ script_log > 0
          BY <3>2 DEF FieldsOK
        <4> QED
          BY <2>3, <2>5, <3>2, <4>1 DEF CountsInv
      <3> QED
        BY <2>2, <3>1, <3>2
    <2>7. log_' = "open" /\ script_log' > 0 => EndedByException'
      BY <2>2, <2>5
    <2> QED
      BY <2>1, <2>4, <2>6, <2>7 DEF CountsInv
  <1>5. CASE RunScriptJit
    <2>1. /\ run' = [how |-> "jit", named |-> FALSE] /\ status = "idle"
          /\ UNCHANGED <<log_, script_log, lost_log>>
      BY <1>5 DEF RunScriptJit, Called, logs
    <2>2. EndedByException => EndedByException'
      BY <1>5, <1>e DEF Next
    <2> QED
      BY <2>1, <2>2 DEF CountsInv, InRun, LoggedWhereAsked
  <1>6. CASE FillJitCompiler
    <2>1. run' = run /\ run.how = "jit" /\ UNCHANGED <<log_, lost_log>> /\ status = "filling"
      BY <1>6 DEF FillJitCompiler, CountsInv, processor
    <2>2. EndedByException => EndedByException'
      BY <1>6, <1>e DEF Next
    <2>3. status' \in {"running", "failed", "crashed"}
      BY <1>6 DEF FillJitCompiler, Throw
    <2>4. CASE UNCHANGED script_log
      BY <2>1, <2>2, <2>3, <2>4 DEF CountsInv, InRun, LoggedWhereAsked
    <2>5. CASE Throw("jitFatal", Where, <<"processor">>, "failed")
      <3>1. Layered("jitFatal", <<"processor">>)
        BY DEF Layered
      <3>2. status' # "crashed" => EndedByException'
        <4>1. Thrown("jitFatal")
          BY <2>1, <2>5, <3>1, ThrowStep DEF PoolInv
        <4> QED
          BY <4>1 DEF Thrown, EndedByException
      <3> QED
        BY <2>1, <2>2, <2>3, <3>2 DEF CountsInv, LoggedWhereAsked
    <2> QED
      BY <1>6, <2>4, <2>5 DEF FillJitCompiler
  <1>7. CASE Command
    <2>1. EndedByException => EndedByException'
      BY <1>7, <1>e DEF Next
    <2> QED
      BY <1>7, <2>1, ErrorsCounted DEF Command, Fetched, processor
  <1>8. CASE UFunc
    <2>1. EndedByException => EndedByException'
      BY <1>8, <1>e DEF Next
    <2> QED
      BY <1>8, <2>1, ErrorsCounted DEF UFunc, Fetched, processor
  <1>9. CASE Refuse
    <2>1. status = "asking" /\ status' \in {"failed", "crashed"}
      BY <1>9 DEF Refuse, Rethrow
    <2>2. status' # "crashed" => EndedByException'
      BY <1>9, RefuseStep DEF Thrown, EndedByException
    <2> QED
      BY <1>9, <1>e, <2>1, <2>2, CountsKept DEF Refuse, processor, history, Next
  <1>10. CASE Wild \/ Proceed \/ Finish
    <2>1. EndedByException => EndedByException'
      BY <1>10, <1>e DEF Next
    <2> QED
      BY <1>10, <2>1, CountsKept DEF Wild, Proceed, Finish, Fetched, processor, history, InRun
  <1>11. CASE JitCommand \/ JitUFunc \/ JitFinish
    <2>1. EndedByException => EndedByException'
      BY <1>11, <1>e DEF Next
    <2> QED
      BY <1>11, <2>1, CountsKept
         DEF JitCommand, JitUFunc, JitFinish, Fetched, processor, history, InRun
  <1>12. CASE Catch
    <2>1. EndedByException => EndedByException'
      BY <1>12, <1>e DEF Next
    <2> QED
      BY <1>12, <2>1, CountsKept DEF Catch, processor, history, InRun
  <1>13. CASE Exit
    <2>1. /\ status = "idle" /\ status' = "exited"
          /\ UNCHANGED <<error_mode_, log_, lost_log, reported, run, pool>>
          /\ script_log' \in IF lost_log = 0 THEN {script_log} ELSE 0 .. script_log
      BY <1>13 DEF Exit, processor, exceptions, history
    <2>2. lost_log = 0 \/ lost_log > 0
      BY DEF FieldsOK
    <2>3. script_log' > 0 => script_log > 0
      BY <2>1 DEF FieldsOK
    <2>4. EndedByException' <=> EndedByException
      BY <2>1 DEF EndedByException
    <2>5. LoggedWhereAsked'
      BY <2>1, <2>2, <2>4 DEF CountsInv, LoggedWhereAsked, Overwritten
    <2> QED
      BY <2>1, <2>3, <2>4, <2>5 DEF CountsInv, InRun
  <1> QED
    BY <1>0, <1>1, <1>2, <1>3, <1>4, <1>5, <1>6, <1>7, <1>8, <1>9, <1>10, <1>11, <1>12, <1>13
       DEF Next

\* In an interpreted run that was given a log, of a processor still in MODE_LOG, every
\* error is in that log (RunScript, CHECK_ERROR), and the end of the program changes the
\* log only if a run had ended by an exception (Compiler.h:264): LoggedWhereAsked.
THEOREM ErrorsAreLogged == Spec => []LoggedWhereAsked
  <1>1. Init => CountsInv
    BY DEF Init, CountsInv, LoggedWhereAsked, Overwritten
  <1>2. CountsInv => LoggedWhereAsked
    BY DEF CountsInv
  <1> QED
    BY <1>1, <1>2, CountsStep, FieldsStart, FieldsStep, PoolStart, PoolStep, PTL DEF Spec

-----------------------------------------------------------------------------
\* As many numbers below n as n.
LEMMA Numbers ==
  ASSUME NEW n \in Nat
  PROVE  Cardinality(0 .. n - 1) = n
  <1>1. 0 \in Int /\ n - 1 \in Int
    OBVIOUS
  <1>2. PICK k : k = n - 1
    OBVIOUS
  <1>3. Cardinality(0 .. k) = IF 0 > k THEN 0 ELSE k - 0 + 1
    BY <1>1, <1>2, FS_Interval
  <1> QED
    BY <1>2, <1>3

\* A number below the number of functions a program declares is the place of the
\* function of that number among the names, if they were declared in their order.
LEMMA CallFound ==
  ASSUME NEW p, IsProgram(p), CallsDeclared(p),
         NEW k \in {p.externs[n] : n \in DOMAIN p.externs},
         NEW m, m = Sorted(DOMAIN p.externs)[k + 1],
         \A a, b \in DOMAIN p.externs : Precedes(a, b) => p.externs[a] < p.externs[b]
  PROVE  m \in DOMAIN p.externs /\ p.externs[m] = k
  <1>1. PICK externs, names : externs = p.externs /\ names = DOMAIN p.externs
    OBVIOUS
  <1>2. PICK c : c = Cardinality(names)
    OBVIOUS
  <1>3. names \subseteq ToSet(NameOrder) /\ IsFiniteSet(names) /\ c \in Nat
    <2>1. names \subseteq ToSet(NameOrder)
      BY <1>1 DEF IsProgram
    <2> QED
      BY <1>2, <2>1, NamesFinite
  <1>4. {externs[n] : n \in names} = 0 .. c - 1
    BY <1>1, <1>2 DEF CallsDeclared
  <1>5. PICK n \in names : externs[n] = k
    BY <1>1
  <1>6. k \in 0 .. c - 1
    BY <1>4, <1>5
  <1>7. \A a \in names : externs[a] \in 0 .. c - 1
    BY <1>4
  <1>8. \A a \in names : Precedes(a, n) <=> externs[a] < k
    <2> TAKE a \in names
    <2>1. Precedes(a, n) => externs[a] < k
      BY <1>1, <1>5
    <2>2. Precedes(n, a) => k < externs[a]
      BY <1>1, <1>5
    <2>3. a # n => Precedes(a, n) \/ Precedes(n, a)
      BY <1>3, NamesOrdered
    <2>4. externs[a] \in Int /\ k \in Int
      BY <1>6, <1>7
    <2> QED
      BY <1>5, <2>1, <2>2, <2>3, <2>4
  <1>9. PICK few : few = Before(names, n)
    OBVIOUS
  <1>10. \A a \in names : a \in few <=> externs[a] < k
    BY <1>8, <1>9 DEF Before
  <1>11. few \subseteq names /\ IsFiniteSet(few)
    BY <1>3, <1>9, FS_Subset DEF Before
  <1> DEFINE num == [a \in names |-> externs[a]]
             low == [a \in few |-> externs[a]]
  <1>12. num \in Injection(names, 0 .. c - 1)
    <2>1. num \in Surjection(names, 0 .. c - 1)
      <3>1. num \in [names -> 0 .. c - 1]
        BY <1>7
      <3>2. \A i \in 0 .. c - 1 : \E a \in names : num[a] = i
        BY <1>4
      <3> QED
        BY <3>1, <3>2 DEF Surjection
    <2>2. Cardinality(0 .. c - 1) = Cardinality(names)
      BY <1>2, <1>3, Numbers
    <2> HIDE DEF num
    <2> QED
      BY <1>3, <2>1, <2>2, FS_SurjSameCardinalityImpliesInj
  <1>13. low \in Bijection(few, 0 .. k - 1)
    <2>1. low \in [few -> 0 .. k - 1]
      BY <1>6, <1>7, <1>10, <1>11
    <2>2. \A a, b \in few : low[a] = low[b] => a = b
      <3>1. \A a, b \in names : num[a] = num[b] => a = b
        BY <1>12 DEF Injection, IsInjective
      <3> QED
        BY <1>11, <3>1
    <2>3. \A i \in 0 .. k - 1 : \E a \in few : low[a] = i
      <3> TAKE i \in 0 .. k - 1
      <3>0. c \in Int /\ k \in Int /\ k <= c - 1
        BY <1>3, <1>6
      <3>1. i \in 0 .. c - 1 /\ i < k
        BY <3>0, SMT
      <3>2. PICK a \in names : externs[a] = i
        BY <1>4, <3>1
      <3>3. a \in few /\ low[a] = i
        BY <1>10, <3>1, <3>2
      <3> QED
        BY <3>3
    <2>4. low \in Injection(few, 0 .. k - 1)
      BY <2>1, <2>2 DEF Injection, IsInjective
    <2>5. low \in Surjection(few, 0 .. k - 1)
      BY <2>1, <2>3 DEF Surjection
    <2> QED
      BY <2>4, <2>5 DEF Bijection
  <1>14. Cardinality(few) = k
    <2>1. Cardinality(0 .. k - 1) = Cardinality(few)
      BY <1>11, <1>13, FS_Bijection DEF ExistsBijection
    <2>2. k \in Nat
      BY <1>6
    <2> QED
      BY <2>1, <2>2, Numbers
  <1>15. Sorted(names)[Cardinality(Before(names, n)) + 1] = n
    <2>1. PICK q : q = Sorted(names)
      OBVIOUS
    <2> QED
      BY <1>3, <2>1, SortedNames
  <1>16. m = n
    BY <1>1, <1>9, <1>14, <1>15
  <1> QED
    BY <1>1, <1>5, <1>16

-----------------------------------------------------------------------------
\* The file is none the loader takes, or what was compiled last; what is being run is
\* what the file says.
Runs == status \in {"filling", "running", "asking"}

Made(p) == IsProgram(p) /\ CallsDeclared(p)

FileInv ==
  /\ pcs \in {<<>>, << <<"header", 2019>> >>} \/ (pcs = Save(compiled) /\ Made(compiled))
  /\ Runs => SameProgram(program, compiled) /\ Made(compiled)
  /\ Len(program.lines) \in Nat
  /\ line \in 1 .. Len(program.lines) + 1
  /\ status = "asking" => line <= Len(program.lines)
  /\ CallsByName

LEMMA FileKept ==
  ASSUME FileInv, UNCHANGED <<compiled, pcs, program, line, called>>,
         Runs' => Runs,
         status' = "asking" => line <= Len(program.lines)
  PROVE  FileInv'
  BY DEF FileInv, CallsByName

\* What the loader makes of a file that is taken is the program.
LEMMA Loaded ==
  ASSUME FileInv, NEW layers, NEW next \in {"running", "filling"}, NewInstance(layers, next),
         UNCHANGED <<compiled, pcs, called>>, line' = 1
  PROVE  FileInv'
  <1>0. CASE UNCHANGED program /\ status' \in {"failed", "crashed"}
    <2>1. Len(program'.lines) \in Nat /\ line' \in 1 .. Len(program'.lines) + 1
      BY <1>0 DEF FileInv
    <2> QED
      BY <1>0, <2>1 DEF FileInv, Runs, CallsByName
  <1>1. CASE /\ pcs # <<>> /\ CheckHeader(pcs) /\ status' = next
             /\ \E lines \in IF Load(pcs).ok THEN {Load(pcs).lines} ELSE Misread :
                  program' = [Load(pcs) EXCEPT !.lines = lines]
    <2>1. pcs # << <<"header", 2019>> >>
      BY <1>1 DEF CheckHeader, Header
    <2>2. pcs = Save(compiled) /\ Made(compiled)
      BY <1>1, <2>1 DEF FileInv
    <2>3. PICK l, p, q : l = Load(pcs) /\ p = compiled /\ q = program'
      OBVIOUS
    <2>4. /\ SameProgram(l, p)
          /\ AllClean(p.strings) => l.ok
          /\ l.lines \in {compiled.lines, <<>>}
      BY <2>2, <2>3, RoundTrip DEF Made
    <2>5. PICK lines : /\ q = [l EXCEPT !.lines = lines]
                       /\ l.ok => lines = l.lines
                       /\ ~l.ok => lines \in Misread
      BY <1>1, <2>3
    <2>6. /\ q.dlls = l.dlls /\ q.vars = l.vars /\ q.userFuncs = l.userFuncs
          /\ q.strings = l.strings /\ q.lines = lines
      BY <2>3, <2>5, OtherLines
    <2>7. SameProgram(program', compiled)
      <3>1. AllClean(p.strings) => lines = l.lines
        BY <2>4, <2>5
      <3>2. SameProgram(q, p)
        BY <2>4, <2>6, <3>1 DEF SameProgram
      <3> QED
        BY <2>3, <3>2
    <2>8. Len(lines) \in Nat
      <3>1. Len(compiled.lines) \in Nat /\ Len(<<>>) \in Nat
        <4>1. compiled.lines \in Seq(ToSet(compiled.lines))
          BY <2>2 DEF Made, IsProgram
        <4> QED
          BY <4>1
      <3>2. lines \in Misread => Len(lines) \in Nat
        <4>1. lines \in Misread => lines \in Seq(ToSet(lines))
          BY MisreadAssumption
        <4> QED
          BY <4>1
      <3> QED
        BY <2>4, <2>5, <3>1, <3>2
    <2>9. Len(program'.lines) \in Nat /\ line' \in 1 .. Len(program'.lines) + 1
      BY <2>3, <2>6, <2>8
    <2>10. SameProgram(program', compiled') /\ Made(compiled')
      BY <2>2, <2>7
    <2> QED
      BY <1>1, <2>2, <2>9, <2>10 DEF FileInv, Runs, CallsByName
  <1> QED
    BY <1>0, <1>1, NewInstanceCases DEF Throw

\* A line that calls calls the function of that number.
LEMMA CallKept ==
  ASSUME FileInv, Runs, program.lines[line][2] \in Imported,
         CallImportFunc(program.lines[line][2])
  PROVE  CallsByName'
  <1>1. SameProgram(program, compiled) /\ Made(compiled)
    BY DEF FileInv
  <1>2. PICK k : k = program.lines[line][2]
    OBVIOUS
  <1>3. program.userFuncs = Sorted(DOMAIN compiled.externs)
    BY <1>1 DEF SameProgram
  <1>4. DOMAIN compiled.externs \subseteq ToSet(NameOrder)
    BY <1>1 DEF Made, IsProgram
  <1>5. k \in {compiled.externs[n] : n \in DOMAIN compiled.externs}
    <2>1. Len(program.userFuncs) = Cardinality(DOMAIN compiled.externs)
      BY <1>3, <1>4, SortedNames
    <2> QED
      BY <1>1, <1>2, <2>1 DEF Made, CallsDeclared, Imported
  <1>6. PICK m : m = Sorted(DOMAIN compiled.externs)[k + 1]
    OBVIOUS
  <1>7. called' = [number |-> k, ran |-> m, externs |-> compiled.externs]
    BY <1>2, <1>3, <1>6 DEF CallImportFunc
  <1>8. (\A a, b \in DOMAIN compiled.externs :
           Precedes(a, b) => compiled.externs[a] < compiled.externs[b])
          => m \in DOMAIN compiled.externs /\ compiled.externs[m] = k
    BY <1>1, <1>5, <1>6, CallFound DEF Made
  <1> QED
    BY <1>7, <1>8 DEF CallsByName

\* The loop after a command: the next line, the question, or the end of the process.
LEMMA ErrorChecked ==
  ASSUME FileInv, status = "running", line <= Len(program.lines),
         NEW value, NEW kind, CheckError(value, kind),
         UNCHANGED <<compiled, pcs, program>>, CallsByName'
  PROVE  FileInv'
  <1>1. \/ line' = line /\ status' \in {"asking", "crashed"}
        \/ line' = line + 1 /\ status' = "running"
    BY DEF CheckError, Throw
  <1>2. line' \in 1 .. Len(program'.lines) + 1
    BY <1>1 DEF FileInv
  <1> QED
    BY <1>1, <1>2 DEF FileInv, Runs

LEMMA FileStep ==
  FileInv /\ [Next]_vars => FileInv'
  <1> SUFFICES ASSUME FileInv, [Next]_vars PROVE FileInv'
    OBVIOUS
  <1>0. CASE UNCHANGED vars
    BY <1>0, FileKept DEF vars, Runs, FileInv
  <1>1. ASSUME NEW s \in DOMAIN Scripts, Compile(s) PROVE FileInv'
    <2>1. ~Runs' /\ UNCHANGED <<program, line, called>>
      BY <1>1 DEF Compile, Called, Runs, Throw
    <2>2. CASE UNCHANGED files
      BY <2>1, <2>2, FileKept DEF files, Runs
    <2>3. CASE Scripts[s].parses /\ compiled' = Scripts[s].program /\ pcs' = Save(Scripts[s].program)
      <3>1. pcs' = Save(compiled') /\ Made(compiled')
        BY <2>3, ScriptsAssumption DEF Made
      <3> QED
        BY <2>1, <3>1 DEF FileInv, CallsByName, Runs
    <2> QED
      BY <1>1, <2>2, <2>3 DEF Compile
  <1>2. CASE NoSource
    <2>1. ~Runs'
      BY <1>2 DEF NoSource, Throw, Runs
    <2> QED
      BY <1>2, <2>1, FileKept DEF NoSource, files, Runs
  <1>3. CASE (\E names \in SUBSET Offered : RegFuncs(names)) \/ ClearFuncs
    BY <1>3, FileKept DEF RegFuncs, ClearFuncs, Called, files, Runs
  <1>4. ASSUME NEW named \in BOOLEAN, RunScript(named) PROVE FileInv'
    BY <1>4, Loaded DEF RunScript, files
  <1>5. CASE RunScriptJit
    BY <1>5, Loaded DEF RunScriptJit, files
  <1>6. CASE FillJitCompiler
    <2>1. Runs /\ status' # "asking"
      BY <1>6 DEF FillJitCompiler, Runs, Throw
    <2> QED
      BY <1>6, <2>1, FileKept DEF FillJitCompiler, files
  <1>7. CASE Command
    <2>1. Runs /\ line <= Len(program.lines) /\ UNCHANGED <<compiled, pcs, program, called>>
      BY <1>7 DEF Command, Fetched, files, Runs
    <2>2. CheckError(ret', "fatal")
      BY <1>7 DEF Command
    <2>3. UNCHANGED called => CallsByName'
      BY DEF FileInv, CallsByName
    <2>4. status = "running"
      BY <1>7 DEF Command, Fetched
    <2> QED
      BY <2>1, <2>2, <2>3, <2>4, ErrorChecked
  <1>8. CASE UFunc
    <2>1. Runs /\ line <= Len(program.lines) /\ UNCHANGED <<compiled, pcs, program>>
      BY <1>8 DEF UFunc, Fetched, files, Runs
    <2>2. CheckError(ret, "userFatal") /\ status = "running"
      BY <1>8 DEF UFunc, Fetched
    <2>3. CallsByName'
      BY <1>8, <2>1, CallKept DEF UFunc
    <2> QED
      BY <2>1, <2>2, <2>3, ErrorChecked
  <1>9. CASE Proceed
    <2>1. line' \in 1 .. Len(program.lines) + 1 /\ status' = "running" /\ Runs
      BY <1>9 DEF Proceed, FileInv, Runs
    <2> QED
      BY <1>9, <2>1 DEF Proceed, FileInv, CallsByName, files, history, Runs
  <1>10. CASE Refuse
    <2>1. ~Runs'
      BY <1>10 DEF Refuse, Rethrow, Runs
    <2> QED
      BY <1>10, <2>1, FileKept DEF Refuse, files, history, Runs
  <1>11. CASE Finish \/ JitFinish \/ Catch \/ Wild \/ Exit
    BY <1>11, FileKept DEF Finish, JitFinish, Catch, Wild, Exit, Fetched, files, history, Runs
  <1>12. CASE JitCommand
    <2>1. line' \in 1 .. Len(program.lines) + 1 /\ status' = "running" /\ Runs
      BY <1>12 DEF JitCommand, Fetched, FileInv, Runs
    <2> QED
      BY <1>12, <2>1 DEF JitCommand, FileInv, CallsByName, files, history, Runs
  <1>13. CASE JitUFunc
    <2>1. /\ line' \in 1 .. Len(program.lines) + 1 /\ status' \in {"running", "crashed"} /\ Runs
          /\ UNCHANGED <<compiled, pcs, program>>
      BY <1>13 DEF JitUFunc, Fetched, FileInv, Runs, files
    <2>2. CallsByName'
      BY <1>13, <2>1, CallKept DEF JitUFunc
    <2> QED
      BY <2>1, <2>2 DEF FileInv, Runs
  <1> QED
    BY <1>0, <1>1, <1>2, <1>3, <1>4, <1>5, <1>6, <1>7, <1>8, <1>9, <1>10, <1>11, <1>12, <1>13
       DEF Next

LEMMA FileStart ==
  Init => FileInv
  <1> SUFFICES ASSUME Init PROVE FileInv
    OBVIOUS
  <1>1. called.number = -1 /\ program.lines = <<>> /\ line = 1 /\ status = "idle"
    BY DEF Init, Empty
  <1> QED
    BY <1>1 DEF Init, FileInv, Runs, CallsByName

\* What runs is what was compiled last (Builder.h, Save; ScriptLoader.h): the DLLs, the
\* variables and the functions of the embedding program in any case, the strings up to
\* the first with the control character in it, and all strings and lines if there is
\* none: LoadedIsCompiled.
THEOREM FilesTell == Spec => []LoadedIsCompiled
  <1>1. FileInv => LoadedIsCompiled
    <2> SUFFICES ASSUME FileInv, Runs PROVE LoadedIsCompiled
      BY DEF LoadedIsCompiled, Runs
    <2>1. SameProgram(program, compiled) /\ IsProgram(compiled)
      BY DEF FileInv, Made
    <2>2. ToSet(program.userFuncs) = DOMAIN compiled.externs
      <3>1. PICK names, q : names = DOMAIN compiled.externs /\ q = Sorted(names)
        OBVIOUS
      <3>2. names \subseteq ToSet(NameOrder)
        BY <2>1, <3>1 DEF IsProgram
      <3>3. {q[i] : i \in DOMAIN q} = names
        BY <3>1, <3>2, SortedNames
      <3>4. program.userFuncs = q
        BY <2>1, <3>1 DEF SameProgram
      <3> QED
        BY <3>1, <3>3, <3>4 DEF ToSet
    <2>3. VarsAreCompiled
      BY <2>1 DEF SameProgram, SameVars, VarsAreCompiled
    <2> QED
      BY <2>1, <2>2, <2>3 DEF SameProgram, AllClean, LoadedIsCompiled
  <1> QED
    BY <1>1, FileStart, FileStep, PTL DEF Spec

\* A line that names a function of the embedding program calls that function, where
\* the script declares its functions in the order of their names: CallsByName.
THEOREM NamesCall == Spec => []CallsByName
  <1>1. FileInv => CallsByName
    BY DEF FileInv
  <1> QED
    BY <1>1, FileStart, FileStep, PTL DEF Spec

-----------------------------------------------------------------------------
\* The processor, the run and the pool are of their types; a record's cause is older
\* than the record and no more are in use than there are (Exception.h): TypeOK.
THEOREM SessionTypes == Spec => []TypeOK
  <1>1. FieldsOK /\ PoolInv /\ FileInv => TypeOK
    <2>1. FieldsOK /\ FileInv => line \in 1 .. Len(program.lines) + 1
      BY DEF FileInv
    <2>2. PoolInv => /\ \A i \in DOMAIN pool : pool[i].cause \in 0 .. i - 1
                     /\ Len(pool) <= PoolSize /\ thrown \in 0 .. Len(pool)
      BY DEF PoolInv, ExceptionsOK, Chained, IsSeq
    <2> QED
      BY <2>1, <2>2 DEF FieldsOK, Statuses, TypeOK
  <1> QED
    BY <1>1, FieldsStart, FieldsStep, PoolStart, PoolStep, FileStart, FileStep, PTL DEF Spec
=============================================================================
