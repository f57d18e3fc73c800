------------------------- MODULE ProgramFileProofs -------------------------
(***************************************************************************)
(* What Save writes, Load reads: RoundTrip, for every program, up to the first  *)
(* string with the control character in it.  The file is a sequence of words     *)
(* written one after the other (Flattened); a word that is placed in a file is    *)
(* found there by its reader (the lemmas named Read), so a table of them is        *)
(* (TableRead), and what follows it begins where it ends.                         *)
(***************************************************************************)
EXTENDS ProgramFile, SequenceFacts, FiniteSetTheorems

-----------------------------------------------------------------------------
\* What a sequence of words comes to, written one after the other: the k-th begins
\* behind place[k - 1].
IsFlat(f, n, ws) ==
  f = [i \in 1 .. n |-> IF i = 1 THEN ws[i] ELSE f[i - 1] \o ws[i]]

LEMMA FlatExists ==
  ASSUME NEW ws, NEW n \in Nat
  PROVE  \E f : IsFlat(f, n, ws)
  <1> DEFINE T == {m \in Nat : \E f : IsFlat(f, m, ws)}
  <1>1. 0 \in T
    <2> DEFINE f == [i \in 1 .. 0 |-> ws]
    <2>1. f = [i \in 1 .. 0 |-> IF i = 1 THEN ws[i] ELSE f[i - 1] \o ws[i]]
      OBVIOUS
    <2> HIDE DEF f
    <2>2. IsFlat(f, 0, ws)
      BY <2>1 DEF IsFlat
    <2> QED
      BY <2>2
  <1>2. ASSUME NEW m \in Nat, m \in T PROVE m + 1 \in T
    <2>1. PICK f : IsFlat(f, m, ws)
      BY <1>2
    <2> DEFINE Next(below, i) == below \o ws[i]
               g == [i \in 1 .. m + 1 |->
                       IF i = m + 1 THEN IF i = 1 THEN ws[i] ELSE Next(f[i - 1], i) ELSE f[i]]
    <2>2. \A i \in 1 .. m : g[i] = f[i]
      OBVIOUS
    <2>3. f = [i \in 1 .. m |-> IF i = 1 THEN ws[i] ELSE Next(f[i - 1], i)]
      BY <2>1 DEF IsFlat
    <2>4. g[m + 1] = IF m + 1 = 1 THEN ws[m + 1] ELSE Next(f[m], m + 1)
      OBVIOUS
    <2>5. DOMAIN g = 1 .. m + 1 /\ g = [i \in 1 .. m + 1 |-> g[i]]
      OBVIOUS
    <2> HIDE DEF Next, g
    <2>6. ASSUME NEW i \in 1 .. m + 1
          PROVE  g[i] = IF i = 1 THEN ws[i] ELSE Next(g[i - 1], i)
      <3>1. CASE i = m + 1
        <4>1. i # 1 => g[i - 1] = f[m]
          BY <2>2, <3>1
        <4> QED
          BY <2>4, <3>1, <4>1
      <3>2. CASE i \in 1 .. m
        <4>1. f[i] = IF i = 1 THEN ws[i] ELSE Next(f[i - 1], i)
          BY <2>3, <3>2
        <4>2. i # 1 => g[i - 1] = f[i - 1]
          BY <2>2, <3>2
        <4>3. g[i] = f[i]
          BY <2>2, <3>2
        <4> QED
          BY <4>1, <4>2, <4>3
      <3> QED
        BY <3>1, <3>2
    <2>7. g = [i \in 1 .. m + 1 |-> IF i = 1 THEN ws[i] ELSE Next(g[i - 1], i)]
      BY <2>5, <2>6
    <2>8. IsFlat(g, m + 1, ws)
      BY <2>7 DEF IsFlat, Next
    <2> QED
      BY <2>8
  <1> HIDE DEF T
  <1>3. n \in T
    BY <1>1, <1>2, Induction
  <1> QED
    BY <1>3 DEF T

Places(place, ws, flat) ==
  LET n == Len(ws)
  IN  /\ place \in [0 .. n -> Nat] /\ place[0] = 0 /\ place[n] = Len(flat)
      /\ \A k \in 1 .. n : /\ place[k] = place[k - 1] + Len(ws[k])
                           /\ place[k] <= Len(flat)
                           /\ \A i \in 1 .. Len(ws[k]) : flat[place[k - 1] + i] = ws[k][i]

LEMMA Flattened ==
  ASSUME NEW S, NEW ws \in Seq(Seq(S))
  PROVE  /\ FlattenSeq(ws) \in Seq(S)
         /\ \E place : Places(place, ws, FlattenSeq(ws))
  <1> DEFINE n == Len(ws)
             f == CHOOSE f : IsFlat(f, n, ws)
             F == [k \in 0 .. n |-> IF k = 0 THEN <<>> ELSE f[k]]
             place == [k \in 0 .. n |-> Len(F[k])]
  <1>0. n \in Nat /\ \A k \in 1 .. n : ws[k] \in Seq(S)
    OBVIOUS
  <1>1. IsFlat(f, n, ws)
    BY <1>0, FlatExists
  <1>2. FlattenSeq(ws) = IF n = 0 THEN ws ELSE f[n]
    BY DEF FlattenSeq, IsFlat
  <1> HIDE DEF f
  <1>3. FlattenSeq(ws) = F[n]
    BY <1>0, <1>2
  <1>4. F[0] = <<>>
    BY <1>0
  <1>a. f = [k \in 1 .. n |-> IF k = 1 THEN ws[k] ELSE f[k - 1] \o ws[k]]
    BY <1>1 DEF IsFlat
  <1>5. ASSUME NEW k \in 1 .. n PROVE F[k] = F[k - 1] \o ws[k]
    <2>0. k \in 0 .. n /\ k - 1 \in 0 .. n /\ k # 0
      BY <1>0
    <2>1. F[k] = f[k]
      BY <2>0
    <2>2. CASE k = 1
      <3>1. f[k] = ws[k]
        BY <1>a, <2>2, Zenon
      <3>2. F[k - 1] = <<>>
        BY <1>4, <2>2
      <3>3. <<>> \o ws[k] = ws[k]
        BY <1>0, ConcatEmptySeq
      <3> HIDE DEF F
      <3> QED
        BY <2>1, <3>1, <3>2, <3>3
    <2>3. CASE k # 1
      <3>1. f[k] = f[k - 1] \o ws[k]
        BY <1>a, <2>3, Zenon
      <3>2. F[k - 1] = f[k - 1]
        BY <2>0, <2>3
      <3> HIDE DEF F
      <3> QED
        BY <2>1, <3>1, <3>2
    <2> QED
      BY <2>2, <2>3
  <1>b. \A k \in 0 .. n : place[k] = Len(F[k])
    OBVIOUS
  <1>c. place = [k \in 0 .. n |-> place[k]]
    OBVIOUS
  <1> HIDE DEF F, n, place
  <1> DEFINE Good(k) == /\ F[k] \in Seq(S)
                        /\ \A j \in 1 .. k :
                             /\ place[j] \in Nat /\ place[j] = place[j - 1] + Len(ws[j])
                             /\ place[j] <= Len(F[k])
                             /\ \A i \in 1 .. Len(ws[j]) : F[k][place[j - 1] + i] = ws[j][i]
             T == {k \in Nat : k <= n => Good(k)}
  <1>6. 0 \in T
    <2>1. <<>> \in Seq(S)
      OBVIOUS
    <2>2. Good(0)
      BY <1>4, <2>1
    <2> QED
      BY <2>2
  <1>7. ASSUME NEW k \in Nat, k \in T PROVE k + 1 \in T
    <2> SUFFICES ASSUME k + 1 <= n PROVE Good(k + 1)
      OBVIOUS
    <2>1. Good(k) /\ k \in 0 .. n /\ k + 1 \in 1 .. n /\ k + 1 \in 0 .. n
      BY <1>0, <1>7
    <2> DEFINE a == F[k]
               b == ws[k + 1]
               c == F[k + 1]
    <2>2. a \in Seq(S) /\ b \in Seq(S) /\ c = a \o b
      <3>1. (k + 1) - 1 = k
        OBVIOUS
      <3>2. F[k + 1] = F[(k + 1) - 1] \o ws[k + 1]
        BY <1>5, <2>1
      <3>3. F[k + 1] = F[k] \o ws[k + 1]
        BY <3>1, <3>2
      <3> QED
        BY <1>0, <2>1, <3>3
    <2>3. /\ place[k] = Len(a) /\ place[k + 1] = Len(c)
      BY <1>b, <2>1
    <2>4. \A j \in 1 .. k :
            /\ place[j] \in Nat /\ place[j] = place[j - 1] + Len(ws[j])
            /\ place[j] <= Len(a) /\ Len(ws[j]) \in Nat
            /\ \A i \in 1 .. Len(ws[j]) : a[place[j - 1] + i] = ws[j][i]
      BY <1>0, <2>1
    <2> HIDE DEF a, b, c
    <2>5. /\ c \in Seq(S) /\ Len(c) = Len(a) + Len(b) /\ Len(a) \in Nat /\ Len(b) \in Nat
          /\ \A i \in 1 .. Len(a) : c[i] = a[i]
          /\ \A i \in 1 .. Len(b) : c[Len(a) + i] = b[i]
      <3>1. Len(a) \in Nat /\ Len(b) \in Nat /\ c \in Seq(S) /\ Len(c) = Len(a) + Len(b)
        BY <2>2, ConcatProperties
      <3>2. \A i \in 1 .. Len(a) + Len(b) : c[i] = IF i <= Len(a) THEN a[i] ELSE b[i - Len(a)]
        BY <2>2, ConcatProperties
      <3>3. \A i \in 1 .. Len(b) : Len(a) + i \in 1 .. Len(a) + Len(b) /\ ~ (Len(a) + i <= Len(a))
                                   /\ (Len(a) + i) - Len(a) = i
        BY <3>1
      <3> QED
        BY <3>1, <3>2, <3>3
    <2>6. ASSUME NEW j \in 1 .. k + 1
          PROVE  /\ place[j] \in Nat /\ place[j] = place[j - 1] + Len(ws[j])
                 /\ place[j] <= Len(c)
                 /\ \A i \in 1 .. Len(ws[j]) : c[place[j - 1] + i] = ws[j][i]
      <3>1. CASE j = k + 1
        <4>1. j - 1 = k /\ ws[j] = b
          BY <3>1 DEF b
        <4>2. place[j - 1] = Len(a) /\ place[j] = Len(c)
          BY <2>3, <3>1, <4>1
        <4>3. Len(ws[j]) \in Nat /\ Len(c) = Len(a) + Len(ws[j]) /\ Len(a) \in Nat
          BY <2>5, <4>1
        <4>4. \A i \in 1 .. Len(ws[j]) : c[place[j - 1] + i] = ws[j][i]
          BY <2>5, <4>1, <4>2
        <4> QED
          BY <4>2, <4>3, <4>4
      <3>2. CASE j \in 1 .. k
        <4>1. place[j - 1] \in Nat
          <5>1. j = 1 => place[j - 1] = 0
            BY <1>0, <1>4, <1>b
          <5>2. j # 1 => j - 1 \in 1 .. k
            BY <3>2
          <5> QED
            BY <2>4, <5>1, <5>2
        <4>2. /\ place[j] \in Nat /\ place[j] = place[j - 1] + Len(ws[j])
              /\ place[j] <= Len(a) /\ Len(ws[j]) \in Nat
              /\ \A i \in 1 .. Len(ws[j]) : a[place[j - 1] + i] = ws[j][i]
          BY <2>4, <3>2
        <4>3. place[j] <= Len(c)
          BY <2>5, <4>2
        <4>4. ASSUME NEW i \in 1 .. Len(ws[j]) PROVE c[place[j - 1] + i] = ws[j][i]
          <5>1. place[j - 1] + i \in 1 .. Len(a)
            <6>1. PICK p \in Nat, l \in Nat : p = place[j - 1] /\ l = Len(ws[j])
              BY <4>1, <4>2
            <6>2. i \in 1 .. l /\ p + l <= Len(a)
              BY <4>2, <6>1
            <6>3. p + i \in 1 .. Len(a)
              BY <2>5, <6>2
            <6> QED
              BY <6>1, <6>3
          <5> QED
            BY <2>5, <4>2, <5>1
        <4> QED
          BY <4>2, <4>3, <4>4
      <3> QED
        BY <3>1, <3>2
    <2> QED
      BY <2>5, <2>6 DEF c
  <1> HIDE DEF T
  <1>8. n \in T
    BY <1>0, <1>6, <1>7, Induction
  <1>9. Good(n)
    BY <1>0, <1>8 DEF T
  <1>10. place[0] = 0
    BY <1>0, <1>4, <1>b
  <1>11. place[n] = Len(F[n])
    BY <1>0, <1>b
  <1>12. place \in [0 .. n -> Nat]
    <2>1. ASSUME NEW k \in 0 .. n PROVE place[k] \in Nat
      <3>1. k = 0 \/ k \in 1 .. n
        BY <1>0
      <3> QED
        BY <1>9, <1>10, <3>1
    <2> QED
      BY <1>c, <2>1
  <1>13. Places(place, ws, F[n])
    BY <1>9, <1>10, <1>11, <1>12 DEF Places, n
  <1> QED
    BY <1>3, <1>9, <1>13

-----------------------------------------------------------------------------
\* A table is read item by item.
Cursor(at, out) == [at |-> at, out |-> out, ok |-> TRUE]

After(c, item) ==
  [at |-> item[c.at].at, out |-> Append(c.out, item[c.at].out), ok |-> c.ok /\ item[c.at].ok]

IsTable(g, n, at, item) ==
  g = [k \in 0 .. n |-> IF k = 0 THEN Start(at + 1) ELSE After(g[k - 1], item)]

LEMMA TableExists ==
  ASSUME NEW n \in Nat, NEW at, NEW item
  PROVE  \E g : IsTable(g, n, at, item)
  <1> DEFINE T == {m \in Nat : \E g : IsTable(g, m, at, item)}
  <1>1. 0 \in T
    <2> DEFINE g == [k \in 0 .. 0 |-> Start(at + 1)]
    <2>1. g = [k \in 0 .. 0 |-> IF k = 0 THEN Start(at + 1) ELSE After(g[k - 1], item)]
      OBVIOUS
    <2> HIDE DEF g
    <2>2. IsTable(g, 0, at, item)
      BY <2>1 DEF IsTable
    <2> QED
      BY <2>2
  <1>2. ASSUME NEW m \in Nat, m \in T PROVE m + 1 \in T
    <2>1. PICK f : IsTable(f, m, at, item)
      BY <1>2
    <2> DEFINE g == [k \in 0 .. m + 1 |-> IF k = m + 1 THEN After(f[m], item) ELSE f[k]]
               s == Start(at + 1)
    <2>2. \A k \in 0 .. m : g[k] = f[k]
      OBVIOUS
    <2>3. f = [k \in 0 .. m |-> IF k = 0 THEN s ELSE After(f[k - 1], item)]
      BY <2>1 DEF IsTable
    <2>4. g[m + 1] = After(f[m], item)
      OBVIOUS
    <2>5. DOMAIN g = 0 .. m + 1 /\ g = [k \in 0 .. m + 1 |-> g[k]]
      OBVIOUS
    <2> HIDE DEF g, s
    <2>6. ASSUME NEW k \in 0 .. m + 1
          PROVE  g[k] = IF k = 0 THEN s ELSE After(g[k - 1], item)
      <3>1. CASE k = m + 1
        <4>1. k # 0 /\ g[k - 1] = f[m]
          BY <2>2, <3>1
        <4> QED
          BY <2>4, <3>1, <4>1
      <3>2. CASE k \in 0 .. m
        <4>1. f[k] = IF k = 0 THEN s ELSE After(f[k - 1], item)
          BY <2>3, <3>2
        <4>2. k # 0 => g[k - 1] = f[k - 1]
          BY <2>2, <3>2
        <4>3. g[k] = f[k]
          BY <2>2, <3>2
        <4> QED
          BY <4>1, <4>2, <4>3
      <3> QED
        BY <3>1, <3>2
    <2>7. g = [k \in 0 .. m + 1 |-> IF k = 0 THEN s ELSE After(g[k - 1], item)]
      BY <2>5, <2>6
    <2>8. IsTable(g, m + 1, at, item)
      BY <2>7 DEF IsTable, s
    <2> QED
      BY <2>8
  <1> HIDE DEF T
  <1>3. n \in T
    BY <1>1, <1>2, Induction
  <1> QED
    BY <1>3 DEF T

LEMMA TableUnfolds ==
  ASSUME NEW f, NEW at, NEW item, CountAt(f, at) \in Nat
  PROVE  \E g : /\ Table(f, at, item) = g[CountAt(f, at)]
                /\ g[0] = Start(at + 1)
                /\ \A k \in 1 .. CountAt(f, at) : g[k] = After(g[k - 1], item)
  <1> DEFINE n == CountAt(f, at)
             g == CHOOSE g : IsTable(g, n, at, item)
  <1>1. IsTable(g, n, at, item)
    BY TableExists
  <1>2. Table(f, at, item) = IF n < 0 THEN [Start(at) EXCEPT !.ok = FALSE] ELSE g[n]
    BY DEF Table, IsTable, After
  <1> HIDE DEF g, n
  <1>3. n \in Nat
    BY DEF n
  <1>4. g = [k \in 0 .. n |-> IF k = 0 THEN Start(at + 1) ELSE After(g[k - 1], item)]
    BY <1>1 DEF IsTable
  <1>5. g[0] = Start(at + 1)
    BY <1>3, <1>4
  <1>6. ASSUME NEW k \in 1 .. n PROVE g[k] = After(g[k - 1], item)
    <2>1. k \in 0 .. n /\ k # 0
      BY <1>3
    <2> QED
      BY <1>4, <2>1
  <1>7. Table(f, at, item) = g[n]
    BY <1>2, <1>3
  <1> QED
    BY <1>5, <1>6, <1>7 DEF n

LEMMA TableMissing ==
  ASSUME NEW f, NEW at, NEW item, CountAt(f, at) = -1
  PROVE  Table(f, at, item).out = <<>>
  <1>1. Table(f, at, item) = [Start(at) EXCEPT !.ok = FALSE]
    BY DEF Table
  <1> QED
    BY <1>1 DEF Start

LEMMA FrontGrows ==
  ASSUME NEW s, IsSeq(s), NEW k \in 0 .. Len(s) - 1
  PROVE  Append(SubSeq(s, 1, k), s[k + 1]) = SubSeq(s, 1, k + 1)
  <1> DEFINE a == SubSeq(s, 1, k)
             b == SubSeq(s, 1, k + 1)
             c == Append(a, s[k + 1])
  <1>0. Len(s) \in Nat /\ k \in 0 .. Len(s) /\ k + 1 \in 0 .. Len(s) /\ k \in Nat
    BY DEF IsSeq
  <1>1. IsSeq(a) /\ Len(a) = k /\ \A i \in 1 .. k : a[i] = s[i]
    BY <1>0, FrontIsSeq
  <1>2. IsSeq(b) /\ Len(b) = k + 1 /\ \A i \in 1 .. k + 1 : b[i] = s[i]
    BY <1>0, FrontIsSeq
  <1>3. /\ IsSeq(c) /\ Len(c) = Len(a) + 1
        /\ \A i \in 1 .. Len(a) : c[i] = a[i]
        /\ c[Len(a) + 1] = s[k + 1]
    BY <1>1, AppendIsSeq
  <1> HIDE DEF a, b, c
  <1>4. Len(c) = Len(b)
    BY <1>1, <1>2, <1>3
  <1>5. ASSUME NEW i \in 1 .. Len(c) PROVE c[i] = b[i]
    <2>1. i \in 1 .. k \/ i = k + 1
      BY <1>0, <1>1, <1>3
    <2> QED
      BY <1>0, <1>1, <1>2, <1>3, <2>1
  <1>6. c = b
    BY <1>2, <1>3, <1>4, <1>5, SameSeq
  <1> QED
    BY <1>6 DEF a, b, c

\* w stands in the file f behind its first b tokens.
Placed(f, b, w) ==
  /\ b \in Nat /\ Len(w) \in Nat /\ Len(f) \in Nat /\ b + Len(w) <= Len(f)
  /\ \A i \in 1 .. Len(w) : f[b + i] = w[i]

LEMMA PlacedParts ==
  ASSUME NEW S, NEW u \in Seq(S), NEW v \in Seq(S), NEW f, NEW b
  PROVE  Placed(f, b, u \o v) <=> Placed(f, b, u) /\ Placed(f, b + Len(u), v) /\ b \in Nat
  <1> DEFINE w == u \o v
  <1>1. /\ Len(u) \in Nat /\ Len(v) \in Nat /\ Len(w) = Len(u) + Len(v)
        /\ \A i \in 1 .. Len(u) + Len(v) : w[i] = IF i <= Len(u) THEN u[i] ELSE v[i - Len(u)]
    BY ConcatProperties
  <1> HIDE DEF w
  <1>2. /\ \A i \in 1 .. Len(u) : i \in 1 .. Len(w) /\ w[i] = u[i]
        /\ \A i \in 1 .. Len(v) : Len(u) + i \in 1 .. Len(w) /\ w[Len(u) + i] = v[i]
        /\ \A i \in 1 .. Len(w) : i \in 1 .. Len(u) \/ \E j \in 1 .. Len(v) : i = Len(u) + j
    <2>1. ASSUME NEW i \in 1 .. Len(v) PROVE Len(u) + i \in 1 .. Len(w) /\ w[Len(u) + i] = v[i]
      <3>1. Len(u) + i \in 1 .. Len(u) + Len(v) /\ ~ (Len(u) + i <= Len(u)) /\ (Len(u) + i) - Len(u) = i
        BY <1>1
      <3> QED
        BY <1>1, <3>1
    <2>2. ASSUME NEW i \in 1 .. Len(w) PROVE i \in 1 .. Len(u) \/ \E j \in 1 .. Len(v) : i = Len(u) + j
      <3>1. i \notin 1 .. Len(u) => i - Len(u) \in 1 .. Len(v) /\ i = Len(u) + (i - Len(u))
        BY <1>1
      <3> QED
        BY <3>1
    <2> QED
      BY <1>1, <2>1, <2>2
  <1>3. ASSUME b \in Nat
        PROVE  (\A i \in 1 .. Len(w) : f[b + i] = w[i])
                 <=> /\ \A i \in 1 .. Len(u) : f[b + i] = u[i]
                     /\ \A i \in 1 .. Len(v) : f[(b + Len(u)) + i] = v[i]
    <2>1. \A j \in 1 .. Len(v) : (b + Len(u)) + j = b + (Len(u) + j)
      BY <1>1, <1>3
    <2>2. ASSUME \A i \in 1 .. Len(w) : f[b + i] = w[i]
          PROVE  /\ \A i \in 1 .. Len(u) : f[b + i] = u[i]
                 /\ \A i \in 1 .. Len(v) : f[(b + Len(u)) + i] = v[i]
      BY <1>2, <2>1, <2>2
    <2>3. ASSUME \A i \in 1 .. Len(u) : f[b + i] = u[i],
                 \A i \in 1 .. Len(v) : f[(b + Len(u)) + i] = v[i],
                 NEW i \in 1 .. Len(w)
          PROVE  f[b + i] = w[i]
      <3>1. CASE i \in 1 .. Len(u)
        BY <1>2, <2>3, <3>1
      <3>2. ASSUME NEW j \in 1 .. Len(v), i = Len(u) + j PROVE f[b + i] = w[i]
        <4>1. f[(b + Len(u)) + j] = v[j] /\ w[Len(u) + j] = v[j]
          BY <1>2, <2>3, <3>2
        <4>2. (b + Len(u)) + j = b + i
          BY <2>1, <3>2
        <4> QED
          BY <3>2, <4>1, <4>2
      <3> QED
        BY <1>2, <3>1, <3>2
    <2> QED
      BY <2>2, <2>3
  <1>4. ASSUME b \in Nat
        PROVE  Placed(f, b, w) <=> Placed(f, b, u) /\ Placed(f, b + Len(u), v)
    BY <1>1, <1>3, <1>4 DEF Placed
  <1>5. Placed(f, b, w) => b \in Nat
    BY DEF Placed
  <1> QED
    BY <1>4, <1>5 DEF w

\* The same of sequences of whatever they hold.
Words(ws) == IsSeq(ws) /\ \A k \in 1 .. Len(ws) : IsSeq(ws[k])

LEMMA Common ==
  ASSUME NEW u, IsSeq(u), NEW v, IsSeq(v)
  PROVE  \E S : u \in Seq(S) /\ v \in Seq(S)
  <1> DEFINE S == {u[i] : i \in DOMAIN u} \cup {v[i] : i \in DOMAIN v}
  <1>1. u \in Seq(S) /\ v \in Seq(S)
    BY DEF IsSeq
  <1> QED
    BY <1>1

LEMMA CommonWords ==
  ASSUME NEW ws, Words(ws)
  PROVE  \E S : ws \in Seq(Seq(S))
  <1> DEFINE S == UNION {{ws[k][i] : i \in DOMAIN ws[k]} : k \in DOMAIN ws}
  <1>0. DOMAIN ws = 1 .. Len(ws) /\ ws \in Seq({ws[k] : k \in DOMAIN ws})
    BY DEF Words, IsSeq
  <1>1. ASSUME NEW k \in DOMAIN ws PROVE ws[k] \in Seq(S)
    <2>1. ws[k] \in Seq({ws[k][i] : i \in DOMAIN ws[k]})
      BY <1>0 DEF Words, IsSeq
    <2>2. {ws[k][i] : i \in DOMAIN ws[k]} \subseteq S
      OBVIOUS
    <2> HIDE DEF S
    <2> QED
      BY <2>1, <2>2
  <1> HIDE DEF S
  <1>2. ws \in Seq(Seq(S))
    BY <1>0, <1>1
  <1> QED
    BY <1>2

LEMMA ConcatIsSeq ==
  ASSUME NEW u, IsSeq(u), NEW v, IsSeq(v)
  PROVE  /\ IsSeq(u \o v)
         /\ Len(u) \in Nat /\ Len(v) \in Nat /\ Len(u \o v) = Len(u) + Len(v)
  <1>1. PICK S : u \in Seq(S) /\ v \in Seq(S)
    BY Common
  <1>2. u \o v \in Seq(S) /\ Len(u \o v) = Len(u) + Len(v) /\ Len(u) \in Nat /\ Len(v) \in Nat
    BY <1>1, ConcatProperties
  <1> QED
    BY <1>2, OfRange

LEMMA PlacedBoth ==
  ASSUME NEW u, IsSeq(u), NEW v, IsSeq(v), NEW f, NEW b, Placed(f, b, u \o v)
  PROVE  Placed(f, b, u) /\ Placed(f, b + Len(u), v)
  <1>1. PICK S : u \in Seq(S) /\ v \in Seq(S)
    BY Common
  <1> QED
    BY <1>1, PlacedParts

LEMMA LoopIsSeq ==
  ASSUME NEW ws, Words(ws)
  PROVE  IsSeq(WriteLoop(ws)) /\ Len(WriteLoop(ws)) \in Nat
  <1>1. PICK S : ws \in Seq(Seq(S))
    BY CommonWords
  <1>2. FlattenSeq(ws) \in Seq(S)
    BY <1>1, Flattened
  <1>3. IsSeq(FlattenSeq(ws)) /\ IsSeq(<<Num(Len(ws))>>)
    <2>1. <<Num(Len(ws))>> \in Seq({Num(Len(ws))})
      OBVIOUS
    <2> QED
      BY <1>2, <2>1, OfRange
  <1>4. IsSeq(WriteLoop(ws))
    BY <1>3, ConcatIsSeq DEF WriteLoop
  <1>5. Len(WriteLoop(ws)) \in Nat
    BY <1>4 DEF IsSeq
  <1> QED
    BY <1>4, <1>5

LEMMA LoopPlaced ==
  ASSUME NEW S, NEW ws \in Seq(Seq(S)), NEW f, NEW b, Placed(f, b, WriteLoop(ws))
  PROVE  \E place \in [0 .. Len(ws) -> Nat] :
           /\ place[0] = 0
           /\ \A k \in 1 .. Len(ws) : /\ place[k] = place[k - 1] + Len(ws[k])
                                      /\ Placed(f, b + 1 + place[k - 1], ws[k])
           /\ Len(WriteLoop(ws)) = 1 + place[Len(ws)]
           /\ CountAt(f, b + 1) = Len(ws) /\ Len(ws) \in Nat
           /\ Placed(f, b + 1, FlattenSeq(ws)) /\ Len(FlattenSeq(ws)) = place[Len(ws)]
           /\ FlattenSeq(ws) \in Seq(S)
  <1> DEFINE n == Len(ws)
             one == <<Num(n)>>
             flat == FlattenSeq(ws)
  <1>1. flat \in Seq(S)
    BY Flattened
  <1>2. PICK place : Places(place, ws, flat)
    BY Flattened
  <1>3. IsSeq(one) /\ Len(one) = 1 /\ one[1] = Num(n)
    <2>1. one \in Seq({Num(n)}) /\ Len(one) = 1 /\ one[1] = Num(n)
      OBVIOUS
    <2> QED
      BY <2>1, OfRange
  <1>4. IsSeq(flat)
    BY <1>1, OfRange
  <1>5. WriteLoop(ws) = one \o flat
    BY DEF WriteLoop
  <1>0. n \in Nat /\ \A k \in 1 .. n : Len(ws[k]) \in Nat
    OBVIOUS
  <1> HIDE DEF one, flat, n
  <1>6. Placed(f, b, one \o flat)
    BY <1>5
  <1>7. Placed(f, b, one)
    BY <1>3, <1>4, <1>6, PlacedBoth
  <1>8. Placed(f, b + 1, flat)
    BY <1>3, <1>4, <1>6, PlacedBoth
  <1>9. Len(WriteLoop(ws)) = 1 + Len(flat) /\ Len(flat) \in Nat
    BY <1>3, <1>4, <1>5, ConcatIsSeq
  <1>10. b \in Nat /\ f[b + 1] = Num(n) /\ b + 1 <= Len(f) /\ Len(f) \in Nat
    BY <1>3, <1>7 DEF Placed
  <1>11. CountAt(f, b + 1) = n
    BY <1>10 DEF CountAt, Num
  <1>12. /\ place \in [0 .. n -> Nat] /\ place[0] = 0 /\ place[n] = Len(flat)
         /\ \A k \in 1 .. n : /\ place[k] = place[k - 1] + Len(ws[k])
                              /\ place[k] <= Len(flat)
                              /\ \A i \in 1 .. Len(ws[k]) : flat[place[k - 1] + i] = ws[k][i]
    BY <1>2 DEF Places, n
  <1>13. ASSUME NEW k \in 1 .. n PROVE Placed(f, b + 1 + place[k - 1], ws[k])
    <2>1. k - 1 \in 0 .. n
      BY <1>0
    <2>2. PICK p \in Nat, l \in Nat : p = place[k - 1] /\ l = Len(ws[k])
      BY <1>0, <1>12, <2>1
    <2>3. p + l <= Len(flat)
      BY <1>12, <2>2
    <2>4. b + 1 + Len(flat) <= Len(f) /\ \A i \in 1 .. Len(flat) : f[(b + 1) + i] = flat[i]
      BY <1>8 DEF Placed
    <2>5. ASSUME NEW i \in 1 .. l PROVE f[b + 1 + p + i] = ws[k][i]
      <3>1. p + i \in 1 .. Len(flat) /\ (b + 1) + (p + i) = b + 1 + p + i
        BY <1>9, <1>10, <2>3
      <3>2. flat[p + i] = ws[k][i]
        BY <1>12, <2>2
      <3>3. f[(b + 1) + (p + i)] = flat[p + i]
        BY <2>4, <3>1
      <3> QED
        BY <3>1, <3>2, <3>3
    <2>6. b + 1 + p \in Nat /\ b + 1 + p + l <= Len(f)
      BY <1>9, <1>10, <2>3, <2>4
    <2>7. Placed(f, b + 1 + p, ws[k])
      BY <1>10, <2>2, <2>5, <2>6 DEF Placed
    <2> QED
      BY <2>2, <2>7
  <1> QED
    BY <1>0, <1>1, <1>8, <1>9, <1>11, <1>12, <1>13 DEF n, flat

\* A table whose items are read as they were written.
ItemsRead(ws, f, item, outs) ==
  \A k \in 1 .. Len(ws) : \A c \in Nat :
    Placed(f, c, ws[k]) => item[c + 1] = Cursor(c + Len(ws[k]) + 1, outs[k])

LEMMA TableRead ==
  ASSUME NEW ws, Words(ws), NEW f, NEW b, Placed(f, b, WriteLoop(ws)),
         NEW item, NEW outs, IsSeq(outs), Len(outs) = Len(ws), ItemsRead(ws, f, item, outs)
  PROVE  Table(f, b + 1, item) = Cursor(b + Len(WriteLoop(ws)) + 1, outs)
  <1> DEFINE n == Len(ws)
  <1> USE DEF ItemsRead
  <1>1. PICK S : ws \in Seq(Seq(S))
    BY CommonWords
  <1>2. PICK place \in [0 .. n -> Nat] :
           /\ place[0] = 0
           /\ \A k \in 1 .. n : /\ place[k] = place[k - 1] + Len(ws[k])
                                /\ Placed(f, b + 1 + place[k - 1], ws[k])
           /\ Len(WriteLoop(ws)) = 1 + place[n]
           /\ CountAt(f, b + 1) = n /\ n \in Nat
           /\ Placed(f, b + 1, FlattenSeq(ws)) /\ Len(FlattenSeq(ws)) = place[n]
           /\ FlattenSeq(ws) \in Seq(S)
    BY <1>1, LoopPlaced
  <1>3. b \in Nat
    BY DEF Placed
  <1>4. PICK g : /\ Table(f, b + 1, item) = g[n]
                 /\ g[0] = Start((b + 1) + 1)
                 /\ \A k \in 1 .. n : g[k] = After(g[k - 1], item)
    <2>1. CountAt(f, b + 1) \in Nat
      BY <1>2
    <2>2. \E g : /\ Table(f, b + 1, item) = g[CountAt(f, b + 1)]
                 /\ g[0] = Start((b + 1) + 1)
                 /\ \A k \in 1 .. CountAt(f, b + 1) : g[k] = After(g[k - 1], item)
      BY <2>1, TableUnfolds
    <2> QED
      BY <1>2, <2>2
  <1>5. \A k \in 1 .. n : Len(ws[k]) \in Nat
    BY <1>1
  <1> HIDE DEF n
  <1> DEFINE T == {k \in Nat : k <= n => g[k] = Cursor(b + 1 + place[k] + 1, SubSeq(outs, 1, k))}
  <1>6. 0 \in T
    <2>1. SubSeq(outs, 1, 0) = <<>>
      <3>1. IsSeq(SubSeq(outs, 1, 0)) /\ Len(SubSeq(outs, 1, 0)) = 0
        BY <1>2, FrontIsSeq DEF n
      <3> QED
        BY <3>1 DEF IsSeq
    <2>2. b + 1 + place[0] + 1 = (b + 1) + 1
      BY <1>2, <1>3
    <2>3. g[0] = Cursor(b + 1 + place[0] + 1, SubSeq(outs, 1, 0))
      BY <1>4, <2>1, <2>2 DEF Start, Cursor
    <2> QED
      BY <2>3
  <1>7. ASSUME NEW k \in Nat, k \in T PROVE k + 1 \in T
    <2> SUFFICES ASSUME k + 1 <= n
                 PROVE  g[k + 1] = Cursor(b + 1 + place[k + 1] + 1, SubSeq(outs, 1, k + 1))
      OBVIOUS
    <2>1. k + 1 \in 1 .. n /\ (k + 1) - 1 = k /\ k \in 0 .. n /\ k \in 0 .. n - 1
      BY <1>2
    <2>2. PICK p \in Nat : p = place[k]
      BY <2>1
    <2>3. PICK l \in Nat : l = Len(ws[k + 1])
      BY <1>5, <2>1
    <2>4. Placed(f, b + 1 + p, ws[k + 1]) /\ place[k + 1] = p + l
      BY <1>2, <2>1, <2>2, <2>3
    <2>5. PICK c \in Nat : c = b + 1 + p
      BY <1>3
    <2>6. item[c + 1] = Cursor(c + l + 1, outs[k + 1])
      BY <2>1, <2>3, <2>4, <2>5 DEF n
    <2>7. g[k] = Cursor(c + 1, SubSeq(outs, 1, k))
      BY <1>7, <2>1, <2>2, <2>5
    <2>8. g[k + 1] = After(g[k], item)
      BY <1>4, <2>1
    <2>9. Append(SubSeq(outs, 1, k), outs[k + 1]) = SubSeq(outs, 1, k + 1)
      BY <2>1, FrontGrows DEF n
    <2>10. After(g[k], item) = [at |-> c + l + 1, out |-> Append(SubSeq(outs, 1, k), outs[k + 1]), ok |-> TRUE]
      <3>1. /\ g[k].at = c + 1 /\ g[k].out = SubSeq(outs, 1, k) /\ g[k].ok = TRUE
            /\ item[c + 1].at = c + l + 1 /\ item[c + 1].out = outs[k + 1]
            /\ item[c + 1].ok = TRUE
        BY <2>6, <2>7 DEF Cursor
      <3> QED
        BY <3>1 DEF After
    <2>11. b + 1 + place[k + 1] + 1 = c + l + 1
      BY <1>3, <2>4, <2>5
    <2> QED
      BY <2>8, <2>9, <2>10, <2>11 DEF Cursor
  <1> HIDE DEF T
  <1>8. n \in T
    BY <1>2, <1>6, <1>7, Induction
  <1>9. g[n] = Cursor(b + 1 + place[n] + 1, SubSeq(outs, 1, n))
    BY <1>2, <1>8 DEF T
  <1>10. SubSeq(outs, 1, n) = outs
    BY WholeFront DEF n
  <1>11. b + 1 + place[n] + 1 = b + Len(WriteLoop(ws)) + 1
    <2>1. place[n] \in Nat
      BY <1>2
    <2> QED
      BY <1>2, <1>3, <2>1
  <1> QED
    BY <1>4, <1>9, <1>10, <1>11

-----------------------------------------------------------------------------
\* READ_STR reads up to the first control character.
LEMMA StrEnds ==
  ASSUME NEW f, Len(f) \in Nat, NEW at \in Nat, NEW z \in Nat,
         at <= z, z <= Len(f), f[z] = Char(CONTROL)
  PROVE  \E e \in Nat :
           /\ at <= e /\ e <= z /\ f[e] = Char(CONTROL)
           /\ \A i \in Nat : at <= i /\ i < e => f[i] # Char(CONTROL)
           /\ ReadStr(f, at) = [at |-> e + 1, out |-> [i \in 1 .. e - at |-> f[at + i - 1][2]],
                                ok |-> TRUE]
  <1> DEFINE ends == {i \in at .. Len(f) : f[i] = Char(CONTROL)}
             e == CHOOSE i \in ends : \A j \in ends : i <= j
  <1>1. z \in ends
    OBVIOUS
  <1>2. ends \subseteq Nat
    OBVIOUS
  <1>3. \E i \in ends : \A j \in ends : i <= j
    <2> HIDE DEF ends
    <2> QED
      BY <1>1, <1>2, LeastOf
  <1>4. e \in ends /\ \A j \in ends : e <= j
    BY <1>3
  <1>5. ReadStr(f, at) = [at |-> e + 1, out |-> [i \in 1 .. e - at |-> f[at + i - 1][2]],
                          ok |-> TRUE]
    BY <1>1 DEF ReadStr
  <1> HIDE DEF e
  <1>6. e \in Nat /\ at <= e /\ e <= z /\ f[e] = Char(CONTROL) /\ e <= Len(f)
    BY <1>1, <1>4
  <1>7. ASSUME NEW i \in Nat, at <= i, i < e PROVE f[i] # Char(CONTROL)
    <2>1. i \in at .. Len(f)
      BY <1>6, <1>7
    <2>2. ~ (e <= i)
      BY <1>6, <1>7
    <2> QED
      BY <1>4, <2>1, <2>2
  <1> QED
    BY <1>5, <1>6, <1>7

LEMMA StrWritten ==
  ASSUME NEW C, CONTROL \in C, NEW s \in Seq(C)
  PROVE  /\ WriteStr(s) \in Seq({Char(c) : c \in C}) /\ IsSeq(WriteStr(s))
         /\ Len(s) \in Nat /\ Len(WriteStr(s)) = Len(s) + 1
         /\ WriteStr(s)[Len(s) + 1] = Char(CONTROL)
         /\ \A i \in 1 .. Len(s) : WriteStr(s)[i] = Char(s[i])
  <1> DEFINE Chars == {Char(c) : c \in C}
             w == [i \in 1 .. Len(s) + 1 |-> Char(IF i > Len(s) THEN CONTROL ELSE s[i])]
  <1>0. Len(s) \in Nat /\ \A i \in 1 .. Len(s) : s[i] \in C
    OBVIOUS
  <1>1. w \in [1 .. Len(s) + 1 -> Chars]
    <2>1. ASSUME NEW i \in 1 .. Len(s) + 1
          PROVE  Char(IF i > Len(s) THEN CONTROL ELSE s[i]) \in Chars
      <3>1. (IF i > Len(s) THEN CONTROL ELSE s[i]) \in C
        BY <1>0
      <3> QED
        BY <3>1
    <2> QED
      BY <2>1
  <1>2. /\ w[Len(s) + 1] = Char(CONTROL)
        /\ \A i \in 1 .. Len(s) : w[i] = Char(s[i])
    BY <1>0
  <1>3. WriteStr(s) = w
    BY DEF WriteStr
  <1> HIDE DEF w, Chars
  <1>4. w \in Seq(Chars) /\ Len(w) = Len(s) + 1
    BY <1>0, <1>1
  <1>5. IsSeq(w)
    BY <1>4, OfRange
  <1> QED
    BY <1>0, <1>2, <1>3, <1>4, <1>5 DEF Chars

\* At a written string, READ_STR ends at its end, having read it, or inside of it.
LEMMA StrRead ==
  ASSUME NEW C, CONTROL \in C, NEW s \in Seq(C), NEW f, NEW b, Placed(f, b, WriteStr(s))
  PROVE  \/ ReadStr(f, b + 1) = Cursor(b + Len(WriteStr(s)) + 1, s)
         \/ /\ \E i \in 1 .. Len(s) : s[i] = CONTROL
            /\ \E e \in Nat : b + 1 < e /\ e < b + Len(WriteStr(s)) + 1 /\ ReadStr(f, b + 1).at = e
  <1> DEFINE l == Len(s)
  <1>1. /\ l \in Nat /\ Len(WriteStr(s)) = l + 1
        /\ WriteStr(s)[l + 1] = Char(CONTROL)
        /\ \A i \in 1 .. l : WriteStr(s)[i] = Char(s[i])
    BY StrWritten
  <1>2. /\ b \in Nat /\ Len(f) \in Nat /\ b + (l + 1) <= Len(f)
        /\ \A i \in 1 .. l + 1 : f[b + i] = WriteStr(s)[i]
    BY <1>1 DEF Placed
  <1>s. s = [i \in 1 .. l |-> s[i]]
    OBVIOUS
  <1> HIDE DEF l
  <1>3. f[b + (l + 1)] = Char(CONTROL) /\ \A i \in 1 .. l : f[b + i] = Char(s[i])
    BY <1>1, <1>2
  <1>4. b + (l + 1) \in Nat /\ b + 1 \in Nat /\ b + 1 <= b + (l + 1)
    BY <1>1, <1>2
  <1>5. PICK e \in Nat :
           /\ b + 1 <= e /\ e <= b + (l + 1) /\ f[e] = Char(CONTROL)
           /\ \A i \in Nat : b + 1 <= i /\ i < e => f[i] # Char(CONTROL)
           /\ ReadStr(f, b + 1) = [at |-> e + 1,
                                   out |-> [i \in 1 .. e - (b + 1) |-> f[(b + 1) + i - 1][2]],
                                   ok |-> TRUE]
    BY <1>2, <1>3, <1>4, StrEnds
  <1>6. CASE e = b + (l + 1)
    <2>1. e - (b + 1) = l /\ e + 1 = b + (l + 1) + 1
      BY <1>1, <1>2, <1>6
    <2>2. ASSUME NEW i \in 1 .. l PROVE f[(b + 1) + i - 1][2] = s[i]
      <3>1. (b + 1) + i - 1 = b + i
        BY <1>2
      <3> QED
        BY <1>3, <3>1 DEF Char
    <2>3. [i \in 1 .. e - (b + 1) |-> f[(b + 1) + i - 1][2]] = [i \in 1 .. l |-> s[i]]
      BY <2>1, <2>2
    <2> QED
      BY <1>1, <1>5, <1>s, <2>1, <2>3 DEF Cursor
  <1>7. CASE e # b + (l + 1)
    <2>1. e < b + (l + 1)
      BY <1>4, <1>5, <1>7
    <2>2. PICK i \in 1 .. l : e = b + i
      <3>1. e - b \in 1 .. l /\ e = b + (e - b)
        BY <1>1, <1>2, <1>5, <2>1
      <3> QED
        BY <3>1
    <2>3. s[i] = CONTROL
      <3>1. Char(s[i]) = Char(CONTROL)
        BY <1>3, <1>5, <2>2
      <3> QED
        BY <3>1 DEF Char
    <2>4. ReadStr(f, b + 1).at = e + 1
      BY <1>5
    <2>5. e + 1 \in Nat /\ b + 1 < e + 1 /\ e + 1 < b + (l + 1) + 1
      BY <1>1, <1>2, <1>5, <2>1
    <2> QED
      BY <1>1, <2>2, <2>3, <2>4, <2>5 DEF l
  <1> QED
    BY <1>6, <1>7

\* In out are the strings before one that holds the control character.
KeptBefore(strs, k, out) ==
  \E c \in 1 .. k : ~Clean(strs[c]) /\ \A i \in 1 .. c - 1 : out[i] = strs[i]

LEMMA KeptAgain ==
  ASSUME NEW strs, NEW out, IsSeq(out), Len(out) \in Nat, NEW s, KeptBefore(strs, Len(out), out)
  PROVE  KeptBefore(strs, Len(out) + 1, Append(out, s))
  <1>1. PICK c \in 1 .. Len(out) : ~Clean(strs[c]) /\ \A i \in 1 .. c - 1 : out[i] = strs[i]
    BY DEF KeptBefore
  <1>2. \A i \in 1 .. c - 1 : Append(out, s)[i] = strs[i]
    <2>1. \A i \in 1 .. c - 1 : i \in 1 .. Len(out)
      OBVIOUS
    <2> QED
      BY <1>1, <2>1, AppendIsSeq
  <1>3. c \in 1 .. Len(out) + 1
    OBVIOUS
  <1> QED
    BY <1>1, <1>2, <1>3 DEF KeptBefore

LEMMA KeptFirst ==
  ASSUME NEW strs, IsSeq(strs), NEW k \in 0 .. Len(strs) - 1, ~Clean(strs[k + 1]), NEW s
  PROVE  KeptBefore(strs, k + 1, Append(SubSeq(strs, 1, k), s))
  <1>0. Len(strs) \in Nat /\ k \in 0 .. Len(strs) /\ k \in Nat
    BY DEF IsSeq
  <1>1. PICK front : front = SubSeq(strs, 1, k)
    OBVIOUS
  <1>2. IsSeq(front) /\ Len(front) = k /\ \A i \in 1 .. k : front[i] = strs[i]
    BY <1>0, <1>1, FrontIsSeq
  <1>3. \A i \in 1 .. k : Append(front, s)[i] = strs[i]
    BY <1>2, AppendIsSeq
  <1>4. (k + 1) - 1 = k /\ k + 1 \in 1 .. k + 1
    BY <1>0
  <1> QED
    BY <1>1, <1>3, <1>4 DEF KeptBefore

\* A table of strings is read as it was written, or, if a string holds the control
\* character, the strings before it, and the next table has no count.
LEMMA StringsRead ==
  ASSUME NEW C, CONTROL \in C, NEW strs \in Seq(Seq(C)), NEW f, NEW b,
         Placed(f, b, WriteStrings(strs))
  PROVE  LET t == Table(f, b + 1, ReadStrs(f))
         IN  \/ t = Cursor(b + Len(WriteStrings(strs)) + 1, strs)
             \/ CountAt(f, t.at) = -1 /\ KeptBefore(strs, Len(strs), t.out)
  <1> DEFINE n == Len(strs)
             Chars == {Char(c) : c \in C}
             ws == [i \in DOMAIN strs |-> WriteStr(strs[i])]
             item == ReadStrs(f)
  <1>1. n \in Nat /\ DOMAIN strs = 1 .. n /\ \A k \in 1 .. n : strs[k] \in Seq(C)
    OBVIOUS
  <1>s. IsSeq(strs)
    BY OfRange
  <1>2. ASSUME NEW k \in 1 .. n
        PROVE  /\ ws[k] = WriteStr(strs[k]) /\ ws[k] \in Seq(Chars) /\ Len(ws[k]) \in Nat
               /\ Len(ws[k]) > 0 /\ ws[k][Len(ws[k])] = Char(CONTROL)
    <2>1. PICK s \in Seq(C) : s = strs[k]
      BY <1>1
    <2>2. ws[k] = WriteStr(s)
      BY <1>1, <2>1
    <2>3. /\ WriteStr(s) \in Seq(Chars) /\ Len(s) \in Nat /\ Len(WriteStr(s)) = Len(s) + 1
          /\ WriteStr(s)[Len(s) + 1] = Char(CONTROL)
      BY StrWritten
    <2> HIDE DEF ws, Chars
    <2> QED
      BY <2>1, <2>2, <2>3
  <1>3. ws \in Seq(Seq(Chars)) /\ Len(ws) = n
    <2> DEFINE W == Seq(Chars)
    <2>1. ws \in [1 .. n -> W]
      BY <1>1, <1>2
    <2>a. n \in Nat
      OBVIOUS
    <2> HIDE DEF ws, W, n
    <2>2. ws \in Seq(W) /\ Len(ws) = n
      BY <2>1, <2>a
    <2> QED
      BY <2>2 DEF W
  <1>4. WriteStrings(strs) = WriteLoop(ws)
    BY DEF WriteStrings
  <1> HIDE DEF ws, Chars, n, item
  <1>p. Placed(f, b, WriteLoop(ws))
    BY <1>4
  <1>5. PICK place \in [0 .. Len(ws) -> Nat] :
           /\ place[0] = 0
           /\ \A k \in 1 .. Len(ws) : /\ place[k] = place[k - 1] + Len(ws[k])
                                      /\ Placed(f, b + 1 + place[k - 1], ws[k])
           /\ Len(WriteLoop(ws)) = 1 + place[Len(ws)]
           /\ CountAt(f, b + 1) = Len(ws) /\ Len(ws) \in Nat
           /\ Placed(f, b + 1, FlattenSeq(ws)) /\ Len(FlattenSeq(ws)) = place[Len(ws)]
           /\ FlattenSeq(ws) \in Seq(Chars)
    BY <1>3, <1>p, LoopPlaced
  <1>6. b \in Nat /\ Len(f) \in Nat
    BY DEF Placed
  <1>7. PICK g : /\ Table(f, b + 1, item) = g[n]
                 /\ g[0] = Start((b + 1) + 1)
                 /\ \A k \in 1 .. n : g[k] = After(g[k - 1], item)
    <2>1. CountAt(f, b + 1) \in Nat
      BY <1>5
    <2>2. PICK at : at = b + 1
      OBVIOUS
    <2>3. \E g : /\ Table(f, at, item) = g[CountAt(f, at)]
                 /\ g[0] = Start(at + 1)
                 /\ \A k \in 1 .. CountAt(f, at) : g[k] = After(g[k - 1], item)
      BY <2>1, <2>2, TableUnfolds
    <2> QED
      BY <1>3, <1>5, <2>2, <2>3
  <1>r. \A at \in Nat : item[at] = ReadStr(f, at)
    BY DEF item, ReadStrs
  <1> DEFINE Aligned(k) == g[k] = Cursor(b + 1 + place[k] + 1, SubSeq(strs, 1, k))
             Kept(k) == IsSeq(g[k].out) /\ Len(g[k].out) = k /\ KeptBefore(strs, k, g[k].out)
             Inside(k) == /\ \E e \in Nat : b + 2 <= e /\ e < b + 2 + place[k] /\ g[k].at = e
                          /\ Kept(k)
             T == {k \in Nat : k <= n => Aligned(k) \/ Inside(k)}
  <1>8. 0 \in T
    <2>1. SubSeq(strs, 1, 0) = <<>>
      <3>1. IsSeq(SubSeq(strs, 1, 0)) /\ Len(SubSeq(strs, 1, 0)) = 0
        BY <1>1, <1>s, FrontIsSeq DEF n
      <3> QED
        BY <3>1 DEF IsSeq
    <2>2. b + 1 + place[0] + 1 = (b + 1) + 1
      BY <1>5, <1>6
    <2>3. Aligned(0)
      BY <1>7, <2>1, <2>2 DEF Start, Cursor
    <2> QED
      BY <2>3
  <1>9. ASSUME NEW k \in Nat, k \in T PROVE k + 1 \in T
    <2> SUFFICES ASSUME k + 1 <= n PROVE Aligned(k + 1) \/ Inside(k + 1)
      OBVIOUS
    <2>1. k + 1 \in 1 .. n /\ (k + 1) - 1 = k /\ k \in 0 .. n /\ k \in 0 .. n - 1 /\ k + 1 \in 0 .. n
      BY <1>1
    <2>2. PICK p \in Nat : p = place[k]
      BY <1>3, <1>5, <2>1
    <2>3. PICK l \in Nat : l = Len(ws[k + 1]) /\ l > 0
      BY <1>2, <2>1
    <2>4. Placed(f, b + 1 + p, ws[k + 1]) /\ place[k + 1] = p + l
      BY <1>3, <1>5, <2>1, <2>2, <2>3
    <2>5. PICK c \in Nat : c = b + 1 + p
      BY <1>6
    <2>6. g[k + 1] = After(g[k], item)
      BY <1>7, <2>1
    <2>7. CASE Aligned(k)
      <3>1. /\ g[k].at = c + 1 /\ g[k].out = SubSeq(strs, 1, k) /\ g[k].ok = TRUE
        BY <2>2, <2>5, <2>7 DEF Cursor
      <3>2. item[g[k].at] = ReadStr(f, c + 1)
        BY <1>r, <3>1
      <3>3. PICK s \in Seq(C) : s = strs[k + 1]
        BY <1>1, <2>1
      <3>a. Placed(f, c, WriteStr(s)) /\ Len(WriteStr(s)) = l
        BY <1>2, <2>1, <2>3, <2>4, <2>5, <3>3
      <3>b. \/ ReadStr(f, c + 1) = Cursor(c + Len(WriteStr(s)) + 1, s)
            \/ /\ \E i \in 1 .. Len(s) : s[i] = CONTROL
               /\ \E e \in Nat : c + 1 < e /\ e < c + Len(WriteStr(s)) + 1 /\ ReadStr(f, c + 1).at = e
        BY <3>a, StrRead
      <3>c. (\E i \in 1 .. Len(s) : s[i] = CONTROL) => ~Clean(strs[k + 1])
        BY <3>3 DEF Clean, ToSet
      <3>4. \/ ReadStr(f, c + 1) = Cursor(c + l + 1, strs[k + 1])
            \/ /\ ~Clean(strs[k + 1])
               /\ \E e \in Nat : c + 1 < e /\ e < c + l + 1 /\ ReadStr(f, c + 1).at = e
        BY <3>3, <3>a, <3>b, <3>c
      <3>5. CASE ReadStr(f, c + 1) = Cursor(c + l + 1, strs[k + 1])
        <4>1. /\ item[g[k].at].at = c + l + 1 /\ item[g[k].at].out = strs[k + 1]
              /\ item[g[k].at].ok = TRUE
          BY <3>2, <3>5 DEF Cursor
        <4>2. Append(SubSeq(strs, 1, k), strs[k + 1]) = SubSeq(strs, 1, k + 1)
          BY <1>s, <2>1, FrontGrows DEF n
        <4>3. After(g[k], item) = [at |-> c + l + 1, out |-> SubSeq(strs, 1, k + 1), ok |-> TRUE]
          BY <3>1, <4>1, <4>2 DEF After
        <4>4. b + 1 + place[k + 1] + 1 = c + l + 1
          BY <1>6, <2>4, <2>5
        <4> QED
          BY <2>6, <4>3, <4>4 DEF Cursor
      <3>6. ASSUME NEW e \in Nat, c + 1 < e, e < c + l + 1, ReadStr(f, c + 1).at = e,
                   ~Clean(strs[k + 1])
            PROVE  Inside(k + 1)
        <4>1. g[k + 1].at = e
          BY <2>6, <3>2, <3>6 DEF After
        <4>2. b + 2 <= e /\ e < b + 2 + place[k + 1]
          BY <1>6, <2>4, <2>5, <3>6
        <4>3. PICK x : g[k + 1].out = Append(SubSeq(strs, 1, k), x)
          BY <2>6, <3>1 DEF After
        <4>4. k \in 0 .. Len(strs) - 1 /\ k \in 0 .. Len(strs)
          BY <2>1 DEF n
        <4>5. KeptBefore(strs, k + 1, g[k + 1].out)
          BY <1>s, <3>6, <4>3, <4>4, KeptFirst
        <4>6. IsSeq(g[k + 1].out) /\ Len(g[k + 1].out) = k + 1
          <5>1. IsSeq(SubSeq(strs, 1, k)) /\ Len(SubSeq(strs, 1, k)) = k
            BY <1>s, <4>4, FrontIsSeq
          <5> QED
            BY <4>3, <5>1, AppendIsSeq
        <4>7. Kept(k + 1)
          BY <4>5, <4>6
        <4> QED
          BY <4>1, <4>2, <4>7
      <3> QED
        BY <3>4, <3>5, <3>6
    <2>8. CASE Inside(k)
      <3>1. PICK e \in Nat : b + 2 <= e /\ e < b + 2 + p /\ g[k].at = e
        BY <2>2, <2>8
      <3>2. k \in 1 .. n
        <4>1. k # 0
          BY <1>5, <1>6, <2>2, <3>1
        <4> QED
          BY <2>1, <4>1
      <3>3. PICK q \in Nat, m \in Nat : q = place[k - 1] /\ m = Len(ws[k]) /\ m > 0
        <4>1. k - 1 \in 0 .. n
          BY <1>1, <3>2
        <4> QED
          BY <1>2, <1>3, <1>5, <3>2, <4>1
      <3>4. Placed(f, b + 1 + q, ws[k]) /\ p = q + m
        BY <1>3, <1>5, <2>2, <3>2, <3>3
      <3>5. /\ b + 1 + q + m <= Len(f)
            /\ f[(b + 1 + q) + m] = ws[k][m]
        <4>1. m \in 1 .. Len(ws[k])
          BY <3>3
        <4>2. /\ b + 1 + q + Len(ws[k]) <= Len(f)
              /\ \A i \in 1 .. Len(ws[k]) : f[(b + 1 + q) + i] = ws[k][i]
          BY <3>4 DEF Placed
        <4> QED
          BY <3>3, <4>1, <4>2
      <3>6. PICK z \in Nat : z = b + 1 + p
        BY <1>6
      <3>7. z <= Len(f) /\ f[z] = Char(CONTROL) /\ e <= z
        <4>1. (b + 1 + q) + m = z
          BY <1>6, <3>4, <3>6
        <4>2. ws[k][m] = Char(CONTROL)
          BY <1>2, <3>2, <3>3
        <4>3. f[z] = Char(CONTROL) /\ z <= Len(f)
          BY <3>5, <4>1, <4>2
        <4>4. e <= z
          BY <1>6, <3>1, <3>6
        <4> QED
          BY <4>3, <4>4
      <3>8. PICK x \in Nat : e <= x /\ x <= z /\ ReadStr(f, e).at = x + 1
        <4>1. PICK x \in Nat :
                /\ e <= x /\ x <= z /\ f[x] = Char(CONTROL)
                /\ \A i \in Nat : e <= i /\ i < x => f[i] # Char(CONTROL)
                /\ ReadStr(f, e) = [at |-> x + 1, out |-> [i \in 1 .. x - e |-> f[e + i - 1][2]],
                                    ok |-> TRUE]
          BY <1>6, <3>7, StrEnds
        <4>2. ReadStr(f, e).at = x + 1
          BY <4>1
        <4> QED
          BY <4>1, <4>2
      <3>9. g[k + 1].at = x + 1
        BY <1>r, <2>6, <3>1, <3>8 DEF After
      <3>10. x + 1 \in Nat /\ b + 2 <= x + 1 /\ x + 1 < b + 2 + place[k + 1]
        <4>1. PICK d \in Nat : d = place[k + 1] /\ d = p + l
          BY <2>4
        <4>2. b + 2 <= e /\ e <= x /\ x <= b + 1 + p /\ l > 0 /\ b \in Nat
          BY <1>6, <2>3, <3>1, <3>6, <3>8
        <4>3. x + 1 \in Nat /\ b + 2 <= x + 1 /\ x + 1 < b + 2 + d
          BY <4>1, <4>2
        <4> QED
          BY <4>1, <4>2, <4>3
      <3>11. Kept(k + 1)
        <4>1. PICK out : out = g[k].out
          OBVIOUS
        <4>2. IsSeq(out) /\ Len(out) = k /\ KeptBefore(strs, k, out)
          BY <2>8, <4>1
        <4>3. PICK s : g[k + 1].out = Append(out, s)
          BY <2>6, <4>1 DEF After
        <4>4. KeptBefore(strs, k + 1, Append(out, s))
          BY <4>2, KeptAgain
        <4>5. IsSeq(Append(out, s)) /\ Len(Append(out, s)) = k + 1
          BY <4>2, AppendIsSeq
        <4> QED
          BY <4>3, <4>4, <4>5
      <3> QED
        BY <3>9, <3>10, <3>11
    <2> QED
      BY <1>9, <2>1, <2>7, <2>8
  <1> HIDE DEF T
  <1>10. n \in T
    BY <1>1, <1>8, <1>9, Induction
  <1>11. Aligned(n) \/ Inside(n)
    BY <1>1, <1>10 DEF T
  <1>12. CASE Aligned(n)
    <2>1. SubSeq(strs, 1, n) = strs
      BY <1>s, WholeFront DEF n
    <2>2. b + 1 + place[n] + 1 = b + Len(WriteStrings(strs)) + 1
      <3>1. PICK d \in Nat : d = place[n]
        BY <1>1, <1>3, <1>5
      <3>2. Len(WriteStrings(strs)) = 1 + d
        BY <1>3, <1>4, <1>5, <3>1
      <3>3. b + 1 + d + 1 = b + (1 + d) + 1
        BY <1>6
      <3> QED
        BY <3>1, <3>2, <3>3
    <2> QED
      BY <1>7, <1>12, <2>1, <2>2 DEF item
  <1>13. CASE Inside(n)
    <2>1. PICK e \in Nat : b + 2 <= e /\ e < b + 2 + place[n] /\ g[n].at = e
      BY <1>13
    <2>2. PICK p \in Nat : p = place[n]
      BY <1>1, <1>3, <1>5
    <2>3. PICK i \in 1 .. p : e = (b + 1) + i
      <3>1. e - (b + 1) \in 1 .. p /\ e = (b + 1) + (e - (b + 1))
        BY <1>6, <2>1, <2>2
      <3> QED
        BY <3>1
    <2>4. f[e] = FlattenSeq(ws)[i] /\ FlattenSeq(ws)[i] \in Chars /\ e <= Len(f)
      <3>1. /\ Len(FlattenSeq(ws)) = p /\ b + 1 + p <= Len(f)
            /\ \A j \in 1 .. p : f[(b + 1) + j] = FlattenSeq(ws)[j]
        BY <1>3, <1>5, <2>2 DEF Placed
      <3>2. FlattenSeq(ws) \in Seq(Chars)
        BY <1>5
      <3> QED
        BY <1>6, <2>3, <3>1, <3>2
    <2>5. PICK c \in C : f[e] = Char(c)
      BY <2>4 DEF Chars
    <2>6. f[e][1] # "number"
      BY <2>5 DEF Char
    <2>7. CountAt(f, e) = -1
      BY <2>6 DEF CountAt
    <2>8. KeptBefore(strs, Len(strs), g[n].out)
      BY <1>13 DEF n
    <2> QED
      BY <1>7, <2>1, <2>7, <2>8 DEF item
  <1> QED
    BY <1>11, <1>12, <1>13

-----------------------------------------------------------------------------
\* Names in their order.
Before(names, n) == {m \in names : Precedes(m, n)}

LEMMA NamesOrdered ==
  ASSUME NEW a \in ToSet(NameOrder), NEW b \in ToSet(NameOrder)
  PROVE  /\ ~ Precedes(a, a)
         /\ a # b => Precedes(a, b) \/ Precedes(b, a)
         /\ \A c : Precedes(c, a) /\ Precedes(a, b) => Precedes(c, b)
  <1>1. /\ NameOrder \in Seq(ToSet(NameOrder))
        /\ \A i, j \in DOMAIN NameOrder : NameOrder[i] = NameOrder[j] => i = j
    BY NamesAssumption
  <1>2. \A i \in DOMAIN NameOrder : i \in Nat
    BY <1>1
  <1>3. PICK i \in DOMAIN NameOrder, j \in DOMAIN NameOrder : NameOrder[i] = a /\ NameOrder[j] = b
    BY DEF ToSet
  <1>4. ~ Precedes(a, a)
    BY <1>1, <1>2 DEF Precedes
  <1>5. a # b => Precedes(a, b) \/ Precedes(b, a)
    BY <1>2, <1>3 DEF Precedes
  <1>6. ASSUME NEW c, Precedes(c, a), Precedes(a, b) PROVE Precedes(c, b)
    <2>1. PICK k \in DOMAIN NameOrder, l \in DOMAIN NameOrder :
            k < l /\ NameOrder[k] = c /\ NameOrder[l] = a
      BY <1>6 DEF Precedes
    <2>2. PICK m \in DOMAIN NameOrder, o \in DOMAIN NameOrder :
            m < o /\ NameOrder[m] = a /\ NameOrder[o] = b
      BY <1>6 DEF Precedes
    <2>3. l = m
      BY <1>1, <2>1, <2>2
    <2>4. k < o
      BY <1>2, <2>1, <2>2, <2>3
    <2> QED
      BY <2>1, <2>2, <2>4 DEF Precedes
  <1> QED
    BY <1>4, <1>5, <1>6

LEMMA NamesFinite ==
  ASSUME NEW names, names \subseteq ToSet(NameOrder)
  PROVE  IsFiniteSet(names) /\ Cardinality(names) \in Nat
  <1> DEFINE l == Len(NameOrder)
             S == ToSet(NameOrder)
  <1>1. NameOrder \in Seq(S) /\ l \in Nat /\ DOMAIN NameOrder = 1 .. l
    BY NamesAssumption
  <1>2. IsFiniteSet(1 .. l)
    <2>1. l \in Int /\ 1 \in Int
      BY <1>1
    <2> HIDE DEF l
    <2> QED
      BY <2>1, FS_Interval
  <1>3. NameOrder \in Surjection(1 .. l, S)
    <2>1. NameOrder \in [1 .. l -> S]
      BY <1>1
    <2>2. \A s \in S : \E i \in 1 .. l : NameOrder[i] = s
      BY <1>1 DEF ToSet
    <2> HIDE DEF S, l
    <2> QED
      BY <2>1, <2>2 DEF Surjection
  <1>4. IsFiniteSet(S)
    <2> HIDE DEF S, l
    <2> QED
      BY <1>2, <1>3, FS_Surjection
  <1>5. IsFiniteSet(names)
    BY <1>4, FS_Subset
  <1> QED
    BY <1>5, FS_CardinalityType

\* Sorted lists each name of a set once, behind as many as come before it.
LEMMA SortedNames ==
  ASSUME NEW names, names \subseteq ToSet(NameOrder), NEW q, q = Sorted(names)
  PROVE  /\ IsSeq(q) /\ Len(q) = Cardinality(names) /\ Len(q) \in Nat
         /\ {q[i] : i \in DOMAIN q} = names
         /\ \A i \in DOMAIN q : Cardinality(Before(names, q[i])) = i - 1
         /\ \A m \in names : /\ Cardinality(Before(names, m)) + 1 \in 1 .. Len(q)
                             /\ q[Cardinality(Before(names, m)) + 1] = m
  <1> DEFINE n == Cardinality(names)
             rank == [m \in names |-> Cardinality(Before(names, m))]
  <1>1. IsFiniteSet(names) /\ n \in Nat
    BY NamesFinite
  <1>2. ASSUME NEW m \in names
        PROVE  /\ IsFiniteSet(Before(names, m)) /\ Cardinality(Before(names, m)) \in 0 .. n - 1
    <2>1. Before(names, m) \in SUBSET names /\ m \notin Before(names, m)
      BY NamesOrdered DEF Before
    <2>2. /\ IsFiniteSet(Before(names, m)) /\ Cardinality(Before(names, m)) <= n
          /\ n = Cardinality(Before(names, m)) => names = Before(names, m)
      BY <1>1, <2>1, FS_Subset
    <2>3. Cardinality(Before(names, m)) # n
      BY <2>1, <2>2
    <2>4. Cardinality(Before(names, m)) \in Nat
      BY <2>2, FS_CardinalityType
    <2> QED
      BY <1>1, <2>2, <2>3, <2>4
  <1>3. ASSUME NEW a \in names, NEW b \in names, Precedes(a, b)
        PROVE  Cardinality(Before(names, a)) < Cardinality(Before(names, b))
    <2>1. Before(names, a) \in SUBSET Before(names, b)
      BY <1>3, NamesOrdered DEF Before
    <2>2. a \in Before(names, b) /\ a \notin Before(names, a)
      BY <1>3, NamesOrdered DEF Before
    <2>3. /\ Cardinality(Before(names, a)) <= Cardinality(Before(names, b))
          /\ Cardinality(Before(names, b)) = Cardinality(Before(names, a))
               => Before(names, b) = Before(names, a)
      BY <1>2, <2>1, FS_Subset
    <2>4. Cardinality(Before(names, a)) # Cardinality(Before(names, b))
      BY <2>2, <2>3
    <2> QED
      BY <1>2, <2>3, <2>4
  <1>4. ASSUME NEW a \in names, NEW b \in names, Cardinality(Before(names, a)) = Cardinality(Before(names, b))
        PROVE  a = b
    <2>1. ~ Precedes(a, b) /\ ~ Precedes(b, a)
      BY <1>2, <1>3, <1>4
    <2> QED
      BY <2>1, NamesOrdered
  <1>5. rank \in Injection(names, 0 .. n - 1)
    <2>1. rank \in [names -> 0 .. n - 1]
      BY <1>2
    <2>2. \A a, b \in names : rank[a] = rank[b] => a = b
      BY <1>4
    <2> HIDE DEF rank, n
    <2> QED
      BY <2>1, <2>2 DEF Injection, IsInjective
  <1>r. \A m \in names : rank[m] = Cardinality(Before(names, m))
    OBVIOUS
  <1> HIDE DEF rank
  <1>6. IsFiniteSet(0 .. n - 1) /\ Cardinality(0 .. n - 1) = n
    <2>1. 0 \in Int /\ n - 1 \in Int /\ (IF 0 > n - 1 THEN 0 ELSE (n - 1) - 0 + 1) = n
      BY <1>1
    <2> HIDE DEF n
    <2> QED
      BY <2>1, FS_Interval
  <1>7. rank \in Surjection(names, 0 .. n - 1)
    BY <1>5, <1>6, FS_Injection
  <1>8. ASSUME NEW k \in 0 .. n - 1 PROVE \E m \in names : Cardinality(Before(names, m)) = k
    <2>1. \E m \in names : rank[m] = k
      BY <1>7 DEF Surjection
    <2> QED
      BY <1>r, <2>1
  <1>9. q = [i \in 1 .. n |-> CHOOSE m \in names : Cardinality(Before(names, m)) = i - 1]
    BY DEF Sorted, Before
  <1>10. ASSUME NEW i \in 1 .. n
         PROVE  q[i] \in names /\ Cardinality(Before(names, q[i])) = i - 1
    <2>1. i - 1 \in 0 .. n - 1
      BY <1>1
    <2>2. \E m \in names : Cardinality(Before(names, m)) = i - 1
      BY <1>8, <2>1
    <2>3. q[i] = CHOOSE m \in names : Cardinality(Before(names, m)) = i - 1
      BY <1>9
    <2> QED
      BY <2>2, <2>3
  <1>11. ASSUME NEW m \in names
         PROVE  /\ Cardinality(Before(names, m)) + 1 \in 1 .. n
                /\ q[Cardinality(Before(names, m)) + 1] = m
    <2>1. PICK k \in 0 .. n - 1 : k = Cardinality(Before(names, m))
      BY <1>2
    <2>2. k + 1 \in 1 .. n /\ (k + 1) - 1 = k
      BY <1>1
    <2>3. q[k + 1] \in names /\ Cardinality(Before(names, q[k + 1])) = k
      BY <1>10, <2>2
    <2>4. q[k + 1] = m
      BY <1>4, <2>1, <2>3
    <2> QED
      BY <2>1, <2>2, <2>4
  <1>12. q \in [1 .. n -> names]
    <2>1. DOMAIN q = 1 .. n /\ q = [i \in 1 .. n |-> q[i]]
      BY <1>9
    <2> QED
      BY <1>10, <2>1
  <1> HIDE DEF n
  <1>13. q \in Seq(names) /\ Len(q) = n
    BY <1>1, <1>12
  <1>14. IsSeq(q)
    BY <1>13, OfRange
  <1>15. {q[i] : i \in DOMAIN q} = names
    BY <1>10, <1>11, <1>12
  <1>16. DOMAIN q = 1 .. n
    BY <1>12
  <1> QED
    BY <1>1, <1>10, <1>11, <1>13, <1>14, <1>15, <1>16 DEF n

-----------------------------------------------------------------------------
\* The tables.
LEMMA Word ==
  ASSUME NEW a
  PROVE  IsSeq(<<a>>) /\ Len(<<a>>) = 1 /\ <<a>>[1] = a
  <1>1. <<a>> \in Seq({a}) /\ Len(<<a>>) = 1 /\ <<a>>[1] = a
    OBVIOUS
  <1> QED
    BY <1>1, OfRange

LEMMA Tabled ==
  ASSUME NEW n \in Nat, NEW ws, ws = [i \in 1 .. n |-> ws[i]]
  PROVE  IsSeq(ws) /\ Len(ws) = n
  <1> DEFINE W == {ws[i] : i \in 1 .. n}
  <1>1. ws \in [1 .. n -> W]
    OBVIOUS
  <1> HIDE DEF W
  <1>2. ws \in Seq(W) /\ Len(ws) = n
    BY <1>1
  <1> QED
    BY <1>2, OfRange

\* A string of one character.
LEMMA NameRead ==
  ASSUME NEW c, c # CONTROL
  PROVE  /\ IsSeq(WriteStr(<<c>>)) /\ Len(WriteStr(<<c>>)) = 2
         /\ \A f, b : Placed(f, b, WriteStr(<<c>>)) =>
                        b \in Nat /\ ReadStr(f, b + 1) = Cursor(b + 3, <<c>>)
  <1> DEFINE C == {c, CONTROL}
             s == <<c>>
  <1>1. s \in Seq(C) /\ Len(s) = 1 /\ s[1] = c /\ CONTROL \in C
    OBVIOUS
  <1> HIDE DEF C, s
  <1>2. IsSeq(WriteStr(s)) /\ Len(WriteStr(s)) = 2
    <2>1. IsSeq(WriteStr(s))
      BY <1>1, StrWritten
    <2>2. Len(WriteStr(s)) = Len(s) + 1
      BY <1>1, StrWritten
    <2> QED
      BY <1>1, <2>1, <2>2
  <1>3. ~ \E i \in 1 .. Len(s) : s[i] = CONTROL
    BY <1>1
  <1>4. ASSUME NEW f, NEW b, Placed(f, b, WriteStr(s))
        PROVE  b \in Nat /\ ReadStr(f, b + 1) = Cursor(b + 3, s)
    <2>1. ReadStr(f, b + 1) = Cursor(b + Len(WriteStr(s)) + 1, s)
      BY <1>1, <1>3, <1>4, StrRead
    <2>2. b \in Nat
      BY <1>4 DEF Placed
    <2>3. b + 2 + 1 = b + 3
      BY <2>2
    <2> QED
      BY <1>2, <2>1, <2>2, <2>3
  <1> QED
    BY <1>2, <1>4 DEF s

LEMMA ExternsRead ==
  ASSUME NEW names, IsSeq(names), \A i \in DOMAIN names : names[i] # CONTROL,
         NEW strs, strs = [i \in DOMAIN names |-> <<names[i]>>],
         NEW f, NEW b, Placed(f, b, WriteStrings(strs))
  PROVE  Table(f, b + 1, ReadStrs(f)) = Cursor(b + Len(WriteStrings(strs)) + 1, strs)
  <1> DEFINE n == Len(names)
             ws == [i \in DOMAIN strs |-> WriteStr(strs[i])]
  <1>1. n \in Nat /\ DOMAIN names = 1 .. n /\ DOMAIN strs = 1 .. n
    BY DEF IsSeq
  <1>2. \A i \in 1 .. n : strs[i] = <<names[i]>> /\ ws[i] = WriteStr(<<names[i]>>)
    BY <1>1
  <1>3. strs = [i \in 1 .. n |-> strs[i]] /\ ws = [i \in 1 .. n |-> ws[i]]
    BY <1>1
  <1>4. WriteStrings(strs) = WriteLoop(ws)
    BY DEF WriteStrings
  <1> HIDE DEF ws, n
  <1>5. IsSeq(strs) /\ Len(strs) = n /\ IsSeq(ws) /\ Len(ws) = n
    BY <1>1, <1>3, Tabled
  <1>6. Words(ws)
    BY <1>1, <1>2, <1>5, NameRead DEF Words
  <1>7. ASSUME NEW k \in 1 .. Len(ws), NEW c \in Nat, Placed(f, c, ws[k])
        PROVE  ReadStrs(f)[c + 1] = Cursor(c + Len(ws[k]) + 1, strs[k])
    <2>1. k \in 1 .. n /\ names[k] # CONTROL /\ ws[k] = WriteStr(<<names[k]>>)
      BY <1>1, <1>2, <1>5
    <2>2. ReadStr(f, c + 1) = Cursor(c + 3, strs[k]) /\ Len(ws[k]) = 2
      <3>1. Len(WriteStr(<<names[k]>>)) = 2
        BY <2>1, NameRead
      <3>2. ReadStr(f, c + 1) = Cursor(c + 3, <<names[k]>>)
        BY <1>7, <2>1, NameRead
      <3> QED
        BY <1>2, <2>1, <3>1, <3>2
    <2>3. c + 2 + 1 = c + 3 /\ c + 1 \in Nat
      OBVIOUS
    <2>4. ReadStrs(f)[c + 1] = ReadStr(f, c + 1)
      BY <2>3 DEF ReadStrs
    <2> QED
      BY <2>2, <2>3, <2>4
  <1>8. Table(f, b + 1, ReadStrs(f)) = Cursor(b + Len(WriteLoop(ws)) + 1, strs)
    <2>1. Placed(f, b, WriteLoop(ws))
      BY <1>4
    <2>2. ItemsRead(ws, f, ReadStrs(f), strs)
      BY <1>7 DEF ItemsRead
    <2>3. Len(strs) = Len(ws) /\ IsSeq(strs)
      BY <1>5
    <2> QED
      BY <1>6, <2>1, <2>2, <2>3, TableRead
  <1> QED
    BY <1>4, <1>8

\* ReadFields where as many tokens were written.
LEMMA FieldRead ==
  ASSUME NEW a, NEW kind, NEW f, NEW b, Placed(f, b, << <<kind, a>> >>)
  PROVE  b \in Nat /\ ReadFields(1, f, b + 1) = Cursor(b + 2, <<a>>)
  <1> DEFINE w == << <<kind, a>> >>
  <1>1. Len(w) = 1 /\ w[1] = <<kind, a>>
    OBVIOUS
  <1> HIDE DEF w
  <1>2. Placed(f, b, w)
    BY DEF w
  <1>3. /\ b \in Nat /\ Len(f) \in Nat /\ b + 1 <= Len(f)
        /\ f[b + 1] = <<kind, a>>
    BY <1>1, <1>2 DEF Placed
  <1>4. /\ (b + 1) + 1 = b + 2 /\ (b + 1) + 1 - 1 = b + 1
    BY <1>3
  <1>5. ((b + 1) + 1 - 1 <= Len(f)) = TRUE
    BY <1>3, <1>4
  <1> DEFINE out == [i \in 1 .. 1 |-> IF (b + 1) + i - 1 <= Len(f) THEN f[(b + 1) + i - 1][2] ELSE 0]
  <1>6. out = <<a>>
    <2>1. out[1] = a
      BY <1>3, <1>4, <1>5
    <2>2. out = [i \in 1 .. 1 |-> out[i]]
      OBVIOUS
    <2> HIDE DEF out
    <2>3. IsSeq(out) /\ Len(out) = 1
      BY <2>2, Tabled
    <2> DEFINE one == <<a>>
    <2>4. IsSeq(one) /\ Len(one) = 1 /\ one[1] = a
      BY Word
    <2> HIDE DEF one
    <2>5. \A i \in 1 .. Len(out) : out[i] = one[i]
      BY <2>1, <2>3, <2>4
    <2>6. out = one
      BY <2>3, <2>4, <2>5, SameSeq
    <2> QED
      BY <2>6 DEF one
  <1>7. ReadFields(1, f, b + 1) =
          [at |-> (b + 1) + 1, ok |-> (b + 1) + 1 - 1 <= Len(f), out |-> out]
    BY DEF ReadFields
  <1> HIDE DEF out
  <1>8. ReadFields(1, f, b + 1) = [at |-> b + 2, ok |-> TRUE, out |-> <<a>>]
    BY <1>4, <1>5, <1>6, <1>7
  <1> QED
    BY <1>3, <1>8 DEF Cursor

LEMMA LinesRead ==
  ASSUME NEW lines, IsSeq(lines), NEW f, NEW b, Placed(f, b, WriteLines(lines)),
         NEW outs, outs = [i \in DOMAIN lines |-> <<lines[i]>>]
  PROVE  Table(f, b + 1, ReadLines(f)) = Cursor(b + Len(WriteLines(lines)) + 1, outs)
  <1> DEFINE n == Len(lines)
             ws == [i \in DOMAIN lines |-> << <<"line", lines[i]>> >>]
  <1>1. n \in Nat /\ DOMAIN lines = 1 .. n
    BY DEF IsSeq
  <1>2. \A i \in 1 .. n : outs[i] = <<lines[i]>> /\ ws[i] = << <<"line", lines[i]>> >>
    BY <1>1
  <1>3. outs = [i \in 1 .. n |-> outs[i]] /\ ws = [i \in 1 .. n |-> ws[i]]
    BY <1>1
  <1>4. WriteLines(lines) = WriteLoop(ws)
    BY DEF WriteLines
  <1> HIDE DEF ws, n
  <1>5. IsSeq(outs) /\ Len(outs) = n /\ IsSeq(ws) /\ Len(ws) = n
    BY <1>1, <1>3, Tabled
  <1>6. Words(ws)
    BY <1>2, <1>5, Word DEF Words
  <1>7. ASSUME NEW k \in 1 .. Len(ws), NEW c \in Nat, Placed(f, c, ws[k])
        PROVE  ReadLines(f)[c + 1] = Cursor(c + Len(ws[k]) + 1, outs[k])
    <2>1. k \in 1 .. n /\ ws[k] = << <<"line", lines[k]>> >>
      BY <1>2, <1>5
    <2>2. ReadFields(1, f, c + 1) = Cursor(c + 2, <<lines[k]>>)
      BY <1>7, <2>1, FieldRead
    <2>3. c + 1 + 1 = c + 2 /\ c + 1 \in Nat /\ Len(ws[k]) = 1
      BY <2>1, Word
    <2>4. ReadLines(f)[c + 1] = ReadFields(1, f, c + 1)
      BY <2>3 DEF ReadLines
    <2> QED
      BY <1>2, <2>1, <2>2, <2>3, <2>4
  <1>8. Table(f, b + 1, ReadLines(f)) = Cursor(b + Len(WriteLoop(ws)) + 1, outs)
    <2>1. Placed(f, b, WriteLoop(ws))
      BY <1>4
    <2>2. ItemsRead(ws, f, ReadLines(f), outs)
      BY <1>7 DEF ItemsRead
    <2>3. Len(outs) = Len(ws) /\ IsSeq(outs)
      BY <1>5
    <2> QED
      BY <1>6, <2>1, <2>2, <2>3, TableRead
  <1> QED
    BY <1>4, <1>8

LEMMA Triple ==
  ASSUME NEW x, NEW y, NEW z
  PROVE  /\ IsSeq(<<x, y, z>>) /\ Len(<<x, y, z>>) = 3
         /\ <<x, y, z>>[1] = x /\ <<x, y, z>>[2] = y /\ <<x, y, z>>[3] = z
  <1>1. <<x, y, z>> \in Seq({x, y, z}) /\ Len(<<x, y, z>>) = 3
    OBVIOUS
  <1>2. <<x, y, z>>[1] = x /\ <<x, y, z>>[2] = y /\ <<x, y, z>>[3] = z
    OBVIOUS
  <1> QED
    BY <1>1, <1>2, OfRange

LEMMA FieldsRead ==
  ASSUME NEW x, NEW y, NEW z, NEW f, NEW b, Placed(f, b, <<Num(x), Num(y), Num(z)>>)
  PROVE  b \in Nat /\ ReadFields(3, f, b + 1) = Cursor(b + 4, <<x, y, z>>)
  <1> DEFINE w == <<Num(x), Num(y), Num(z)>>
  <1>1. Len(w) = 3 /\ w[1] = Num(x) /\ w[2] = Num(y) /\ w[3] = Num(z)
    BY Triple
  <1> HIDE DEF w
  <1>2. Placed(f, b, w)
    BY DEF w
  <1>3. /\ b \in Nat /\ Len(f) \in Nat /\ b + 3 <= Len(f)
        /\ f[b + 1] = Num(x) /\ f[b + 2] = Num(y) /\ f[b + 3] = Num(z)
    BY <1>1, <1>2 DEF Placed
  <1>4. /\ (b + 1) + 3 = b + 4 /\ (b + 1) + 3 - 1 = b + 3
        /\ (b + 1) + 1 - 1 = b + 1 /\ (b + 1) + 2 - 1 = b + 2
    BY <1>3
  <1>5. ((b + 1) + 3 - 1 <= Len(f)) = TRUE
    BY <1>3, <1>4
  <1> DEFINE out == [i \in 1 .. 3 |-> IF (b + 1) + i - 1 <= Len(f) THEN f[(b + 1) + i - 1][2] ELSE 0]
  <1>6. out = <<x, y, z>>
    <2>1. out[1] = x
      BY <1>3, <1>4 DEF Num
    <2>2. out[2] = y
      BY <1>3, <1>4 DEF Num
    <2>3. out[3] = z
      BY <1>3, <1>4 DEF Num
    <2>4. out = [i \in 1 .. 3 |-> out[i]]
      OBVIOUS
    <2> HIDE DEF out
    <2>5. IsSeq(out) /\ Len(out) = 3
      BY <2>4, Tabled
    <2> DEFINE all == <<x, y, z>>
    <2>6. IsSeq(all) /\ Len(all) = 3 /\ all[1] = x /\ all[2] = y /\ all[3] = z
      BY Triple
    <2> HIDE DEF all
    <2>7. \A i \in 1 .. Len(out) : out[i] = all[i]
      BY <2>1, <2>2, <2>3, <2>5, <2>6
    <2>8. out = all
      BY <2>5, <2>6, <2>7, SameSeq
    <2> QED
      BY <2>8 DEF all
  <1>7. ReadFields(3, f, b + 1) =
          [at |-> (b + 1) + 3, ok |-> (b + 1) + 3 - 1 <= Len(f), out |-> out]
    BY DEF ReadFields
  <1> HIDE DEF out
  <1>8. ReadFields(3, f, b + 1) = [at |-> b + 4, ok |-> TRUE, out |-> <<x, y, z>>]
    BY <1>4, <1>5, <1>6, <1>7
  <1> QED
    BY <1>3, <1>8 DEF Cursor

LEMMA VarsRead ==
  ASSUME NEW vars, IsSeq(vars), NEW f, NEW b, Placed(f, b, WriteVars(vars)),
         NEW outs, outs = [i \in DOMAIN vars |-> <<vars[i].num, vars[i].code, vars[i].size>>]
  PROVE  Table(f, b + 1, ReadVars(f)) = Cursor(b + Len(WriteVars(vars)) + 1, outs)
  <1> DEFINE n == Len(vars)
             Word3(i) == <<Num(vars[i].num), Num(vars[i].code), Num(vars[i].size)>>
             ws == [i \in DOMAIN vars |-> Word3(i)]
  <1>1. n \in Nat /\ DOMAIN vars = 1 .. n
    BY DEF IsSeq
  <1>2. \A i \in 1 .. n : /\ outs[i] = <<vars[i].num, vars[i].code, vars[i].size>>
                          /\ ws[i] = Word3(i)
    BY <1>1
  <1>3. outs = [i \in 1 .. n |-> outs[i]] /\ ws = [i \in 1 .. n |-> ws[i]]
    BY <1>1
  <1>4. WriteVars(vars) = WriteLoop(ws)
    BY DEF WriteVars
  <1> HIDE DEF ws, n
  <1>5. IsSeq(outs) /\ Len(outs) = n /\ IsSeq(ws) /\ Len(ws) = n
    BY <1>1, <1>3, Tabled
  <1>w. ASSUME NEW i \in 1 .. n PROVE IsSeq(ws[i]) /\ Len(ws[i]) = 3
    <2>1. PICK x, y, z : x = Num(vars[i].num) /\ y = Num(vars[i].code) /\ z = Num(vars[i].size)
      OBVIOUS
    <2>2. ws[i] = <<x, y, z>>
      BY <1>2, <2>1
    <2> QED
      BY <2>2, Triple
  <1>6. Words(ws)
    BY <1>5, <1>w DEF Words
  <1>7. ASSUME NEW k \in 1 .. Len(ws), NEW c \in Nat, Placed(f, c, ws[k])
        PROVE  ReadVars(f)[c + 1] = Cursor(c + Len(ws[k]) + 1, outs[k])
    <2>1. k \in 1 .. n /\ ws[k] = Word3(k)
      BY <1>2, <1>5
    <2>2. ReadFields(3, f, c + 1) = Cursor(c + 4, <<vars[k].num, vars[k].code, vars[k].size>>)
      BY <1>7, <2>1, FieldsRead
    <2>3. c + 3 + 1 = c + 4 /\ c + 1 \in Nat /\ Len(ws[k]) = 3
      BY <1>w, <2>1
    <2>4. ReadVars(f)[c + 1] = ReadFields(3, f, c + 1)
      BY <2>3 DEF ReadVars
    <2>5. outs[k] = <<vars[k].num, vars[k].code, vars[k].size>>
      BY <1>2, <2>1
    <2> QED
      BY <2>2, <2>3, <2>4, <2>5
  <1>8. Table(f, b + 1, ReadVars(f)) = Cursor(b + Len(WriteLoop(ws)) + 1, outs)
    <2>1. Placed(f, b, WriteLoop(ws))
      BY <1>4
    <2>2. ItemsRead(ws, f, ReadVars(f), outs)
      BY <1>7 DEF ItemsRead
    <2>3. Len(outs) = Len(ws) /\ IsSeq(outs)
      BY <1>5
    <2> QED
      BY <1>6, <2>1, <2>2, <2>3, TableRead
  <1> QED
    BY <1>4, <1>8

ImportsOut(fs) == [i \in DOMAIN fs |-> << <<fs[i][1]>>, fs[i][2] >>]

LEMMA ImportRead ==
  ASSUME NEW name, name # CONTROL, NEW num
  PROVE  /\ IsSeq(WriteStr(<<name>>) \o <<Num(num)>>)
         /\ Len(WriteStr(<<name>>) \o <<Num(num)>>) = 3
         /\ \A f, b : Placed(f, b, WriteStr(<<name>>) \o <<Num(num)>>) =>
              b \in Nat /\ ReadImport(f, b + 1) = Cursor(b + 4, << <<name>>, num >>)
  <1> DEFINE u == WriteStr(<<name>>)
             v == <<Num(num)>>
  <1>1. IsSeq(u) /\ Len(u) = 2
    BY NameRead
  <1>2. IsSeq(v) /\ Len(v) = 1
    BY Word
  <1>3. \A f, b : Placed(f, b, u) => b \in Nat /\ ReadStr(f, b + 1) = Cursor(b + 3, <<name>>)
    BY NameRead
  <1>4. \A f, b : Placed(f, b, v) => b \in Nat /\ ReadFields(1, f, b + 1) = Cursor(b + 2, <<num>>)
    BY FieldRead DEF Num
  <1> HIDE DEF u, v
  <1>5. IsSeq(u \o v) /\ Len(u \o v) = 3
    <2>1. IsSeq(u \o v)
      BY <1>1, <1>2, ConcatIsSeq
    <2>2. Len(u \o v) = Len(u) + Len(v)
      BY <1>1, <1>2, ConcatIsSeq
    <2> QED
      BY <1>1, <1>2, <2>1, <2>2
  <1>6. ASSUME NEW f, NEW b, Placed(f, b, u \o v)
        PROVE  b \in Nat /\ ReadImport(f, b + 1) = Cursor(b + 4, << <<name>>, num >>)
    <2>1. Placed(f, b, u) /\ Placed(f, b + 2, v)
      BY <1>1, <1>2, <1>6, PlacedBoth
    <2>2. b \in Nat /\ ReadStr(f, b + 1) = Cursor(b + 3, <<name>>)
      BY <1>3, <2>1
    <2>3. (b + 2) + 1 = b + 3 /\ (b + 2) + 2 = b + 4
      BY <2>2
    <2>4. ReadFields(1, f, (b + 2) + 1) = Cursor((b + 2) + 2, <<num>>)
      BY <1>4, <2>1
    <2>5. ReadFields(1, f, b + 3) = Cursor(b + 4, <<num>>)
      BY <2>3, <2>4
    <2> DEFINE s == ReadStr(f, b + 1)
               t == ReadFields(1, f, s.at)
    <2>6. s.at = b + 3 /\ s.out = <<name>> /\ s.ok = TRUE
      BY <2>2 DEF Cursor
    <2>7. t = Cursor(b + 4, <<num>>)
      BY <2>5, <2>6
    <2>8. t.at = b + 4 /\ t.out = <<num>> /\ t.ok = TRUE
      BY <2>7 DEF Cursor
    <2>9. ReadImport(f, b + 1) = [at |-> t.at, out |-> <<s.out, t.out[1]>>, ok |-> s.ok /\ t.ok]
      BY DEF ReadImport
    <2> HIDE DEF s, t
    <2>10. ReadImport(f, b + 1) = [at |-> b + 4, out |-> << <<name>>, num >>, ok |-> TRUE]
      BY <2>6, <2>8, <2>9, Word
    <2> QED
      BY <2>2, <2>10 DEF Cursor
  <1> QED
    BY <1>5, <1>6 DEF u, v

LEMMA ImportsRead ==
  ASSUME NEW fs, IsSeq(fs), \A i \in DOMAIN fs : fs[i][1] # CONTROL
  PROVE  /\ IsSeq(WriteImports(fs)) /\ Len(WriteImports(fs)) \in Nat
         /\ \A f, b : Placed(f, b, WriteImports(fs)) =>
              Table(f, b + 1, ReadImports(f)) = Cursor(b + Len(WriteImports(fs)) + 1, ImportsOut(fs))
  <1> DEFINE n == Len(fs)
             Word2(i) == WriteStr(<<fs[i][1]>>) \o <<Num(fs[i][2])>>
             ws == [i \in DOMAIN fs |-> Word2(i)]
             outs == ImportsOut(fs)
  <1>1. n \in Nat /\ DOMAIN fs = 1 .. n
    BY DEF IsSeq
  <1>2. \A i \in 1 .. n : outs[i] = << <<fs[i][1]>>, fs[i][2] >> /\ ws[i] = Word2(i)
    BY <1>1 DEF ImportsOut
  <1>3. outs = [i \in 1 .. n |-> outs[i]] /\ ws = [i \in 1 .. n |-> ws[i]]
    BY <1>1 DEF ImportsOut
  <1>4. WriteImports(fs) = WriteLoop(ws)
    BY DEF WriteImports
  <1> HIDE DEF ws, n, outs
  <1>5. IsSeq(outs) /\ Len(outs) = n /\ IsSeq(ws) /\ Len(ws) = n
    BY <1>1, <1>3, Tabled
  <1>w. ASSUME NEW i \in 1 .. n
        PROVE  /\ IsSeq(ws[i]) /\ Len(ws[i]) = 3
               /\ \A f, b : Placed(f, b, ws[i]) =>
                    b \in Nat /\ ReadImport(f, b + 1) = Cursor(b + 4, << <<fs[i][1]>>, fs[i][2] >>)
    <2>1. PICK name, num : name = fs[i][1] /\ num = fs[i][2]
      OBVIOUS
    <2>2. name # CONTROL /\ ws[i] = WriteStr(<<name>>) \o <<Num(num)>>
      BY <1>1, <1>2, <2>1
    <2>3. IsSeq(ws[i])
      BY <2>2, ImportRead
    <2>4. Len(ws[i]) = 3
      BY <2>2, ImportRead
    <2>5. ASSUME NEW f, NEW b, Placed(f, b, ws[i])
          PROVE  b \in Nat /\ ReadImport(f, b + 1) = Cursor(b + 4, << <<name>>, num >>)
      BY <2>2, <2>5, ImportRead
    <2> QED
      BY <2>1, <2>3, <2>4, <2>5
  <1>6. Words(ws)
    BY <1>5, <1>w DEF Words
  <1>7. ASSUME NEW f, NEW k \in 1 .. Len(ws), NEW c \in Nat, Placed(f, c, ws[k])
        PROVE  ReadImports(f)[c + 1] = Cursor(c + Len(ws[k]) + 1, outs[k])
    <2>1. k \in 1 .. n
      BY <1>5
    <2>2. ReadImport(f, c + 1) = Cursor(c + 4, << <<fs[k][1]>>, fs[k][2] >>)
      <3>1. \A g, b : Placed(g, b, ws[k]) =>
                b \in Nat /\ ReadImport(g, b + 1) = Cursor(b + 4, << <<fs[k][1]>>, fs[k][2] >>)
        BY <1>w, <2>1
      <3> QED
        BY <1>7, <3>1
    <2>3. c + 3 + 1 = c + 4 /\ c + 1 \in Nat /\ Len(ws[k]) = 3
      <3>1. Len(ws[k]) = 3
        BY <1>w, <2>1, Zenon
      <3> QED
        BY <3>1
    <2>4. ReadImports(f)[c + 1] = ReadImport(f, c + 1)
      BY <2>3 DEF ReadImports
    <2>5. outs[k] = << <<fs[k][1]>>, fs[k][2] >>
      BY <1>2, <2>1
    <2> QED
      BY <2>2, <2>3, <2>4, <2>5
  <1>8. ASSUME NEW f, NEW b, Placed(f, b, WriteLoop(ws))
        PROVE  Table(f, b + 1, ReadImports(f)) = Cursor(b + Len(WriteLoop(ws)) + 1, outs)
    <2>1. ItemsRead(ws, f, ReadImports(f), outs)
      BY <1>7 DEF ItemsRead
    <2>2. Len(outs) = Len(ws) /\ IsSeq(outs)
      BY <1>5
    <2> QED
      BY <1>6, <1>8, <2>1, <2>2, TableRead
  <1>9. IsSeq(WriteLoop(ws)) /\ Len(WriteLoop(ws)) \in Nat
    BY <1>6, LoopIsSeq
  <1> QED
    BY <1>4, <1>8, <1>9 DEF outs

\* A DLL with what is imported from it.
ReadsDll(w, out) ==
  \A f, b : Placed(f, b, w) => ReadDll(f, b + 1) = Cursor(b + Len(w) + 1, out)

LEMMA DllRead ==
  ASSUME NEW name, name # CONTROL, NEW fs, IsSeq(fs), \A i \in DOMAIN fs : fs[i][1] # CONTROL,
         NEW w, w = WriteStr(<<name>>) \o WriteImports(fs)
  PROVE  /\ IsSeq(w) /\ Len(w) \in Nat
         /\ ReadsDll(w, << <<name>>, ImportsOut(fs) >>)
  <1> DEFINE u == WriteStr(<<name>>)
             v == WriteImports(fs)
             l == Len(v)
  <1>1. IsSeq(u) /\ Len(u) = 2
    BY NameRead
  <1>2. IsSeq(v) /\ l \in Nat
    BY ImportsRead
  <1>3. \A f, b : Placed(f, b, u) => b \in Nat /\ ReadStr(f, b + 1) = Cursor(b + 3, <<name>>)
    BY NameRead
  <1>4. \A f, b : Placed(f, b, v) => Table(f, b + 1, ReadImports(f)) = Cursor(b + l + 1, ImportsOut(fs))
    BY ImportsRead
  <1>w. w = u \o v
    OBVIOUS
  <1> HIDE DEF u, v
  <1>5. IsSeq(w) /\ Len(w) = 2 + l
    BY <1>1, <1>2, <1>w, ConcatIsSeq
  <1> HIDE DEF l
  <1>6. ASSUME NEW f, NEW b, Placed(f, b, w)
        PROVE  ReadDll(f, b + 1) = Cursor(b + Len(w) + 1, << <<name>>, ImportsOut(fs) >>)
    <2>1. Placed(f, b, u) /\ Placed(f, b + 2, v)
      BY <1>1, <1>2, <1>6, <1>w, PlacedBoth
    <2>2. b \in Nat /\ ReadStr(f, b + 1) = Cursor(b + 3, <<name>>)
      BY <1>3, <2>1
    <2>3. (b + 2) + 1 = b + 3 /\ (b + 2) + l + 1 = b + (2 + l) + 1
      BY <1>2, <2>2
    <2>4. Table(f, (b + 2) + 1, ReadImports(f)) = Cursor((b + 2) + l + 1, ImportsOut(fs))
      BY <1>4, <2>1
    <2>5. Table(f, b + 3, ReadImports(f)) = Cursor(b + Len(w) + 1, ImportsOut(fs))
      BY <1>5, <2>3, <2>4
    <2> DEFINE s == ReadStr(f, b + 1)
               t == Table(f, s.at, ReadImports(f))
    <2>6. s.at = b + 3 /\ s.out = <<name>> /\ s.ok = TRUE
      BY <2>2 DEF Cursor
    <2>7. t = Cursor(b + Len(w) + 1, ImportsOut(fs))
      BY <2>5, <2>6
    <2>8. t.at = b + Len(w) + 1 /\ t.out = ImportsOut(fs) /\ t.ok = TRUE
      BY <2>7 DEF Cursor
    <2>9. ReadDll(f, b + 1) = [at |-> t.at, out |-> <<s.out, t.out>>, ok |-> s.ok /\ t.ok]
      BY DEF ReadDll
    <2> HIDE DEF s, t
    <2>10. ReadDll(f, b + 1) = [at |-> b + Len(w) + 1, out |-> << <<name>>, ImportsOut(fs) >>, ok |-> TRUE]
      BY <2>6, <2>8, <2>9
    <2> QED
      BY <2>2, <2>10 DEF Cursor
  <1>7. Len(w) \in Nat
    BY <1>2, <1>5
  <1>8. ReadsDll(w, << <<name>>, ImportsOut(fs) >>)
    BY <1>6 DEF ReadsDll
  <1> QED
    BY <1>5, <1>7, <1>8

LEMMA DllsRead ==
  ASSUME NEW dlls, NEW names, names = Sorted(DOMAIN dlls), IsSeq(names),
         \A i \in DOMAIN names :
           /\ names[i] # CONTROL /\ IsSeq(dlls[names[i]])
           /\ \A j \in DOMAIN dlls[names[i]] : dlls[names[i]][j][1] # CONTROL,
         NEW outs, outs = [i \in DOMAIN names |-> << <<names[i]>>, ImportsOut(dlls[names[i]]) >>]
  PROVE  /\ IsSeq(WriteDlls(dlls)) /\ Len(WriteDlls(dlls)) \in Nat
         /\ \A f, b : Placed(f, b, WriteDlls(dlls)) =>
              Table(f, b + 1, ReadDlls(f)) = Cursor(b + Len(WriteDlls(dlls)) + 1, outs)
  <1> DEFINE n == Len(names)
             WordD(i) == WriteStr(<<names[i]>>) \o WriteImports(dlls[names[i]])
             ws == [i \in DOMAIN names |-> WordD(i)]
  <1>1. n \in Nat /\ DOMAIN names = 1 .. n
    BY DEF IsSeq
  <1>2. \A i \in 1 .. n : outs[i] = << <<names[i]>>, ImportsOut(dlls[names[i]]) >> /\ ws[i] = WordD(i)
    BY <1>1
  <1>3. outs = [i \in 1 .. n |-> outs[i]] /\ ws = [i \in 1 .. n |-> ws[i]]
    BY <1>1
  <1>4. WriteDlls(dlls) = WriteLoop(ws)
    BY DEF WriteDlls
  <1> HIDE DEF ws, n
  <1>5. IsSeq(outs) /\ Len(outs) = n /\ IsSeq(ws) /\ Len(ws) = n
    BY <1>1, <1>3, Tabled
  <1>w. ASSUME NEW i \in 1 .. n
        PROVE  /\ IsSeq(ws[i]) /\ Len(ws[i]) \in Nat
               /\ ReadsDll(ws[i], outs[i])
    <2>1. /\ names[i] # CONTROL /\ IsSeq(dlls[names[i]])
          /\ \A j \in DOMAIN dlls[names[i]] : dlls[names[i]][j][1] # CONTROL
      BY <1>1
    <2>2. PICK name, fs, w : name = names[i] /\ fs = dlls[names[i]] /\ w = ws[i]
      OBVIOUS
    <2>3. /\ name # CONTROL /\ IsSeq(fs) /\ \A j \in DOMAIN fs : fs[j][1] # CONTROL
      BY <2>1, <2>2
    <2>4. w = WriteStr(<<name>>) \o WriteImports(fs) /\ outs[i] = << <<name>>, ImportsOut(fs) >>
      BY <1>2, <2>2
    <2>5. IsSeq(w) /\ Len(w) \in Nat
      BY <2>3, <2>4, DllRead
    <2>6. ReadsDll(w, << <<name>>, ImportsOut(fs) >>)
      BY <2>3, <2>4, DllRead
    <2> QED
      BY <2>2, <2>4, <2>5, <2>6
  <1>6. Words(ws)
    BY <1>5, <1>w DEF Words
  <1>7. ASSUME NEW f, NEW k \in 1 .. Len(ws), NEW c \in Nat, Placed(f, c, ws[k])
        PROVE  ReadDlls(f)[c + 1] = Cursor(c + Len(ws[k]) + 1, outs[k])
    <2>1. ReadDll(f, c + 1) = Cursor(c + Len(ws[k]) + 1, outs[k])
      BY <1>5, <1>7, <1>w DEF ReadsDll
    <2>2. c + 1 \in Nat
      OBVIOUS
    <2> QED
      BY <2>1, <2>2 DEF ReadDlls
  <1>8. ASSUME NEW f, NEW b, Placed(f, b, WriteLoop(ws))
        PROVE  Table(f, b + 1, ReadDlls(f)) = Cursor(b + Len(WriteLoop(ws)) + 1, outs)
    <2>1. ItemsRead(ws, f, ReadDlls(f), outs)
      BY <1>7 DEF ItemsRead
    <2>2. Len(outs) = Len(ws) /\ IsSeq(outs)
      BY <1>5
    <2> QED
      BY <1>6, <1>8, <2>1, <2>2, TableRead
  <1>9. IsSeq(WriteLoop(ws)) /\ Len(WriteLoop(ws)) \in Nat
    BY <1>6, LoopIsSeq
  <1> QED
    BY <1>4, <1>8, <1>9

-----------------------------------------------------------------------------
\* The whole file.
LEMMA VarsWritten ==
  ASSUME NEW vars, IsSeq(vars)
  PROVE  IsSeq(WriteVars(vars)) /\ Len(WriteVars(vars)) \in Nat
  <1> DEFINE n == Len(vars)
             ws == [i \in DOMAIN vars |-> <<Num(vars[i].num), Num(vars[i].code), Num(vars[i].size)>>]
  <1>1. n \in Nat /\ DOMAIN vars = 1 .. n
    BY DEF IsSeq
  <1>2. ASSUME NEW i \in 1 .. n PROVE \E x, y, z : ws[i] = <<x, y, z>>
    BY <1>1
  <1>3. ws = [i \in 1 .. n |-> ws[i]]
    BY <1>1
  <1>4. WriteVars(vars) = WriteLoop(ws)
    BY DEF WriteVars
  <1> HIDE DEF ws, n
  <1>5. IsSeq(ws) /\ Len(ws) = n
    BY <1>1, <1>3, Tabled
  <1>6. ASSUME NEW i \in 1 .. n PROVE IsSeq(ws[i])
    <2>1. PICK x, y, z : ws[i] = <<x, y, z>>
      BY <1>2
    <2> QED
      BY <2>1, Triple
  <1>7. Words(ws)
    BY <1>5, <1>6 DEF Words
  <1> QED
    BY <1>4, <1>7, LoopIsSeq

LEMMA LinesWritten ==
  ASSUME NEW lines, IsSeq(lines)
  PROVE  IsSeq(WriteLines(lines)) /\ Len(WriteLines(lines)) \in Nat
  <1> DEFINE n == Len(lines)
             ws == [i \in DOMAIN lines |-> << <<"line", lines[i]>> >>]
  <1>1. n \in Nat /\ DOMAIN lines = 1 .. n
    BY DEF IsSeq
  <1>2. ASSUME NEW i \in 1 .. n PROVE \E x : ws[i] = <<x>>
    BY <1>1
  <1>3. ws = [i \in 1 .. n |-> ws[i]]
    BY <1>1
  <1>4. WriteLines(lines) = WriteLoop(ws)
    BY DEF WriteLines
  <1> HIDE DEF ws, n
  <1>5. IsSeq(ws) /\ Len(ws) = n
    BY <1>1, <1>3, Tabled
  <1>6. ASSUME NEW i \in 1 .. n PROVE IsSeq(ws[i])
    <2>1. PICK x : ws[i] = <<x>>
      BY <1>2
    <2> QED
      BY <2>1, Word
  <1>7. Words(ws)
    BY <1>5, <1>6 DEF Words
  <1> QED
    BY <1>4, <1>7, LoopIsSeq

LEMMA StringsWritten ==
  ASSUME NEW C, CONTROL \in C, NEW strs \in Seq(Seq(C))
  PROVE  IsSeq(WriteStrings(strs)) /\ Len(WriteStrings(strs)) \in Nat
  <1> DEFINE n == Len(strs)
             ws == [i \in DOMAIN strs |-> WriteStr(strs[i])]
  <1>1. n \in Nat /\ DOMAIN strs = 1 .. n /\ \A i \in 1 .. n : strs[i] \in Seq(C)
    OBVIOUS
  <1>2. \A i \in 1 .. n : ws[i] = WriteStr(strs[i])
    BY <1>1
  <1>3. ws = [i \in 1 .. n |-> ws[i]]
    BY <1>1
  <1>4. WriteStrings(strs) = WriteLoop(ws)
    BY DEF WriteStrings
  <1> HIDE DEF ws, n
  <1>5. IsSeq(ws) /\ Len(ws) = n
    BY <1>1, <1>3, Tabled
  <1>6. ASSUME NEW i \in 1 .. n PROVE IsSeq(ws[i])
    <2>1. PICK s \in Seq(C) : s = strs[i]
      BY <1>1
    <2>2. IsSeq(WriteStr(s))
      BY StrWritten
    <2> QED
      BY <1>2, <2>1, <2>2
  <1>7. Words(ws)
    BY <1>5, <1>6 DEF Words
  <1> QED
    BY <1>4, <1>7, LoopIsSeq

\* What an array of one-element sequences was made from.
LEMMA Unwrapped ==
  ASSUME NEW s, IsSeq(s), NEW t, t = [i \in DOMAIN s |-> <<s[i]>>]
  PROVE  [i \in DOMAIN t |-> t[i][1]] = s
  <1>1. s = [i \in DOMAIN s |-> s[i]]
    BY DEF IsSeq
  <1>2. DOMAIN t = DOMAIN s /\ \A i \in DOMAIN s : t[i][1] = s[i]
    OBVIOUS
  <1> QED
    BY <1>1, <1>2

LEMMA OneChars ==
  ASSUME NEW names, IsSeq(names), NEW strs, strs = [i \in DOMAIN names |-> <<names[i]>>]
  PROVE  \E C : CONTROL \in C /\ strs \in Seq(Seq(C))
  <1> DEFINE C == {names[i] : i \in DOMAIN names} \cup {CONTROL}
             W == Seq(C)
  <1>1. Len(names) \in Nat /\ DOMAIN names = 1 .. Len(names)
    BY DEF IsSeq
  <1>2. \A i \in DOMAIN names : names[i] \in C /\ <<names[i]>> \in W
    OBVIOUS
  <1> HIDE DEF W
  <1>3. strs \in [1 .. Len(names) -> W]
    BY <1>1, <1>2
  <1>4. strs \in Seq(W)
    BY <1>1, <1>3
  <1> QED
    BY <1>4 DEF W

LEMMA AnyChars ==
  ASSUME NEW strs, IsSeq(strs), \A i \in DOMAIN strs : IsSeq(strs[i])
  PROVE  \E C : CONTROL \in C /\ strs \in Seq(Seq(C))
  <1>1. Words(strs)
    BY DEF Words, IsSeq
  <1>2. PICK S : strs \in Seq(Seq(S))
    BY <1>1, CommonWords
  <1> DEFINE C == S \cup {CONTROL}
  <1>3. \A s : s \in Seq(S) => s \in Seq(C)
    OBVIOUS
  <1>4. strs \in Seq(Seq(C))
    <2> HIDE DEF C
    <2>1. Len(strs) \in Nat /\ strs \in [1 .. Len(strs) -> Seq(S)]
      BY <1>2
    <2>2. strs \in [1 .. Len(strs) -> Seq(C)]
      BY <1>3, <2>1
    <2> QED
      BY <2>1, <2>2
  <1> QED
    BY <1>4

LEMMA WholePlaced ==
  ASSUME NEW f, IsSeq(f)
  PROVE  Placed(f, 0, f)
  BY DEF Placed, IsSeq

\* The words of a file, each behind the one before it.
Filed(f, a, b, c, d, e) ==
  \E i, j, k, l \in Nat :
    /\ i = 1 + Len(a) /\ j = i + Len(b) /\ k = j + Len(c) /\ l = k + Len(d)
    /\ Placed(f, 1, a) /\ Placed(f, i, b) /\ Placed(f, j, c) /\ Placed(f, k, d)
    /\ Placed(f, l, e)

LEMMA FileWords ==
  ASSUME NEW h, NEW a, NEW b, NEW c, NEW d, NEW e,
         IsSeq(h), Len(h) = 1, IsSeq(a), IsSeq(b), IsSeq(c), IsSeq(d), IsSeq(e)
  PROVE  Filed(h \o a \o b \o c \o d \o e, a, b, c, d, e)
  <1> DEFINE ha == h \o a
             hb == ha \o b
             hc == hb \o c
             hd == hc \o d
             he == hd \o e
             f == he
             i == 1 + Len(a)
             j == i + Len(b)
             k == j + Len(c)
             l == k + Len(d)
  <1>0. f = he /\ f = h \o a \o b \o c \o d \o e
    OBVIOUS
  <1> HIDE DEF f
  <1>1. IsSeq(ha) /\ Len(a) \in Nat /\ Len(ha) = i
    BY ConcatIsSeq
  <1>i. i \in Nat
    BY <1>1
  <1> HIDE DEF ha, i
  <1>2. IsSeq(hb) /\ Len(b) \in Nat /\ Len(hb) = j
    BY <1>1, ConcatIsSeq
  <1>j. j \in Nat
    BY <1>2, <1>i
  <1> HIDE DEF hb, j
  <1>3. IsSeq(hc) /\ Len(c) \in Nat /\ Len(hc) = k
    BY <1>2, ConcatIsSeq
  <1>k. k \in Nat
    BY <1>3, <1>j
  <1> HIDE DEF hc, k
  <1>4. IsSeq(hd) /\ Len(d) \in Nat /\ Len(hd) = l
    BY <1>3, ConcatIsSeq
  <1>l. l \in Nat
    BY <1>4, <1>k
  <1> HIDE DEF hd, l
  <1>5. IsSeq(he)
    BY <1>4, ConcatIsSeq
  <1> HIDE DEF he
  <1>6. Placed(f, 0, he)
    BY <1>0, <1>5, WholePlaced
  <1>7. Placed(f, 0, hd) /\ Placed(f, 0 + Len(hd), e)
    BY <1>4, <1>6, PlacedBoth DEF he
  <1>8. Placed(f, 0, hc) /\ Placed(f, 0 + Len(hc), d)
    BY <1>3, <1>7, PlacedBoth DEF hd
  <1>9. Placed(f, 0, hb) /\ Placed(f, 0 + Len(hb), c)
    BY <1>2, <1>8, PlacedBoth DEF hc
  <1>10. Placed(f, 0, ha) /\ Placed(f, 0 + Len(ha), b)
    BY <1>1, <1>9, PlacedBoth DEF hb
  <1>11. Placed(f, 0, h) /\ Placed(f, 0 + Len(h), a)
    BY <1>10, PlacedBoth DEF ha
  <1>12. 0 + Len(h) = 1 /\ 0 + Len(ha) = i /\ 0 + Len(hb) = j /\ 0 + Len(hc) = k /\ 0 + Len(hd) = l
    BY <1>1, <1>2, <1>3, <1>4, <1>i, <1>j, <1>k, <1>l
  <1>13. /\ i = 1 + Len(a) /\ j = i + Len(b) /\ k = j + Len(c) /\ l = k + Len(d)
    BY DEF i, j, k, l
  <1>14. Filed(f, a, b, c, d, e)
    BY <1>7, <1>8, <1>9, <1>10, <1>11, <1>12, <1>13, <1>i, <1>j, <1>k, <1>l DEF Filed
  <1> QED
    BY <1>0, <1>14

\* The cursors behind the tables, and what Load makes of them.
AfterDlls(f)    == Table(f, 2, ReadDlls(f))
AfterVars(f)    == Table(f, AfterDlls(f).at, ReadVars(f))
AfterExterns(f) == Table(f, AfterVars(f).at, ReadStrs(f))
AfterStrings(f) == Table(f, AfterExterns(f).at, ReadStrs(f))
AfterLines(f)   == Table(f, AfterStrings(f).at, ReadLines(f))

LEMMA LoadUnfolds ==
  ASSUME NEW f
  PROVE  /\ Load(f).dlls = AfterDlls(f).out /\ Load(f).vars = Numbered(AfterVars(f).out)
         /\ Load(f).userFuncs = [i \in DOMAIN AfterExterns(f).out |-> AfterExterns(f).out[i][1]]
         /\ Load(f).strings = AfterStrings(f).out
         /\ Load(f).lines = [i \in DOMAIN AfterLines(f).out |-> AfterLines(f).out[i][1]]
         /\ /\ AfterDlls(f).ok = TRUE /\ AfterVars(f).ok = TRUE /\ AfterExterns(f).ok = TRUE
               /\ AfterStrings(f).ok = TRUE /\ AfterLines(f).ok = TRUE
            => Load(f).ok
  <1> DEFINE ok == /\ AfterDlls(f).ok = TRUE /\ AfterVars(f).ok = TRUE /\ AfterExterns(f).ok = TRUE
                   /\ AfterStrings(f).ok = TRUE /\ AfterLines(f).ok = TRUE
  <1>1. Load(f) = [dlls |-> AfterDlls(f).out, vars |-> Numbered(AfterVars(f).out),
                   userFuncs |-> [i \in DOMAIN AfterExterns(f).out |-> AfterExterns(f).out[i][1]],
                   strings |-> AfterStrings(f).out,
                   lines |-> [i \in DOMAIN AfterLines(f).out |-> AfterLines(f).out[i][1]],
                   ok |-> ok]
    BY DEF Load, AfterDlls, AfterVars, AfterExterns, AfterStrings, AfterLines
  <1>2. /\ AfterDlls(f).ok = TRUE /\ AfterVars(f).ok = TRUE /\ AfterExterns(f).ok = TRUE
        /\ AfterStrings(f).ok = TRUE /\ AfterLines(f).ok = TRUE
        => ok
    OBVIOUS
  <1> HIDE DEF ok
  <1>3. Load(f).ok = ok
    BY <1>1
  <1> QED
    BY <1>1, <1>2, <1>3

LEMMA OtherLines ==
  ASSUME NEW f, NEW lines, NEW p, p = [Load(f) EXCEPT !.lines = lines]
  PROVE  /\ p.dlls = Load(f).dlls /\ p.vars = Load(f).vars /\ p.userFuncs = Load(f).userFuncs
         /\ p.strings = Load(f).strings /\ p.lines = lines
  <1>1. PICK a, b, c, d, e, o :
          Load(f) = [dlls |-> a, vars |-> b, userFuncs |-> c, strings |-> d, lines |-> e, ok |-> o]
    BY DEF Load
  <1> QED
    BY <1>1

\* What comes back of the variables: each number has the type and size of the last
\* variable that has it.
SameVars(read, vars) ==
  /\ DOMAIN read = 0 .. Len(vars) - 1
  /\ \A i \in DOMAIN vars :
       LET var == vars[i]
       IN  \/ read[var.num] = [code |-> var.code, size |-> var.size]
           \/ \E j \in DOMAIN vars : i < j /\ vars[j].num = var.num

\* Load reads what Save wrote, but for what is behind a string with the control
\* character in it.
AllClean(strs) == \A s \in ToSet(strs) : Clean(s)

SameProgram(l, p) ==
  /\ {d[1][1] : d \in ToSet(l.dlls)} = DOMAIN p.dlls
  /\ SameVars(l.vars, p.vars)
  /\ l.userFuncs = Sorted(DOMAIN p.externs)
  /\ \A i \in DOMAIN p.strings :
       (\A j \in 1 .. i : Clean(p.strings[j])) => l.strings[i] = p.strings[i]
  /\ AllClean(p.strings) => l.strings = p.strings /\ l.lines = p.lines

\* The tables of a program, as Save writes them and as they are read back.
DllsOut(p) ==
  LET names == Sorted(DOMAIN p.dlls)
  IN  [i \in DOMAIN names |-> << <<names[i]>>, ImportsOut(p.dlls[names[i]]) >>]
VarsOut(p) == [i \in DOMAIN p.vars |-> <<p.vars[i].num, p.vars[i].code, p.vars[i].size>>]
ExternsOut(p) ==
  LET names == Sorted(DOMAIN p.externs)
  IN  [i \in DOMAIN names |-> <<names[i]>>]
LinesOut(p) == [i \in DOMAIN p.lines |-> <<p.lines[i]>>]

LEMMA DllsBack ==
  ASSUME NEW p, IsProgram(p)
  PROVE  /\ IsSeq(WriteDlls(p.dlls)) /\ Len(WriteDlls(p.dlls)) \in Nat
         /\ {d[1][1] : d \in ToSet(DllsOut(p))} = DOMAIN p.dlls
         /\ \A f, b : Placed(f, b, WriteDlls(p.dlls)) =>
              Table(f, b + 1, ReadDlls(f)) = Cursor(b + Len(WriteDlls(p.dlls)) + 1, DllsOut(p))
  <1>1. PICK dlls : dlls = p.dlls
    OBVIOUS
  <1>2. PICK S : S = DOMAIN dlls
    OBVIOUS
  <1>3. PICK names : names = Sorted(S)
    OBVIOUS
  <1>4. PICK outs : outs = [i \in DOMAIN names |-> << <<names[i]>>, ImportsOut(dlls[names[i]]) >>]
    OBVIOUS
  <1>5. outs = DllsOut(p)
    BY <1>1, <1>2, <1>3, <1>4 DEF DllsOut
  <1>6. S \subseteq ToSet(NameOrder)
    BY <1>1, <1>2 DEF IsProgram
  <1>7. IsSeq(names)
    BY <1>3, <1>6, SortedNames
  <1>8. {names[i] : i \in DOMAIN names} = S
    BY <1>3, <1>6, SortedNames
  <1>9. ASSUME NEW i \in DOMAIN names
        PROVE  /\ names[i] # CONTROL /\ IsSeq(dlls[names[i]])
               /\ \A j \in DOMAIN dlls[names[i]] : dlls[names[i]][j][1] # CONTROL
    <2>1. names[i] \in DOMAIN p.dlls
      BY <1>1, <1>2, <1>8
    <2>2. names[i] # CONTROL
      BY <2>1, NamesAssumption DEF IsProgram
    <2>3. PICK fs : fs = p.dlls[names[i]]
      OBVIOUS
    <2>4. fs \in Seq(ToSet(fs)) /\ \A x \in ToSet(fs) : x[1] # CONTROL
      BY <2>1, <2>3 DEF IsProgram
    <2>5. IsSeq(fs)
      BY <2>4, OfRange
    <2>6. \A j \in DOMAIN fs : fs[j][1] # CONTROL
      BY <2>4 DEF ToSet
    <2> QED
      BY <1>1, <2>2, <2>3, <2>5, <2>6
  <1>10. names = Sorted(DOMAIN dlls)
    BY <1>2, <1>3
  <1>11. IsSeq(WriteDlls(dlls)) /\ Len(WriteDlls(dlls)) \in Nat
    BY <1>4, <1>7, <1>9, <1>10, DllsRead
  <1>12. \A f, b : Placed(f, b, WriteDlls(dlls)) =>
           Table(f, b + 1, ReadDlls(f)) = Cursor(b + Len(WriteDlls(dlls)) + 1, outs)
    BY <1>4, <1>7, <1>9, <1>10, DllsRead, Zenon
  <1>13. {d[1][1] : d \in ToSet(outs)} = S
    <2>1. \A i \in DOMAIN names : outs[i][1][1] = names[i]
      BY <1>4
    <2>2. DOMAIN outs = DOMAIN names
      BY <1>4
    <2> QED
      BY <1>8, <2>1, <2>2 DEF ToSet
  <1> QED
    BY <1>1, <1>2, <1>5, <1>11, <1>12, <1>13

LEMMA LatestIs ==
  ASSUME NEW read, Len(read) \in Nat, DOMAIN read = 1 .. Len(read), NEW n, OfNumber(read, n) # {}
  PROVE  Latest(read, n) \in OfNumber(read, n) /\ \A j \in OfNumber(read, n) : j <= Latest(read, n)
  <1> DEFINE S == OfNumber(read, n)
             T == {Len(read) - i : i \in S}
  <1>1. S \subseteq 1 .. Len(read)
    BY DEF OfNumber
  <1>2. T \subseteq Nat /\ T # {}
    BY <1>1
  <1>3. PICK x \in T : \A y \in T : x <= y
    <2> HIDE DEF T
    <2> QED
      BY <1>2, LeastOf
  <1>4. PICK i \in S : x = Len(read) - i
    BY <1>3
  <1>5. \A j \in S : Len(read) - i <= Len(read) - j
    BY <1>3, <1>4
  <1>6. \A j \in S : j <= i
    BY <1>1, <1>5
  <1> QED
    BY <1>6 DEF Latest

LEMMA NumberedOuts ==
  ASSUME NEW vars, IsSeq(vars), \A i \in DOMAIN vars : vars[i].num \in 0 .. Len(vars) - 1,
         NEW outs, Len(outs) = Len(vars), DOMAIN outs = DOMAIN vars,
         \A i \in DOMAIN vars : /\ outs[i][1] = vars[i].num /\ outs[i][2] = vars[i].code
                                /\ outs[i][3] = vars[i].size
  PROVE  SameVars(Numbered(outs), vars)
  <1>1. Len(vars) \in Nat /\ DOMAIN vars = 1 .. Len(vars)
    BY DEF IsSeq
  <1>2. \A i \in DOMAIN vars : /\ outs[i][1] = vars[i].num /\ outs[i][2] = vars[i].code
                              /\ outs[i][3] = vars[i].size
    OBVIOUS
  <1>4. Len(outs) = Len(vars) /\ DOMAIN outs = DOMAIN vars
    OBVIOUS
  <1>5. DOMAIN Numbered(outs) = 0 .. Len(vars) - 1
    BY <1>4 DEF Numbered
  <1>6. ASSUME NEW i \in DOMAIN vars
        PROVE  \/ Numbered(outs)[vars[i].num] = [code |-> vars[i].code, size |-> vars[i].size]
               \/ \E j \in DOMAIN vars : i < j /\ vars[j].num = vars[i].num
    <2>1. PICK n : n = vars[i].num
      OBVIOUS
    <2>2. i \in OfNumber(outs, n)
      BY <1>2, <1>4, <2>1 DEF OfNumber
    <2>3. PICK l : l = Latest(outs, n)
      OBVIOUS
    <2>4. l \in OfNumber(outs, n) /\ i <= l
      BY <1>1, <1>4, <2>2, <2>3, LatestIs
    <2>5. l \in DOMAIN vars /\ vars[l].num = n
      BY <1>2, <1>4, <2>4 DEF OfNumber
    <2>6. Numbered(outs)[n] = [code |-> outs[l][2], size |-> outs[l][3]]
      BY <1>4, <2>1, <2>2, <2>3 DEF Numbered
    <2>7. CASE l = i
      BY <1>2, <2>1, <2>6, <2>7
    <2>8. CASE l # i
      <3>1. i < l
        BY <1>1, <2>4, <2>5, <2>8
      <3> QED
        BY <2>1, <2>5, <3>1
    <2> QED
      BY <2>7, <2>8
  <1> QED
    BY <1>5, <1>6 DEF SameVars

LEMMA NumberedVars ==
  ASSUME NEW vars, IsSeq(vars), \A i \in DOMAIN vars : vars[i].num \in 0 .. Len(vars) - 1,
         NEW outs, outs = [i \in DOMAIN vars |-> <<vars[i].num, vars[i].code, vars[i].size>>]
  PROVE  SameVars(Numbered(outs), vars)
  <1>1. Len(vars) \in Nat /\ DOMAIN vars = 1 .. Len(vars)
    BY DEF IsSeq
  <1>2. \A i \in DOMAIN vars : /\ outs[i][1] = vars[i].num /\ outs[i][2] = vars[i].code
                              /\ outs[i][3] = vars[i].size
    OBVIOUS
  <1>3. outs = [i \in 1 .. Len(vars) |-> outs[i]]
    BY <1>1
  <1>4. Len(outs) = Len(vars) /\ DOMAIN outs = DOMAIN vars
    BY <1>1, <1>3, Tabled DEF IsSeq
  <1> QED
    BY <1>2, <1>4, NumberedOuts

LEMMA VarsBack ==
  ASSUME NEW p, IsProgram(p)
  PROVE  /\ IsSeq(WriteVars(p.vars)) /\ Len(WriteVars(p.vars)) \in Nat
         /\ SameVars(Numbered(VarsOut(p)), p.vars)
         /\ \A f, b : Placed(f, b, WriteVars(p.vars)) =>
              Table(f, b + 1, ReadVars(f)) = Cursor(b + Len(WriteVars(p.vars)) + 1, VarsOut(p))
  <1>1. PICK vars : vars = p.vars
    OBVIOUS
  <1>2. PICK outs : outs = [i \in DOMAIN vars |-> <<vars[i].num, vars[i].code, vars[i].size>>]
    OBVIOUS
  <1>3. outs = VarsOut(p)
    BY <1>1, <1>2 DEF VarsOut
  <1>4. IsSeq(vars)
    BY <1>1, OfRange DEF IsProgram
  <1>5. \A i \in DOMAIN vars : vars[i].num \in 0 .. Len(vars) - 1
    BY <1>1 DEF IsProgram, ToSet
  <1>6. IsSeq(WriteVars(vars)) /\ Len(WriteVars(vars)) \in Nat
    BY <1>4, VarsWritten
  <1>7. \A f, b : Placed(f, b, WriteVars(vars)) =>
           Table(f, b + 1, ReadVars(f)) = Cursor(b + Len(WriteVars(vars)) + 1, outs)
    BY <1>2, <1>4, VarsRead
  <1>8. SameVars(Numbered(outs), vars)
    BY <1>2, <1>4, <1>5, NumberedVars
  <1> QED
    BY <1>1, <1>3, <1>6, <1>7, <1>8

LEMMA ExternsBack ==
  ASSUME NEW p, IsProgram(p)
  PROVE  /\ IsSeq(WriteExterns(p.externs)) /\ Len(WriteExterns(p.externs)) \in Nat
         /\ [i \in DOMAIN ExternsOut(p) |-> ExternsOut(p)[i][1]] = Sorted(DOMAIN p.externs)
         /\ \A f, b : Placed(f, b, WriteExterns(p.externs)) =>
              Table(f, b + 1, ReadStrs(f))
                = Cursor(b + Len(WriteExterns(p.externs)) + 1, ExternsOut(p))
  <1>1. PICK S : S = DOMAIN p.externs
    OBVIOUS
  <1>2. PICK names : names = Sorted(S)
    OBVIOUS
  <1>3. PICK outs : outs = [i \in DOMAIN names |-> <<names[i]>>]
    OBVIOUS
  <1>4. outs = ExternsOut(p)
    BY <1>1, <1>2, <1>3 DEF ExternsOut
  <1>5. S \subseteq ToSet(NameOrder)
    BY <1>1 DEF IsProgram
  <1>6. IsSeq(names)
    BY <1>2, <1>5, SortedNames
  <1>7. {names[i] : i \in DOMAIN names} = S
    BY <1>2, <1>5, SortedNames
  <1>8. \A i \in DOMAIN names : names[i] # CONTROL
    BY <1>5, <1>7, NamesAssumption
  <1>9. WriteExterns(p.externs) = WriteStrings(outs)
    BY <1>1, <1>2, <1>3 DEF WriteExterns
  <1>10. PICK C : CONTROL \in C /\ outs \in Seq(Seq(C))
    BY <1>3, <1>6, OneChars
  <1>11. IsSeq(WriteStrings(outs)) /\ Len(WriteStrings(outs)) \in Nat
    BY <1>10, StringsWritten
  <1>12. \A f, b : Placed(f, b, WriteStrings(outs)) =>
           Table(f, b + 1, ReadStrs(f)) = Cursor(b + Len(WriteStrings(outs)) + 1, outs)
    BY <1>3, <1>6, <1>8, ExternsRead, Zenon
  <1>13. [i \in DOMAIN outs |-> outs[i][1]] = names
    BY <1>3, <1>6, Unwrapped
  <1> QED
    BY <1>1, <1>2, <1>4, <1>9, <1>11, <1>12, <1>13

LEMMA LinesBack ==
  ASSUME NEW p, IsProgram(p)
  PROVE  /\ IsSeq(WriteLines(p.lines)) /\ Len(WriteLines(p.lines)) \in Nat
         /\ [i \in DOMAIN LinesOut(p) |-> LinesOut(p)[i][1]] = p.lines
         /\ \A f, b : Placed(f, b, WriteLines(p.lines)) =>
              Table(f, b + 1, ReadLines(f)) = Cursor(b + Len(WriteLines(p.lines)) + 1, LinesOut(p))
  <1>1. PICK lines : lines = p.lines
    OBVIOUS
  <1>2. PICK outs : outs = [i \in DOMAIN lines |-> <<lines[i]>>]
    OBVIOUS
  <1>3. outs = LinesOut(p)
    BY <1>1, <1>2 DEF LinesOut
  <1>4. IsSeq(lines)
    BY <1>1, OfRange DEF IsProgram
  <1>5. IsSeq(WriteLines(lines)) /\ Len(WriteLines(lines)) \in Nat
    BY <1>4, LinesWritten
  <1>6. \A f, b : Placed(f, b, WriteLines(lines)) =>
           Table(f, b + 1, ReadLines(f)) = Cursor(b + Len(WriteLines(lines)) + 1, outs)
    BY <1>2, <1>4, LinesRead, Zenon
  <1>7. [i \in DOMAIN outs |-> outs[i][1]] = lines
    BY <1>2, <1>4, Unwrapped
  <1> QED
    BY <1>1, <1>3, <1>5, <1>6, <1>7

LEMMA StringsBack ==
  ASSUME NEW p, IsProgram(p)
  PROVE  /\ IsSeq(WriteStrings(p.strings)) /\ Len(WriteStrings(p.strings)) \in Nat
         /\ \A f, b : Placed(f, b, WriteStrings(p.strings)) =>
              \/ Table(f, b + 1, ReadStrs(f)) = Cursor(b + Len(WriteStrings(p.strings)) + 1, p.strings)
              \/ /\ CountAt(f, Table(f, b + 1, ReadStrs(f)).at) = -1
                 /\ KeptBefore(p.strings, Len(p.strings), Table(f, b + 1, ReadStrs(f)).out)
  <1>1. PICK strs : strs = p.strings
    OBVIOUS
  <1>2. IsSeq(strs)
    BY <1>1, OfRange DEF IsProgram
  <1>3. \A i \in DOMAIN strs : strs[i] \in Seq(ToSet(strs[i]))
    <2>1. \A s \in ToSet(strs) : s \in Seq(ToSet(s))
      BY <1>1 DEF IsProgram
    <2>2. \A i \in DOMAIN strs : strs[i] \in ToSet(strs)
      BY DEF ToSet
    <2> QED
      BY <2>1, <2>2
  <1>4. \A i \in DOMAIN strs : IsSeq(strs[i])
    BY <1>3, OfRange
  <1>5. PICK C : CONTROL \in C /\ strs \in Seq(Seq(C))
    BY <1>2, <1>4, AnyChars
  <1>6. IsSeq(WriteStrings(strs)) /\ Len(WriteStrings(strs)) \in Nat
    BY <1>5, StringsWritten
  <1>7. ASSUME NEW f, NEW b, Placed(f, b, WriteStrings(strs))
        PROVE  \/ Table(f, b + 1, ReadStrs(f)) = Cursor(b + Len(WriteStrings(strs)) + 1, strs)
               \/ /\ CountAt(f, Table(f, b + 1, ReadStrs(f)).at) = -1
                  /\ KeptBefore(strs, Len(strs), Table(f, b + 1, ReadStrs(f)).out)
    BY <1>5, <1>7, StringsRead, Zenon
  <1> QED
    BY <1>1, <1>6, <1>7

\* What was saved is what is loaded (Builder.h, Save; ScriptLoader.h): the DLLs, the
\* variables, the names of the functions of the embedding program in their order and
\* the strings before the first one with the control character; and if there is none,
\* all strings and lines.
THEOREM RoundTrip ==
  ASSUME NEW p, IsProgram(p)
  PROVE  /\ SameProgram(Load(Save(p)), p)
         /\ AllClean(p.strings) => Load(Save(p)).ok
         /\ Load(Save(p)).lines \in {p.lines, <<>>}
  <1> DEFINE a == WriteDlls(p.dlls)
             b == WriteVars(p.vars)
             c == WriteExterns(p.externs)
             d == WriteStrings(p.strings)
             e == WriteLines(p.lines)
  <1>s. IsSeq(p.strings)
    BY OfRange DEF IsProgram
  <1>1. PICK f : f = Save(p)
    OBVIOUS
  <1>2. PICK h : h = <<Header>> /\ IsSeq(h) /\ Len(h) = 1
    BY Word
  <1>3. f = h \o a \o b \o c \o d \o e
    BY <1>1, <1>2 DEF Save
  <1>a. IsSeq(a) /\ \A g, n : Placed(g, n, a) =>
                       Table(g, n + 1, ReadDlls(g)) = Cursor(n + Len(a) + 1, DllsOut(p))
    BY DllsBack
  <1>b. IsSeq(b) /\ \A g, n : Placed(g, n, b) =>
                       Table(g, n + 1, ReadVars(g)) = Cursor(n + Len(b) + 1, VarsOut(p))
    BY VarsBack
  <1>c. IsSeq(c) /\ \A g, n : Placed(g, n, c) =>
                       Table(g, n + 1, ReadStrs(g)) = Cursor(n + Len(c) + 1, ExternsOut(p))
    BY ExternsBack
  <1>d. IsSeq(d) /\ \A g, n : Placed(g, n, d) =>
                       \/ Table(g, n + 1, ReadStrs(g)) = Cursor(n + Len(d) + 1, p.strings)
                       \/ /\ CountAt(g, Table(g, n + 1, ReadStrs(g)).at) = -1
                          /\ KeptBefore(p.strings, Len(p.strings), Table(g, n + 1, ReadStrs(g)).out)
    BY StringsBack
  <1>e. IsSeq(e) /\ \A g, n : Placed(g, n, e) =>
                       Table(g, n + 1, ReadLines(g)) = Cursor(n + Len(e) + 1, LinesOut(p))
    BY LinesBack
  <1> HIDE DEF a, b, c, d, e
  <1>4. PICK i \in Nat, j \in Nat, k \in Nat, l \in Nat :
           /\ i = 1 + Len(a) /\ j = i + Len(b) /\ k = j + Len(c) /\ l = k + Len(d)
           /\ Placed(f, 1, a) /\ Placed(f, i, b) /\ Placed(f, j, c) /\ Placed(f, k, d)
           /\ Placed(f, l, e)
    <2>1. IsSeq(a) /\ IsSeq(b) /\ IsSeq(c) /\ IsSeq(d) /\ IsSeq(e)
      BY <1>a, <1>b, <1>c, <1>d, <1>e
    <2> QED
      <3>1. Filed(h \o a \o b \o c \o d \o e, a, b, c, d, e)
        BY <1>2, <2>1, FileWords
      <3>2. Filed(f, a, b, c, d, e)
        BY <1>3, <3>1
      <3> QED
        BY <3>2 DEF Filed
  <1>6. AfterDlls(f).at = i + 1 /\ AfterDlls(f).out = DllsOut(p) /\ AfterDlls(f).ok = TRUE
    <2>1. Table(f, 1 + 1, ReadDlls(f)) = Cursor(1 + Len(a) + 1, DllsOut(p))
      BY <1>a, <1>4
    <2>2. 1 + 1 = 2
      OBVIOUS
    <2>3. AfterDlls(f) = Cursor(i + 1, DllsOut(p))
      BY <1>4, <2>1, <2>2 DEF AfterDlls
    <2> QED
      BY <2>3 DEF Cursor
  <1>7. AfterVars(f).at = j + 1 /\ AfterVars(f).out = VarsOut(p) /\ AfterVars(f).ok = TRUE
    <2>1. Table(f, i + 1, ReadVars(f)) = Cursor(i + Len(b) + 1, VarsOut(p))
      BY <1>b, <1>4
    <2>2. AfterVars(f) = Cursor(j + 1, VarsOut(p))
      BY <1>4, <1>6, <2>1 DEF AfterVars
    <2> QED
      BY <2>2 DEF Cursor
  <1>8. AfterExterns(f).at = k + 1 /\ AfterExterns(f).out = ExternsOut(p) /\ AfterExterns(f).ok = TRUE
    <2>1. Table(f, j + 1, ReadStrs(f)) = Cursor(j + Len(c) + 1, ExternsOut(p))
      BY <1>c, <1>4
    <2>2. AfterExterns(f) = Cursor(k + 1, ExternsOut(p))
      BY <1>4, <1>7, <2>1 DEF AfterExterns
    <2> QED
      BY <2>2 DEF Cursor
  <1>9. /\ AllClean(p.strings) => AfterStrings(f) = Cursor(l + 1, p.strings)
        /\ \/ AfterStrings(f) = Cursor(l + 1, p.strings)
           \/ /\ CountAt(f, AfterStrings(f).at) = -1
              /\ KeptBefore(p.strings, Len(p.strings), AfterStrings(f).out)
    <2>1. AfterStrings(f) = Table(f, k + 1, ReadStrs(f))
      BY <1>8 DEF AfterStrings
    <2>2. \/ AfterStrings(f) = Cursor(k + Len(d) + 1, p.strings)
          \/ /\ CountAt(f, AfterStrings(f).at) = -1
             /\ KeptBefore(p.strings, Len(p.strings), AfterStrings(f).out)
      BY <1>d, <1>4, <2>1
    <2>3. KeptBefore(p.strings, Len(p.strings), AfterStrings(f).out) => ~AllClean(p.strings)
      BY <1>s DEF KeptBefore, AllClean, ToSet, IsSeq
    <2>4. k + Len(d) = l
      BY <1>4
    <2> QED
      BY <2>2, <2>3, <2>4
  <1>10. ASSUME AfterStrings(f) = Cursor(l + 1, p.strings)
         PROVE  AfterLines(f).out = LinesOut(p) /\ AfterLines(f).ok = TRUE /\ AfterStrings(f).ok = TRUE
    <2>1. Table(f, l + 1, ReadLines(f)) = Cursor(l + Len(e) + 1, LinesOut(p))
      BY <1>e, <1>4
    <2>2. AfterStrings(f).at = l + 1 /\ AfterStrings(f).ok = TRUE
      BY <1>10 DEF Cursor
    <2>3. AfterLines(f) = Cursor(l + Len(e) + 1, LinesOut(p))
      BY <2>1, <2>2 DEF AfterLines
    <2> QED
      BY <2>2, <2>3 DEF Cursor
  <1>l. Load(f).lines = [n \in DOMAIN AfterLines(f).out |-> AfterLines(f).out[n][1]]
    BY LoadUnfolds
  <1>11. AllClean(p.strings) => Load(f).lines = p.lines /\ Load(f).ok
    <2>1. [n \in DOMAIN LinesOut(p) |-> LinesOut(p)[n][1]] = p.lines
      BY LinesBack
    <2>2. AllClean(p.strings) => AfterLines(f).out = LinesOut(p) /\ AfterLines(f).ok = TRUE /\ AfterStrings(f).ok = TRUE
      BY <1>9, <1>10
    <2>3. AllClean(p.strings) => Load(f).ok
      BY <1>6, <1>7, <1>8, <2>2, LoadUnfolds
    <2> QED
      BY <1>l, <2>1, <2>2, <2>3
  <1>n. Load(f).lines \in {p.lines, <<>>}
    <2>1. CASE AfterStrings(f) = Cursor(l + 1, p.strings)
      <3>1. [n \in DOMAIN LinesOut(p) |-> LinesOut(p)[n][1]] = p.lines
        BY LinesBack
      <3> QED
        BY <1>10, <1>l, <2>1, <3>1
    <2>2. CASE CountAt(f, AfterStrings(f).at) = -1
      <3>1. AfterLines(f).out = <<>>
        BY <2>2, TableMissing DEF AfterLines
      <3>2. DOMAIN AfterLines(f).out = {}
        BY <3>1
      <3> QED
        BY <1>l, <3>2
    <2> QED
      BY <1>9, <2>1, <2>2
  <1>12. Load(f).userFuncs = Sorted(DOMAIN p.externs)
    <2>1. Load(f).userFuncs = [n \in DOMAIN AfterExterns(f).out |-> AfterExterns(f).out[n][1]]
      BY LoadUnfolds
    <2>2. [n \in DOMAIN ExternsOut(p) |-> ExternsOut(p)[n][1]] = Sorted(DOMAIN p.externs)
      BY ExternsBack
    <2> QED
      BY <1>8, <2>1, <2>2
  <1>13. SameVars(Load(f).vars, p.vars)
    <2>1. Load(f).vars = Numbered(VarsOut(p))
      BY <1>7, LoadUnfolds
    <2> QED
      BY <2>1, VarsBack
  <1>14. {x[1][1] : x \in ToSet(Load(f).dlls)} = DOMAIN p.dlls
    <2>1. Load(f).dlls = DllsOut(p)
      BY <1>6, LoadUnfolds
    <2>2. {x[1][1] : x \in ToSet(DllsOut(p))} = DOMAIN p.dlls
      BY DllsBack
    <2> QED
      BY <2>1, <2>2
  <1>15. ASSUME NEW m \in DOMAIN p.strings, \A q \in 1 .. m : Clean(p.strings[q])
         PROVE  Load(f).strings[m] = p.strings[m]
    <2>0. Load(f).strings = AfterStrings(f).out
      BY LoadUnfolds
    <2>1. CASE AfterStrings(f) = Cursor(l + 1, p.strings)
      <3>1. AfterStrings(f).out = p.strings
        BY <2>1 DEF Cursor
      <3> QED
        BY <2>0, <3>1
    <2>2. CASE KeptBefore(p.strings, Len(p.strings), AfterStrings(f).out)
      <3>1. PICK z \in 1 .. Len(p.strings) :
               ~Clean(p.strings[z]) /\ \A q \in 1 .. z - 1 : AfterStrings(f).out[q] = p.strings[q]
        BY <2>2 DEF KeptBefore
      <3>2. m \in Nat /\ m >= 1 /\ Len(p.strings) \in Nat /\ ~(z \in 1 .. m)
        BY <1>15, <1>s, <3>1 DEF IsSeq
      <3>3. m \in 1 .. z - 1
        BY <3>2
      <3> QED
        BY <2>0, <3>1, <3>3
    <2> QED
      BY <1>9, <2>1, <2>2
  <1>16. AllClean(p.strings) => Load(f).strings = p.strings
    <2>1. AfterStrings(f) = Cursor(l + 1, p.strings) => AfterStrings(f).out = p.strings
      BY DEF Cursor
    <2>2. Load(f).strings = AfterStrings(f).out
      BY LoadUnfolds
    <2> QED
      BY <1>9, <2>1, <2>2
  <1> QED
    BY <1>1, <1>11, <1>12, <1>13, <1>14, <1>15, <1>16, <1>n DEF SameProgram
=============================================================================
