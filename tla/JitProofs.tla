----------------------------- MODULE JitProofs -----------------------------
(***************************************************************************)
(* The translator: every jump of a compiled script goes where it was meant to, *)
(* for every script and every order of scripts given to a processor.  What is   *)
(* proved on the way of the code, for any script: its units lie one after the   *)
(* other, a request is kept for each jump and no other, and PatchJmp writes a   *)
(* jump's own bytes only.                                                     *)
(*                                                                         *)
(* The processor: at every unit of a line run_line_, callStack_, the flags and  *)
(* the native stack are as the units before it leave them (Standing), whichever *)
(* way control came.  From that, handlers are called on their line, with the    *)
(* stack aligned, and the two call stacks agree.                               *)
(***************************************************************************)
EXTENDS Jit, SequenceFacts

-----------------------------------------------------------------------------
\* Units: every unit has bytes, a jump has the four of its target among them,
\* and a jump within a line stays within it.
Jumps(u) == u.to # <<>>
ToUnit(u) == Jumps(u) /\ u.to[1] = "unit"
ToLine(u) == Jumps(u) /\ u.to[1] = "line"

IsUnit(u) ==
  /\ u.op # "garbage"
  /\ u.length \in Nat /\ u.length >= 1
  /\ Jumps(u) => u.length >= 5 /\ (ToUnit(u) \/ ToLine(u))
  /\ ToUnit(u) => u.to[2] \in Nat /\ u.to[2] >= 1
  /\ ToLine(u) => u.to[2] \in Nat

GoodUnits(us, beyond) ==
  /\ IsSeq(us)
  /\ \A k \in 1 .. Len(us) : IsUnit(us[k]) /\ (ToUnit(us[k]) => k + us[k].to[2] <= Len(us) + beyond)

\* Every instruction of the encoder has at least two bytes, a jump or call at least five.
LEMMA Lengths ==
  /\ \A s : Plain(s) \in Nat /\ Plain(s) >= 2
  /\ \A s \in Nat : WithImm(s) \in Nat /\ WithImm(s) >= 2
  /\ \A s \in Nat : MovImm(s) \in Nat /\ MovImm(s) >= 2
  /\ MovImm64 \in Nat /\ MovImm64 >= 2 /\ PushImm64 \in Nat /\ PushImm64 >= 2
  /\ CallMember \in Nat /\ CallMember >= 2
  /\ IncLine \in Nat /\ IncLine >= 2 /\ IncLineSaved \in Nat /\ IncLineSaved >= 2
  BY DEF Plain, WithImm, MovImm, Prefix, MovImm64, PushImm64, CallMember, IncLine,
         IncLineSaved, ParameterPushLength, Shld

\* A unit without a target is a unit, and no jump.
LEMMA PlainUnit ==
  ASSUME NEW op, op # "garbage", NEW n \in Nat, n >= 1, NEW arg
  PROVE  /\ IsUnit(Unit(op, n)) /\ ~Jumps(Unit(op, n)) /\ ~ToUnit(Unit(op, n))
         /\ IsUnit(Given(op, n, arg)) /\ ~Jumps(Given(op, n, arg)) /\ ~ToUnit(Given(op, n, arg))
         /\ Unit(op, n).op = op /\ Given(op, n, arg).op = op
  BY DEF Unit, Given, IsUnit, Jumps, ToUnit, ToLine

\* A jump to a line is a unit.
LEMMA LineJump ==
  ASSUME NEW op, op # "garbage", NEW n \in Nat, n >= 5, NEW l \in Nat
  PROVE  /\ IsUnit(JumpTo(op, n, <<"line", l>>)) /\ ~ToUnit(JumpTo(op, n, <<"line", l>>))
         /\ JumpTo(op, n, <<"line", l>>).op = op
  BY DEF Unit, JumpTo, IsUnit, Jumps, ToUnit, ToLine

\* A jump within a line is a unit, with the distance it was given.
LEMMA UnitJump ==
  ASSUME NEW op, op # "garbage", NEW n \in Nat, n >= 5, NEW d \in Nat, d >= 1
  PROVE  /\ IsUnit(JumpTo(op, n, <<"unit", d>>)) /\ ToUnit(JumpTo(op, n, <<"unit", d>>))
         /\ JumpTo(op, n, <<"unit", d>>).to[2] = d
         /\ JumpTo(op, n, <<"unit", d>>).op = op
  BY DEF Unit, JumpTo, IsUnit, Jumps, ToUnit, ToLine

\* What joining two sequences makes, when nothing is known of their elements.
LEMMA JoinIsSeq ==
  ASSUME NEW a, IsSeq(a), NEW b, IsSeq(b)
  PROVE  /\ IsSeq(a \o b)
         /\ Len(a) \in Nat /\ Len(b) \in Nat /\ Len(a \o b) = Len(a) + Len(b)
         /\ \A k \in 1 .. Len(a) : (a \o b)[k] = a[k]
         /\ \A k \in 1 .. Len(b) : (a \o b)[Len(a) + k] = b[k]
  <1> DEFINE Held == {a[i] : i \in DOMAIN a} \cup {b[i] : i \in DOMAIN b}
  <1>1. a \in Seq(Held) /\ b \in Seq(Held)
    BY DEF IsSeq
  <1> HIDE DEF Held
  <1>2. a \o b \in Seq(Held)
    BY <1>1
  <1>3. IsSeq(a \o b)
    BY <1>2, OfRange
  <1> QED
    BY <1>1, <1>3

\* Units followed by units are units, if the jumps of the first stay within both.
LEMMA GoodJoin ==
  ASSUME NEW a, NEW b, NEW e \in Nat, NEW f \in Nat, GoodUnits(a, e), GoodUnits(b, f), e <= Len(b) + f
  PROVE  GoodUnits(a \o b, f)
  <1>1. IsSeq(a) /\ IsSeq(b)
    BY DEF GoodUnits
  <1>2. /\ IsSeq(a \o b) /\ Len(a) \in Nat /\ Len(b) \in Nat
        /\ Len(a \o b) = Len(a) + Len(b)
        /\ \A k \in 1 .. Len(a) : (a \o b)[k] = a[k]
        /\ \A k \in 1 .. Len(b) : (a \o b)[Len(a) + k] = b[k]
    BY <1>1, JoinIsSeq
  <1>3. ASSUME NEW k \in 1 .. Len(a \o b)
        PROVE  IsUnit((a \o b)[k]) /\ (ToUnit((a \o b)[k]) => k + (a \o b)[k].to[2] <= Len(a \o b) + f)
    <2>1. CASE k <= Len(a)
      <3>1. (a \o b)[k] = a[k] /\ k \in 1 .. Len(a)
        BY <1>2, <2>1
      <3>2. IsUnit(a[k]) /\ (ToUnit(a[k]) => k + a[k].to[2] <= Len(a) + e)
        BY <3>1 DEF GoodUnits
      <3>3. ToUnit(a[k]) => a[k].to[2] \in Nat
        BY <3>2 DEF IsUnit
      <3>4. ToUnit(a[k]) => k + a[k].to[2] <= Len(a \o b) + f
        BY <1>2, <3>2, <3>3, SMTT(30)
      <3> QED
        BY <3>1, <3>2, <3>4
    <2>2. CASE k > Len(a)
      <3>1. PICK j : j = k - Len(a)
        OBVIOUS
      <3>0. j \in 1 .. Len(b) /\ k = Len(a) + j
        BY <1>2, <2>2, <3>1
      <3>2. (a \o b)[k] = b[j] /\ j \in 1 .. Len(b) /\ k = Len(a) + j
        BY <1>2, <3>0
      <3>3. IsUnit(b[j]) /\ (ToUnit(b[j]) => j + b[j].to[2] <= Len(b) + f)
        BY <3>2 DEF GoodUnits
      <3>4. ToUnit(b[j]) => b[j].to[2] \in Nat
        BY <3>3 DEF IsUnit
      <3>5. ToUnit(b[j]) => k + b[j].to[2] <= Len(a \o b) + f
        BY <1>2, <3>2, <3>3, <3>4, SMTT(30)
      <3> QED
        BY <3>2, <3>3, <3>5
    <2> QED
      BY <1>2, <2>1, <2>2
  <1> QED
    BY <1>2, <1>3 DEF GoodUnits

\* One unit.
LEMMA Good1 ==
  ASSUME NEW u, IsUnit(u), NEW e \in Nat, ToUnit(u) => 1 + u.to[2] <= 1 + e
  PROVE  GoodUnits(<<u>>, e)
  <1>1. IsSeq(<<u>>) /\ Len(<<u>>) = 1 /\ <<u>>[1] = u
    BY <<u>> \in Seq({u}), OfRange
  <1> QED
    BY <1>1 DEF GoodUnits

\* Two units that do not jump within the line.
LEMMA Good2 ==
  ASSUME NEW u, NEW v, IsUnit(u), IsUnit(v), ~ToUnit(u), ~ToUnit(v)
  PROVE  GoodUnits(<<u, v>>, 0)
  <1>1. IsSeq(<<u, v>>) /\ Len(<<u, v>>) = 2 /\ <<u, v>>[1] = u /\ <<u, v>>[2] = v
    BY <<u, v>> \in Seq({u, v}), OfRange
  <1> QED
    BY <1>1 DEF GoodUnits

\* The three flags of a comparison: its jumps reach one unit beyond, which counts
\* the line.
LEMMA GoodFlags == GoodUnits(FlagUnits, 1) /\ Len(FlagUnits) = 7
  <1> DEFINE Flag(f) == Given("flag", MovImm64 + WithImm(1), f)
             j1 == JumpTo("jg", JccLength, <<"unit", 4>>)
             j2 == JumpTo("jl", JccLength, <<"unit", 5>>)
             j4 == JumpTo("jmp", JumpLength, <<"unit", 4>>)
             j6 == JumpTo("jmp", JumpLength, <<"unit", 2>>)
             f3 == Flag(0)
             f5 == Flag(1)
             f7 == Flag(-1)
  <1>1. FlagUnits = <<j1, j2, f3, j4, f5, j6, f7>>
    BY DEF FlagUnits
  <1>2. MovImm64 + WithImm(1) \in Nat /\ MovImm64 + WithImm(1) >= 1
    BY Lengths
  <1>3. IsUnit(f3) /\ ~ToUnit(f3) /\ IsUnit(f5) /\ ~ToUnit(f5) /\ IsUnit(f7) /\ ~ToUnit(f7)
    BY <1>2, PlainUnit
  <1>4. /\ IsUnit(j1) /\ j1.to[2] = 4 /\ IsUnit(j2) /\ j2.to[2] = 5
        /\ IsUnit(j4) /\ j4.to[2] = 4 /\ IsUnit(j6) /\ j6.to[2] = 2
    BY UnitJump DEF JccLength, JumpLength
  <1> HIDE DEF j1, j2, f3, j4, f5, j6, f7
  <1> DEFINE us == <<j1, j2, f3, j4, f5, j6, f7>>
  <1>5. us \in Seq({j1, j2, f3, j4, f5, j6, f7}) /\ Len(us) = 7
    OBVIOUS
  <1>6. IsSeq(us)
    BY <1>5, OfRange
  <1>7. ASSUME NEW k \in 1 .. 7
        PROVE  IsUnit(us[k]) /\ (ToUnit(us[k]) => k + us[k].to[2] <= 7 + 1)
    BY <1>3, <1>4
  <1> QED
    BY <1>1, <1>5, <1>6, <1>7 DEF GoodUnits

IsLine(p, l) ==
  /\ l.cmd \in Targeted => l.to \in Nat
  /\ SizeIn(p, l.dst) \in Nat /\ SizeIn(p, l.src) \in Nat

\* The units FillJitCompiler and the handlers share.
LEMMA UnitsHere ==
  /\ IsUnit(Handler) /\ ~ToUnit(Handler)
  /\ IsUnit(GetPtr) /\ ~ToUnit(GetPtr)
  /\ IsUnit(Save) /\ ~ToUnit(Save)
  /\ GoodUnits(CountLine, 0) /\ Len(CountLine) = 1
  /\ \A i : IsUnit(SetLine(i)) /\ ~ToUnit(SetLine(i))
  <1>1. /\ CallMember \in Nat /\ CallMember >= 1
        /\ Plain(8) + PushImm64 \in Nat /\ Plain(8) + PushImm64 >= 1
        /\ 2 * (Plain(8) + MovImm64) \in Nat /\ 2 * (Plain(8) + MovImm64) >= 1
        /\ IncLineSaved \in Nat /\ IncLineSaved >= 1
    BY Lengths
  <1>2. GoodUnits(CountLine, 0)
    BY <1>1, PlainUnit, Good1 DEF CountLine
  <1>3. Len(CountLine) = 1
    BY DEF CountLine
  <1>4. \A i : IsUnit(SetLine(i)) /\ ~ToUnit(SetLine(i))
    BY <1>1, PlainUnit DEF SetLine
  <1> QED
    BY <1>1, <1>2, <1>3, <1>4, PlainUnit DEF Handler, GetPtr, Save

\* Short sequences written out.
LEMMA Tuples ==
  ASSUME NEW a, NEW b, NEW c, NEW d
  PROVE  /\ <<a, b>> \o <<c>> = <<a, b, c>> /\ <<a, b>> \o <<c, d>> = <<a, b, c, d>>
         /\ Len(<<c, d>>) = 2
  <1> DEFINE Held == {a, b, c, d}
             x == <<a, b>>
             y == <<c>>
             z == <<c, d>>
             t == <<a, b, c>>
             u == <<a, b, c, d>>
  <1>1. /\ x \in Seq(Held) /\ Len(x) = 2 /\ x[1] = a /\ x[2] = b
        /\ y \in Seq(Held) /\ Len(y) = 1 /\ y[1] = c
        /\ z \in Seq(Held) /\ Len(z) = 2 /\ z[1] = c /\ z[2] = d
    OBVIOUS
  <1>2. /\ t \in Seq(Held) /\ Len(t) = 3 /\ t[1] = a /\ t[2] = b /\ t[3] = c
        /\ u \in Seq(Held) /\ Len(u) = 4 /\ u[1] = a /\ u[2] = b /\ u[3] = c /\ u[4] = d
    OBVIOUS
  <1> HIDE DEF Held, x, y, z, t, u
  <1>3. x \o y \in Seq(Held) /\ Len(x \o y) = 3 /\ x \o z \in Seq(Held) /\ Len(x \o z) = 4
    <2>0. x \in Seq(Held) /\ y \in Seq(Held) /\ z \in Seq(Held)
      BY <1>1
    <2>1. x \o y \in Seq(Held) /\ x \o z \in Seq(Held)
      BY <2>0
    <2>2. Len(x \o y) = Len(x) + Len(y) /\ Len(x \o z) = Len(x) + Len(z)
      BY <2>0, OfRange, JoinIsSeq
    <2> QED
      BY <1>1, <2>1, <2>2
  <1>4. \A i \in 1 .. 3 : (x \o y)[i] = t[i]
    BY <1>1, <1>2, <1>3
  <1>5. \A i \in 1 .. 4 : (x \o z)[i] = u[i]
    BY <1>1, <1>2, <1>3
  <1>6. x \o y = t
    BY <1>2, <1>3, <1>4, OfRange, SameSeq
  <1>7. x \o z = u
    BY <1>2, <1>3, <1>5, OfRange, SameSeq
  <1> QED
    BY <1>1, <1>6, <1>7 DEF x, y, z, t, u

\* No units at all.
LEMMA EmptyGood == GoodUnits(<<>>, 0)
  <1>1. IsSeq(<<>>) /\ Len(<<>>) = 0
    BY <<>> \in Seq({}), OfRange
  <1> QED
    BY <1>1 DEF GoodUnits

\* Fetching one address, and fetching two.
LEMMA GoodPair ==
  ASSUME NEW op, op # "garbage", NEW n \in Nat, n >= 1
  PROVE  /\ GoodUnits(<<GetPtr, Unit(op, n)>>, 0)
         /\ GoodUnits(<<GetPtr, Save, GetPtr, Unit(op, n)>>, 0)
  <1> DEFINE v == Unit(op, n)
  <1>1. IsUnit(v) /\ ~ToUnit(v)
    BY PlainUnit
  <1> HIDE DEF v
  <1>2. GoodUnits(<<GetPtr, v>>, 0) /\ GoodUnits(<<GetPtr, Save>>, 0)
    BY <1>1, UnitsHere, Good2
  <1>3. <<GetPtr, Save, GetPtr, v>> = <<GetPtr, Save>> \o <<GetPtr, v>>
    OBVIOUS
  <1>4. Len(<<GetPtr, v>>) = 2
    OBVIOUS
  <1>5. GoodUnits(<<GetPtr, Save>> \o <<GetPtr, v>>, 0)
    BY <1>2, <1>4, GoodJoin
  <1>6. GoodUnits(<<GetPtr, Save, GetPtr, v>>, 0)
    BY <1>3, <1>5
  <1> QED
    BY <1>2, <1>6 DEF v

\* The units of mov, add and sub.
LEMMA GoodAssign ==
  ASSUME NEW p, NEW l, IsLine(p, l)
  PROVE  GoodUnits(Assign(p, l), 0)
  <1> DEFINE s1 == SizeIn(p, l.dst)
             s2 == SizeIn(p, l.src)
             m == IF l.cmd = "Mov" THEN MovImm(s1)
                  ELSE IF s1 = 8 THEN MovImm64 + Plain(8) ELSE WithImm(s1)
             n == 2 * Plain(8) + (IF l.cmd = "Mov"
                           THEN (IF s1 >= s2 THEN MovImm(s1) ELSE 0) + Plain(8)
                           ELSE Plain(MinOf(s1, s2)))
                        + Plain(MinOf(s1, s2))
  <1>1. s1 \in Nat /\ s2 \in Nat
    BY DEF IsLine
  <1>2. Assign(p, l) = IF ~IsVar(l.src) THEN <<GetPtr, Unit("assign", m)>>
                       ELSE <<GetPtr, Save, GetPtr, Unit("assign", n)>>
    BY DEF Assign
  <1> HIDE DEF s1, s2
  <1>3. m \in Nat /\ m >= 1
    BY <1>1, Lengths
  <1>4. Plain(8) \in Nat /\ Plain(MinOf(s1, s2)) \in Nat /\ Plain(8) >= 2 /\ MovImm(s1) \in Nat
    BY <1>1, Lengths
  <1>5. n \in Nat /\ n >= 1
    BY <1>4
  <1> HIDE DEF m, n
  <1> QED
    BY <1>2, <1>3, <1>5, GoodPair

\* The units of cmpr.
LEMMA GoodCompare ==
  ASSUME NEW p, NEW l, IsLine(p, l)
  PROVE  GoodUnits(Compare(p, l) \o CountLine, 0)
  <1> DEFINE Widened(s) == IF s = 8 THEN Plain(8) ELSE 3 * Plain(s) + MovImm64
             Length(s) == MovImm64 + Plain(s) + WithImm(8)
             n == 2 * Plain(8) + Widened(SizeIn(p, l.dst)) + Widened(SizeIn(p, l.src)) + Plain(8)
             Against(s) == <<GetPtr, Unit("compare", Length(s))>>
             first == CASE IsVar(l.dst) /\ ~IsVar(l.src) -> Against(SizeIn(p, l.dst))
                        [] IsVar(l.src) /\ ~IsVar(l.dst) -> Against(SizeIn(p, l.src))
                        [] OTHER -> <<GetPtr, Save, GetPtr, Unit("compare", n)>>
  <1>1. Compare(p, l) = first \o FlagUnits
    BY DEF Compare
  <1>2. \A s : Length(s) \in Nat /\ Length(s) >= 1
    BY Lengths
  <1>3. \A s : Widened(s) \in Nat
    BY Lengths
  <1>4. n \in Nat /\ n >= 1
    <2> HIDE DEF Widened
    <2> QED
      BY <1>3, Lengths
  <1> HIDE DEF Length, n
  <1>5. GoodUnits(first, 0)
    <2>1. \A s : GoodUnits(Against(s), 0)
      BY <1>2, GoodPair
    <2>2. GoodUnits(<<GetPtr, Save, GetPtr, Unit("compare", n)>>, 0)
      BY <1>4, GoodPair
    <2> HIDE DEF Against
    <2> QED
      BY <2>1, <2>2
  <1> HIDE DEF first
  <1>6. GoodUnits(first \o FlagUnits, 1)
    BY <1>5, GoodFlags, GoodJoin
  <1>7. 1 <= Len(CountLine) + 0
    BY UnitsHere
  <1> QED
    BY <1>1, <1>6, <1>7, UnitsHere, GoodJoin

\* The units of any command.
LEMMA GoodCommand ==
  ASSUME NEW p, NEW l, IsLine(p, l)
  PROVE  GoodUnits(Command(p, l), 0)
  <1>1. CASE l.cmd \in Opaque
    <2>1. Command(p, l) = <<Handler, Unit("incline", IncLine)>>
      BY <1>1, OpaqueAssumption DEF Command, Conditional, Targeted
    <2>2. IncLine \in Nat /\ IncLine >= 1
      BY Lengths
    <2> QED
      BY <2>1, <2>2, PlainUnit, UnitsHere, Good2
  <1>2. CASE ~(l.cmd \in Opaque) /\ l.cmd \in {"Mov", "Add", "Sub"}
    <2>1. Command(p, l) = Assign(p, l) \o CountLine
      BY <1>2, OpaqueAssumption DEF Command, Conditional, Targeted
    <2> QED
      BY <2>1, GoodAssign, UnitsHere, GoodJoin
  <1>3. CASE ~(l.cmd \in Opaque) /\ l.cmd = "Cmpr"
    <2>1. Command(p, l) = Compare(p, l) \o CountLine
      BY <1>3, OpaqueAssumption DEF Command, Conditional, Targeted
    <2> QED
      BY <2>1, GoodCompare
  <1>4. CASE ~(l.cmd \in Opaque) /\ l.cmd = "Jmp"
    <2>1. Command(p, l) = <<Handler, JumpTo("jmp", JumpLength, <<"line", l.to>>)>>
      BY <1>4, OpaqueAssumption DEF Command, Conditional, Targeted
    <2>2. l.to \in Nat
      BY <1>4 DEF IsLine, Targeted
    <2>3. JumpLength \in Nat /\ JumpLength >= 5
      BY DEF JumpLength
    <2> QED
      BY <2>1, <2>2, <2>3, LineJump, UnitsHere, Good2
  <1>5. CASE ~(l.cmd \in Opaque) /\ l.cmd \in DOMAIN Conditional
    <2> DEFINE test == Unit("test", MovImm64 + WithImm(1))
               jump == JumpTo(Conditional[l.cmd], JccLength, <<"line", l.to>>)
    <2>0. DOMAIN Conditional = {"Je", "Jne", "Ja", "Jae", "Jb", "Jbe"}
      BY DEF Conditional
    <2>1. Command(p, l) = <<Handler, test, jump>> \o CountLine
      BY <1>5, <2>0, OpaqueAssumption DEF Command, Conditional, Targeted
    <2>2. l.to \in Nat
      BY <1>5, <2>0 DEF IsLine, Targeted
    <2>3. JccLength \in Nat /\ JccLength >= 5
      BY DEF JccLength
    <2>4. MovImm64 + WithImm(1) \in Nat /\ MovImm64 + WithImm(1) >= 1
      BY Lengths
    <2>5. IsUnit(jump) /\ ~ToUnit(jump)
      <3>1. Conditional[l.cmd] # "garbage"
        BY <1>5, <2>0 DEF Conditional
      <3> QED
        BY <2>2, <2>3, <3>1, LineJump
    <2>6. IsUnit(test) /\ ~ToUnit(test)
      BY <2>4, PlainUnit
    <2> HIDE DEF test, jump
    <2>7. GoodUnits(<<Handler, test>>, 0) /\ GoodUnits(<<jump>>, 0)
      BY <2>5, <2>6, UnitsHere, Good1, Good2
    <2>8. GoodUnits(<<Handler, test>> \o <<jump>>, 0)
      BY <2>7, GoodJoin
    <2>9. <<Handler, test>> \o <<jump>> = <<Handler, test, jump>>
      BY Tuples
    <2>10. GoodUnits(<<Handler, test, jump>>, 0)
      BY <2>8, <2>9
    <2> QED
      BY <2>1, <2>10, UnitsHere, GoodJoin
  <1>6. CASE ~(l.cmd \in Opaque) /\ l.cmd = "Ret"
    <2>1. Command(p, l) = <<Handler, Unit("retn", RetnLength)>>
      BY <1>6, OpaqueAssumption DEF Command, Conditional, Targeted
    <2>2. RetnLength \in Nat /\ RetnLength >= 1
      BY DEF RetnLength
    <2> QED
      BY <2>1, <2>2, PlainUnit, UnitsHere, Good2
  <1>7. CASE ~(l.cmd \in Opaque) /\ l.cmd = "Call"
    <2> DEFINE bump == Unit("bump", Plain(8) + IncLine)
               jump == JumpTo("call", CallLength, <<"line", l.to + 1>>)
               pop == Unit("pop", Plain(8))
    <2>1. Command(p, l) = <<Handler, bump, jump, pop>>
      BY <1>7, OpaqueAssumption DEF Command, Conditional, Targeted
    <2>2. l.to + 1 \in Nat
      BY <1>7 DEF IsLine, Targeted
    <2>3. CallLength \in Nat /\ CallLength >= 5
      BY DEF CallLength
    <2>4. IsUnit(bump) /\ ~ToUnit(bump) /\ IsUnit(pop) /\ ~ToUnit(pop)
      <3>1. /\ Plain(8) \in Nat /\ Plain(8) >= 1
            /\ Plain(8) + IncLine \in Nat /\ Plain(8) + IncLine >= 1
        BY Lengths
      <3> QED
        BY <3>1, PlainUnit
    <2>5. IsUnit(jump) /\ ~ToUnit(jump)
      BY <2>2, <2>3, LineJump
    <2> HIDE DEF bump, jump, pop
    <2>6. GoodUnits(<<Handler, bump>>, 0) /\ GoodUnits(<<jump, pop>>, 0)
      BY <2>4, <2>5, UnitsHere, Good2
    <2>7. Len(<<jump, pop>>) \in Nat /\ <<Handler, bump>> \o <<jump, pop>> = <<Handler, bump, jump, pop>>
      BY Tuples
    <2>8. GoodUnits(<<Handler, bump>> \o <<jump, pop>>, 0)
      BY <2>6, <2>7, GoodJoin
    <2> QED
      BY <2>1, <2>7, <2>8
  <1>8. CASE ~(l.cmd \in Opaque) /\ ~(l.cmd \in {"Mov", "Add", "Sub", "Cmpr", "Jmp", "Ret", "Call"}
                                                \cup DOMAIN Conditional)
    <2>1. Command(p, l) = CountLine
      BY <1>8, OpaqueAssumption DEF Command, Conditional, Targeted
    <2> QED
      BY <2>1, UnitsHere
  <1> QED
    BY <1>1, <1>2, <1>3, <1>4, <1>5, <1>6, <1>7, <1>8

\* The units of any line of a script.
LEMMA GoodLine ==
  ASSUME NEW p, IsScript(p), NEW i \in 0 .. Len(p.lines) - 1, NEW need
  PROVE  GoodUnits(LineUnits(p, i, need), 0)
  <1> DEFINE l == p.lines[i + 1]
  <1>1. i \in Nat /\ i + 1 \in 1 .. Len(p.lines) /\ p.lines \in Seq(ToSet(p.lines))
    BY DEF IsScript
  <1>2. l \in ToSet(p.lines)
    BY <1>1
  <1>3. IsLine(p, l)
    BY <1>2 DEF IsScript, IsLine
  <1>4. AfterRet(p, i) \in Nat
    <2> DEFINE rets == {j \in i .. Len(p.lines) - 1 : p.lines[j + 1].cmd = "Ret"}
    <2>1. rets \subseteq Nat
      BY <1>1
    <2>2. ASSUME rets # {} PROVE (CHOOSE j \in rets : \A k \in rets : j <= k) \in Nat
      <3>1. \E j \in rets : \A k \in rets : j <= k
        BY <2>1, <2>2, LeastOf
      <3> HIDE DEF rets
      <3>2. (CHOOSE j \in rets : \A k \in rets : j <= k) \in rets
        BY <3>1
      <3> QED
        BY <2>1, <3>2
    <2>3. AfterRet(p, i) = 1 + IF rets = {} THEN Len(p.lines)
                               ELSE CHOOSE j \in rets : \A k \in rets : j <= k
      BY DEF AfterRet
    <2>4. Len(p.lines) \in Nat
      BY <1>1
    <2> HIDE DEF rets
    <2> QED
      BY <2>2, <2>3, <2>4
  <1> HIDE DEF l
  <1>5. CASE l.flag = "Func"
    <2> DEFINE first == IF need THEN <<SetLine(i)>> ELSE <<>>
    <2>1. LineUnits(p, i, need) = first \o Command(p, l)
      BY <1>5 DEF LineUnits, l
    <2>2. GoodUnits(first, 0)
      <3>1. GoodUnits(<<SetLine(i)>>, 0)
        BY UnitsHere, Good1
      <3>2. GoodUnits(<<>>, 0)
        BY EmptyGood
      <3> QED
        BY <3>1, <3>2
    <2> HIDE DEF first
    <2>3. GoodUnits(Command(p, l), 0)
      BY <1>3, GoodCommand
    <2>4. Len(Command(p, l)) \in Nat
      BY <2>3 DEF GoodUnits, IsSeq
    <2> QED
      BY <2>1, <2>2, <2>3, <2>4, GoodJoin
  <1>6. CASE l.flag = "UFunc"
    <2> DEFINE u == Unit("pushargs", 2 * PushImm64)
               v == Unit("foreign", MovImm64 + Plain(4))
    <2>1. LineUnits(p, i, need) = <<u, v>> \o CountLine
      BY <1>6 DEF LineUnits, l
    <2>2. IsUnit(u) /\ ~ToUnit(u) /\ IsUnit(v) /\ ~ToUnit(v)
      <3>1. /\ 2 * PushImm64 \in Nat /\ 2 * PushImm64 >= 1
            /\ MovImm64 + Plain(4) \in Nat /\ MovImm64 + Plain(4) >= 1
        BY DEF PushImm64, MovImm64, Plain, WithImm, Prefix, Shld
      <3> QED
        BY <3>1, PlainUnit
    <2> HIDE DEF u, v
    <2> QED
      BY <2>1, <2>2, Good2, UnitsHere, GoodJoin
  <1>7. CASE l.flag = "CFunc"
    <2> DEFINE v == JumpTo("jmp", JumpLength, <<"line", AfterRet(p, i)>>)
    <2>1. LineUnits(p, i, need) = <<SetLine(AfterRet(p, i)), v>>
      BY <1>7 DEF LineUnits, l
    <2>2. IsUnit(v) /\ ~ToUnit(v)
      BY <1>4, LineJump DEF JumpLength
    <2> HIDE DEF v
    <2> QED
      BY <2>1, <2>2, Good2, UnitsHere
  <1>8. CASE ~(l.flag \in {"Func", "UFunc", "CFunc"})
    <2>1. LineUnits(p, i, need) = <<>>
      BY <1>8 DEF LineUnits, l
    <2> QED
      BY <2>1, EmptyGood
  <1> QED
    BY <1>5, <1>6, <1>7, <1>8

-----------------------------------------------------------------------------
\* Code: units at their places, each beginning where the one before it ends.
IsPlaced(u) ==
  /\ u = [op |-> u.op, arg |-> u.arg, to |-> u.to, line |-> u.line,
          at |-> u.at, length |-> u.length, target |-> u.target]
  /\ u.at \in Nat

Contiguous(c, from, to) ==
  /\ from \in Nat /\ to \in Nat
  /\ \A k \in 1 .. Len(c) : IsPlaced(c[k])
  /\ Len(c) = 0 => from = to
  /\ Len(c) > 0 => c[1].at = from /\ c[Len(c)].at + c[Len(c)].length = to
  /\ \A k \in 1 .. Len(c) - 1 : c[k + 1].at = c[k].at + c[k].length

IsCode(c, from, to) == GoodUnits(c, 0) /\ Contiguous(c, from, to)

IsAt(f, us, start, m) ==
  f = [k \in 1 .. m |-> IF k = 1 THEN start ELSE f[k - 1] + us[k - 1].length]

\* There is a function that gives each unit its place.
LEMMA PlacesExist ==
  ASSUME NEW us, GoodUnits(us, 0), NEW start \in Nat
  PROVE  \E f : IsAt(f, us, start, Len(us)) /\ \A k \in 1 .. Len(us) : f[k] \in Nat
  <1> DEFINE Good(f, m) == IsAt(f, us, start, m) /\ \A k \in 1 .. m : f[k] \in Nat
             T == {m \in Nat : m <= Len(us) => \E f : Good(f, m)}
  <1>0. Len(us) \in Nat
    BY DEF GoodUnits, IsSeq
  <1>1. 0 \in T
    <2>1. Good(<<>>, 0)
      BY DEF IsAt
    <2> QED
      BY <2>1
  <1>2. ASSUME NEW m \in Nat, m \in T PROVE m + 1 \in T
    <2> SUFFICES ASSUME m + 1 <= Len(us) PROVE \E f : Good(f, m + 1)
      OBVIOUS
    <2>1. PICK f : Good(f, m)
      BY <1>0, <1>2
    <2>2. m > 0 => us[m].length \in Nat
      BY <1>0 DEF GoodUnits, IsUnit
    <2> DEFINE v == IF m = 0 THEN start ELSE f[m] + us[m].length
               g == [k \in 1 .. m + 1 |-> IF k = m + 1 THEN v ELSE f[k]]
    <2>3. v \in Nat
      BY <2>1, <2>2
    <2>4. \A k \in 1 .. m : f[k] = IF k = 1 THEN start ELSE f[k - 1] + us[k - 1].length
      <3>1. f = [k \in 1 .. m |-> IF k = 1 THEN start ELSE f[k - 1] + us[k - 1].length]
        BY <2>1 DEF IsAt
      <3> QED
        BY <3>1, Zenon
    <2> HIDE DEF v
    <2>5. ASSUME NEW k \in 1 .. m + 1
          PROVE  g[k] = IF k = 1 THEN start ELSE g[k - 1] + us[k - 1].length
      <3>1. CASE k = m + 1
        <4>1. g[k] = v /\ (k # 1 => g[k - 1] = f[m] /\ k - 1 = m /\ m # 0) /\ (k = 1 => m = 0)
          BY <3>1
        <4> QED
          BY <4>1 DEF v
      <3>2. CASE k # m + 1
        <4>1. g[k] = f[k] /\ k \in 1 .. m /\ (k # 1 => g[k - 1] = f[k - 1])
          BY <3>2
        <4> QED
          BY <4>1, <2>4
      <3> QED
        BY <3>1, <3>2
    <2>6. g = [k \in 1 .. m + 1 |-> IF k = 1 THEN start ELSE g[k - 1] + us[k - 1].length]
      BY <2>5
    <2>7. \A k \in 1 .. m + 1 : g[k] \in Nat
      BY <2>1, <2>3
    <2> HIDE DEF g
    <2> QED
      BY <2>6, <2>7 DEF IsAt
  <1> HIDE DEF T
  <1>3. Len(us) \in T
    BY <1>0, <1>1, <1>2, Induction
  <1> QED
    BY <1>0, <1>3 DEF T

LaidOut(c, us, l, start) ==
  /\ IsSeq(c) /\ Len(c) = Len(us)
  /\ \A k \in 1 .. Len(c) :
       /\ IsPlaced(c[k])
       /\ c[k].op = us[k].op /\ c[k].arg = us[k].arg /\ c[k].to = us[k].to
       /\ c[k].line = l /\ c[k].length = us[k].length /\ c[k].target = -1
  /\ Len(c) > 0 => c[1].at = start
  /\ \A k \in 1 .. Len(c) - 1 : c[k + 1].at = c[k].at + c[k].length

\* Placed lays units out one after the other and leaves them what they are.
LEMMA PlacedUnits ==
  ASSUME NEW us, GoodUnits(us, 0), NEW start \in Nat, NEW l,
         NEW c, c = Placed(us, l, start)
  PROVE  LaidOut(c, us, l, start)
  <1> DEFINE at == CHOOSE at : at = [k \in DOMAIN us |->
                     IF k = 1 THEN start ELSE at[k - 1] + us[k - 1].length]
             R(k) == [op |-> us[k].op, arg |-> us[k].arg, to |-> us[k].to, line |-> l,
                      at |-> at[k], length |-> us[k].length, target |-> -1]
  <1>1. c = [k \in DOMAIN us |-> R(k)]
    BY DEF Placed
  <1>2. DOMAIN us = 1 .. Len(us) /\ Len(us) \in Nat
    BY DEF GoodUnits, IsSeq
  <1>3. IsAt(at, us, start, Len(us)) /\ \A k \in 1 .. Len(us) : at[k] \in Nat
    <2>1. PICK f : IsAt(f, us, start, Len(us)) /\ \A k \in 1 .. Len(us) : f[k] \in Nat
      BY PlacesExist
    <2>2. at = [k \in DOMAIN us |-> IF k = 1 THEN start ELSE at[k - 1] + us[k - 1].length]
      <3>1. f = [k \in DOMAIN us |-> IF k = 1 THEN start ELSE f[k - 1] + us[k - 1].length]
        BY <1>2, <2>1 DEF IsAt
      <3> QED
        BY <3>1, Zenon
    <2>3. IsAt(at, us, start, Len(us))
      BY <1>2, <2>2 DEF IsAt
    <2> HIDE DEF at
    <2> DEFINE T == {k \in Nat : k + 1 \in 1 .. Len(us) => at[k + 1] = f[k + 1]}
    <2>4. \A k \in 1 .. Len(us) : /\ at[k] = (IF k = 1 THEN start ELSE at[k - 1] + us[k - 1].length)
                                  /\ f[k] = (IF k = 1 THEN start ELSE f[k - 1] + us[k - 1].length)
      <3>1. \A k \in 1 .. Len(us) : at[k] = IF k = 1 THEN start ELSE at[k - 1] + us[k - 1].length
        BY <1>2, <2>2, Zenon
      <3>2. f = [k \in 1 .. Len(us) |-> IF k = 1 THEN start ELSE f[k - 1] + us[k - 1].length]
        BY <2>1 DEF IsAt
      <3>3. \A k \in 1 .. Len(us) : f[k] = IF k = 1 THEN start ELSE f[k - 1] + us[k - 1].length
        BY <3>2, Zenon
      <3> QED
        BY <3>1, <3>3
    <2>5. 0 \in T
      <3>1. 1 \in 1 .. Len(us) => at[1] = f[1]
        BY <2>4
      <3> QED
        BY <3>1
    <2>6. ASSUME NEW k \in Nat, k \in T PROVE k + 1 \in T
      <3> SUFFICES ASSUME (k + 1) + 1 \in 1 .. Len(us) PROVE at[(k + 1) + 1] = f[(k + 1) + 1]
        OBVIOUS
      <3>1. ((k + 1) + 1) - 1 = k + 1 /\ (k + 1) + 1 # 1 /\ k + 1 \in 1 .. Len(us)
        BY <1>2
      <3>2. at[k + 1] = f[k + 1]
        BY <2>6, <3>1
      <3> QED
        BY <2>4, <3>1, <3>2
    <2> HIDE DEF T
    <2>7. \A k \in Nat : k \in T
      BY <2>5, <2>6, Induction
    <2>8. \A k \in 1 .. Len(us) : at[k] = f[k]
      <3> TAKE k \in 1 .. Len(us)
      <3>1. k - 1 \in Nat /\ (k - 1) + 1 = k
        BY <1>2
      <3>2. k - 1 \in T
        BY <2>7, <3>1
      <3> QED
        BY <3>1, <3>2 DEF T
    <2> QED
      BY <2>1, <2>3, <2>8
  <1> HIDE DEF at
  <1>4. \A k \in 1 .. Len(us) : at[k] = IF k = 1 THEN start ELSE at[k - 1] + us[k - 1].length
    <2>1. at = [k \in 1 .. Len(us) |-> IF k = 1 THEN start ELSE at[k - 1] + us[k - 1].length]
      BY <1>3 DEF IsAt
    <2> QED
      BY <2>1, Zenon
  <1>5. \A k \in 1 .. Len(us) : c[k] = R(k)
    BY <1>1, <1>2
  <1>6. IsSeq(c) /\ Len(c) = Len(us)
    <2>1. c \in Seq({R(k) : k \in 1 .. Len(us)}) /\ Len(c) = Len(us)
      <3> DEFINE W == {R(k) : k \in 1 .. Len(us)}
      <3>1. c \in [1 .. Len(us) -> W]
        BY <1>1, <1>2, SMTT(30)
      <3> HIDE DEF W
      <3> PICK n \in Nat : n = Len(us)
        BY <1>2
      <3>2. c \in [1 .. n -> W]
        BY <3>1
      <3>3. c \in Seq(W) /\ Len(c) = n
        BY <3>2
      <3> QED
        BY <3>3 DEF W
    <2> QED
      BY <2>1, OfRange
  <1>7. \A k \in 1 .. Len(c) : /\ IsPlaced(c[k])
              /\ c[k].op = us[k].op /\ c[k].arg = us[k].arg /\ c[k].to = us[k].to
              /\ c[k].line = l /\ c[k].length = us[k].length /\ c[k].target = -1
    <2> TAKE k \in 1 .. Len(c)
    <2>1. c[k] = R(k) /\ at[k] \in Nat
      BY <1>3, <1>5, <1>6
    <2> QED
      BY <2>1 DEF IsPlaced
  <1>8. Len(c) > 0 => c[1].at = start
    <2>1. Len(c) > 0 => 1 \in 1 .. Len(us)
      BY <1>2, <1>6
    <2>2. Len(c) > 0 => c[1] = R(1) /\ at[1] = start
      BY <1>4, <1>5, <2>1
    <2> QED
      BY <2>2
  <1>9. ASSUME NEW k \in 1 .. Len(c) - 1 PROVE c[k + 1].at = c[k].at + c[k].length
    <2>1. k \in 1 .. Len(us) /\ k + 1 \in 1 .. Len(us) /\ (k + 1) - 1 = k /\ k + 1 # 1
      BY <1>2, <1>6
    <2>2. at[k + 1] = at[k] + us[k].length
      BY <1>4, <2>1
    <2>3. c[k] = R(k) /\ c[k + 1] = R(k + 1)
      BY <1>5, <2>1
    <2> QED
      BY <2>2, <2>3
  <1> QED
    BY <1>6, <1>7, <1>8, <1>9 DEF LaidOut

\* Units laid out are code.
LEMMA PlacedIsCode ==
  ASSUME NEW us, GoodUnits(us, 0), NEW start \in Nat, NEW l,
         NEW c, c = Placed(us, l, start)
  PROVE  \E to : IsCode(c, start, to)
  <1>1. /\ IsSeq(c) /\ Len(c) = Len(us)
        /\ \A k \in 1 .. Len(c) :
              /\ IsPlaced(c[k])
              /\ c[k].op = us[k].op /\ c[k].arg = us[k].arg /\ c[k].to = us[k].to
              /\ c[k].line = l /\ c[k].length = us[k].length /\ c[k].target = -1
        /\ Len(c) > 0 => c[1].at = start
        /\ \A k \in 1 .. Len(c) - 1 : c[k + 1].at = c[k].at + c[k].length
    <2>1. LaidOut(c, us, l, start)
      BY PlacedUnits
    <2> QED
      BY <2>1 DEF LaidOut
  <1>2. Len(c) \in Nat
    BY <1>1 DEF IsSeq
  <1>3. \A k \in 1 .. Len(us) : IsUnit(us[k]) /\ (ToUnit(us[k]) => k + us[k].to[2] <= Len(us) + 0)
    BY DEF GoodUnits
  <1>4. \A k \in 1 .. Len(c) : IsUnit(c[k]) /\ (ToUnit(c[k]) => k + c[k].to[2] <= Len(c) + 0)
    BY <1>1, <1>3 DEF IsUnit, ToUnit, ToLine, Jumps
  <1>5. GoodUnits(c, 0)
    BY <1>1, <1>4 DEF GoodUnits
  <1> DEFINE to == IF Len(c) = 0 THEN start ELSE c[Len(c)].at + c[Len(c)].length
  <1>6. to \in Nat
    <2>2. \A k \in 1 .. Len(c) : c[k].at \in Nat /\ c[k].length \in Nat
      BY <1>1, <1>4 DEF IsUnit, IsPlaced
    <2>3. CASE Len(c) = 0
      BY <2>3
    <2>4. CASE Len(c) # 0
      <3>1. PICK n : n = Len(c)
        OBVIOUS
      <3>2. n \in 1 .. Len(c)
        BY <1>2, <2>4, <3>1
      <3>3. c[n].at \in Nat /\ c[n].length \in Nat
        BY <2>2, <3>2
      <3>4. to = c[n].at + c[n].length
        BY <2>4, <3>1
      <3> QED
        BY <3>3, <3>4
    <2> QED
      BY <2>3, <2>4
  <1>7. Contiguous(c, start, to)
    <2>1. Len(c) = 0 => start = to
      OBVIOUS
    <2>2. Len(c) > 0 => c[Len(c)].at + c[Len(c)].length = to
      BY <1>2
    <2> HIDE DEF to
    <2>3. \A k \in 1 .. Len(c) : IsPlaced(c[k])
      BY <1>1
    <2>4. \A k \in 1 .. Len(c) - 1 : c[k + 1].at = c[k].at + c[k].length
      BY <1>1
    <2>5. Len(c) > 0 => c[1].at = start
      BY <1>1
    <2> QED
      BY <1>6, <2>1, <2>2, <2>3, <2>4, <2>5 DEF Contiguous
  <1> QED
    BY <1>5, <1>7 DEF IsCode

\* Code continued where it ends is code.
LEMMA CodeJoin ==
  ASSUME NEW a, NEW b, NEW from, NEW m, NEW to, IsCode(a, from, m), IsCode(b, m, to)
  PROVE  IsCode(a \o b, from, to)
  <1>1. GoodUnits(a \o b, 0)
    <2>1. 0 <= Len(b) + 0
      BY DEF IsCode, GoodUnits, IsSeq
    <2> QED
      BY <2>1, GoodJoin DEF IsCode
  <1>2. /\ Len(a) \in Nat /\ Len(b) \in Nat /\ Len(a \o b) = Len(a) + Len(b)
        /\ \A k \in 1 .. Len(a) : (a \o b)[k] = a[k]
        /\ \A k \in 1 .. Len(b) : (a \o b)[Len(a) + k] = b[k]
    BY JoinIsSeq DEF IsCode, GoodUnits
  <1>3. /\ from \in Nat /\ m \in Nat /\ to \in Nat
        /\ \A k \in 1 .. Len(a) : IsPlaced(a[k])
        /\ Len(a) = 0 => from = m
        /\ Len(a) > 0 => a[1].at = from /\ a[Len(a)].at + a[Len(a)].length = m
        /\ \A k \in 1 .. Len(a) - 1 : a[k + 1].at = a[k].at + a[k].length
    BY DEF IsCode, Contiguous
  <1>4. /\ \A k \in 1 .. Len(b) : IsPlaced(b[k])
        /\ Len(b) = 0 => m = to
        /\ Len(b) > 0 => b[1].at = m /\ b[Len(b)].at + b[Len(b)].length = to
        /\ \A k \in 1 .. Len(b) - 1 : b[k + 1].at = b[k].at + b[k].length
    BY DEF IsCode, Contiguous
  <1> DEFINE c == a \o b
  <1>5. \A k \in 1 .. Len(c) : k \in 1 .. Len(a) \/ \E j \in 1 .. Len(b) : k = Len(a) + j
    <2> TAKE k \in 1 .. Len(c)
    <2>1. ASSUME k > Len(a) PROVE \E j \in 1 .. Len(b) : k = Len(a) + j
      <3>1. k - Len(a) \in 1 .. Len(b) /\ k = Len(a) + (k - Len(a))
        BY <1>2, <2>1
      <3> QED
        BY <3>1
    <2>2. ~ (k > Len(a)) => k \in 1 .. Len(a)
      BY <1>2
    <2> QED
      BY <2>1, <2>2
  <1> HIDE DEF c
  <1>6. \A k \in 1 .. Len(c) : IsPlaced(c[k])
    BY <1>2, <1>3, <1>4, <1>5 DEF c
  <1>7. Len(c) = 0 => from = to
    BY <1>2, <1>3, <1>4 DEF c
  <1>8. Len(c) > 0 => c[1].at = from
    <2>1. CASE Len(a) > 0
      <3>1. 1 \in 1 .. Len(a)
        BY <1>2, <2>1
      <3> QED
        BY <1>2, <1>3, <2>1, <3>1 DEF c
    <2>2. CASE Len(a) = 0
      <3>1. Len(c) > 0 => 1 \in 1 .. Len(b) /\ c[Len(a) + 1] = b[1] /\ Len(a) + 1 = 1
        BY <1>2, <2>2 DEF c
      <3> QED
        BY <1>2, <1>3, <1>4, <2>2, <3>1 DEF c
    <2> QED
      BY <1>2, <2>1, <2>2
  <1>9. Len(c) > 0 => c[Len(c)].at + c[Len(c)].length = to
    <2>1. CASE Len(b) > 0
      <3>1. Len(b) \in 1 .. Len(b) /\ Len(c) = Len(a) + Len(b)
        BY <1>2, <2>1 DEF c
      <3>2. c[Len(c)] = b[Len(b)]
        BY <1>2, <3>1 DEF c
      <3> QED
        BY <1>4, <2>1, <3>2
    <2>2. CASE Len(b) = 0
      <3>1. Len(c) > 0 => Len(c) = Len(a) /\ Len(a) \in 1 .. Len(a)
        BY <1>2, <2>2 DEF c
      <3>2. Len(c) > 0 => c[Len(c)] = a[Len(a)]
        BY <1>2, <3>1 DEF c
      <3> QED
        BY <1>2, <1>3, <1>4, <2>2, <3>1, <3>2
    <2> QED
      BY <1>2, <2>1, <2>2
  <1>10. ASSUME NEW k \in 1 .. Len(c) - 1 PROVE c[k + 1].at = c[k].at + c[k].length
    <2>1. CASE k + 1 <= Len(a)
      <3>1. k \in 1 .. Len(a) - 1 /\ k \in 1 .. Len(a) /\ k + 1 \in 1 .. Len(a)
        BY <1>2, <2>1
      <3>2. c[k] = a[k] /\ c[k + 1] = a[k + 1]
        BY <1>2, <3>1 DEF c
      <3> QED
        BY <1>3, <3>1, <3>2
    <2>2. CASE k = Len(a)
      <3>1. k \in 1 .. Len(a) /\ 1 \in 1 .. Len(b) /\ Len(a) > 0 /\ Len(b) > 0
        BY <1>2, <2>2 DEF c
      <3>2. c[k] = a[Len(a)] /\ c[k + 1] = b[1]
        BY <1>2, <2>2, <3>1 DEF c
      <3> QED
        BY <1>3, <1>4, <3>1, <3>2
    <2>3. CASE k > Len(a)
      <3>1. PICK j : j = k - Len(a)
        OBVIOUS
      <3>2. /\ j \in 1 .. Len(b) - 1 /\ j \in 1 .. Len(b) /\ j + 1 \in 1 .. Len(b)
            /\ k = Len(a) + j /\ k + 1 = Len(a) + (j + 1)
        BY <1>2, <2>3, <3>1 DEF c
      <3>3. c[Len(a) + j] = b[j] /\ c[Len(a) + (j + 1)] = b[j + 1]
        BY <1>2, <3>2 DEF c
      <3>4. c[k] = b[j] /\ c[k + 1] = b[j + 1]
        BY <3>2, <3>3
      <3> QED
        BY <1>4, <3>2, <3>4
    <2> QED
      BY <1>2, <2>1, <2>2, <2>3
  <1>11. Contiguous(c, from, to)
    BY <1>3, <1>6, <1>7, <1>8, <1>9, <1>10 DEF Contiguous
  <1> QED
    BY <1>1, <1>11 DEF IsCode, c

\* A unit lies behind every unit before it.
LEMMA CodeInOrder ==
  ASSUME NEW c, NEW from, NEW to, IsCode(c, from, to),
         NEW j \in 1 .. Len(c), NEW k \in 1 .. Len(c), j < k
  PROVE  c[j].at + c[j].length <= c[k].at
  <1>0. Len(c) \in Nat
    BY DEF IsCode, GoodUnits, IsSeq
  <1>1. \A i \in 1 .. Len(c) : c[i].at \in Nat /\ c[i].length \in Nat
    BY DEF IsCode, Contiguous, GoodUnits, IsPlaced, IsUnit
  <1>2. \A i \in 1 .. Len(c) - 1 : c[i + 1].at = c[i].at + c[i].length
    BY DEF IsCode, Contiguous
  <1> DEFINE After(n) == c[j].at + c[j].length <= c[j + 1 + n].at
             T == {n \in Nat : j + 1 + n <= Len(c) => After(n)}
  <1>3. 0 \in T
    <2>1. j \in 1 .. Len(c) - 1 /\ j + 1 + 0 = j + 1 /\ j + 1 \in 1 .. Len(c)
      BY <1>0
    <2> QED
      BY <1>1, <1>2, <2>1
  <1>4. ASSUME NEW n \in Nat, n \in T PROVE n + 1 \in T
    <2> SUFFICES ASSUME j + 1 + (n + 1) <= Len(c) PROVE After(n + 1)
      OBVIOUS
    <2>1. PICK i : i = j + 1 + n
      OBVIOUS
    <2>2. i \in 1 .. Len(c) - 1 /\ i \in 1 .. Len(c) /\ i + 1 \in 1 .. Len(c) /\ j + 1 + (n + 1) = i + 1
      BY <1>0, <2>1
    <2>0. j + 1 + n <= Len(c) => c[j].at + c[j].length <= c[j + 1 + n].at
      BY <1>4
    <2>3. c[j].at + c[j].length <= c[i].at
      BY <1>0, <2>0, <2>1, <2>2
    <2>4. c[j].at + c[j].length <= c[i + 1].at
      <3>1. c[i + 1].at = c[i].at + c[i].length
        BY <1>2, <2>2
      <3>2. c[i].at \in Nat /\ c[i].length \in Nat /\ c[j].at \in Nat /\ c[j].length \in Nat
        BY <1>1, <2>2
      <3>3. PICK x, y, z, t : x = c[j].at /\ y = c[j].length /\ z = c[i].at /\ t = c[i].length
        OBVIOUS
      <3>4. x \in Nat /\ y \in Nat /\ z \in Nat /\ t \in Nat /\ x + y <= z
        BY <2>3, <3>2, <3>3
      <3>5. x + y <= z + t
        BY <3>4
      <3> QED
        BY <3>1, <3>3, <3>5
    <2> QED
      BY <2>2, <2>4
  <1> HIDE DEF T
  <1>5. \A n \in Nat : n \in T
    BY <1>3, <1>4, Induction
  <1>6. PICK n : n = k - (j + 1)
    OBVIOUS
  <1>7. n \in Nat /\ j + 1 + n = k
    BY <1>0, <1>6
  <1>8. n \in T
    BY <1>5, <1>7
  <1> QED
    BY <1>0, <1>7, <1>8 DEF T

-----------------------------------------------------------------------------
\* Requests and patches.
RequestOf(c, r) == \E k \in 1 .. Len(c) : Jumps(c[k]) /\ r = Request(c, k)
AllRequested(c, ps) ==
  \A k \in 1 .. Len(c) : Jumps(c[k]) => \E n \in 1 .. Len(ps) : ps[n] = Request(c, k)

IsUpTo(f, c, m) ==
  f = [k \in 0 .. m |-> IF k = 0 THEN <<>>
                        ELSE IF c[k].to = <<>> THEN f[k - 1]
                        ELSE Append(f[k - 1], Request(c, k))]

\* What upTo[m] of Requests is.
Gathered(c, m, ps) ==
  /\ IsSeq(ps)
  /\ \A n \in 1 .. Len(ps) : \E k \in 1 .. m : Jumps(c[k]) /\ ps[n] = Request(c, k)
  /\ \A k \in 1 .. m : Jumps(c[k]) => \E n \in 1 .. Len(ps) : ps[n] = Request(c, k)

\* One more unit, and its request if it is a jump.
LEMMA GatheredNext ==
  ASSUME NEW c, NEW m \in Nat, NEW ps, Gathered(c, m, ps)
  PROVE  Gathered(c, m + 1, IF c[m + 1].to = <<>> THEN ps ELSE Append(ps, Request(c, m + 1)))
  <1>1. CASE c[m + 1].to = <<>>
    <2>1. \A k \in 1 .. m + 1 : Jumps(c[k]) => k \in 1 .. m
      BY <1>1 DEF Jumps
    <2>2. \A k \in 1 .. m : k \in 1 .. m + 1
      OBVIOUS
    <2> QED
      BY <1>1, <2>1, <2>2 DEF Gathered
  <1>2. CASE c[m + 1].to # <<>>
    <2>1. PICK r : r = Request(c, m + 1)
      OBVIOUS
    <2> DEFINE qs == Append(ps, r)
    <2>2. /\ IsSeq(qs) /\ Len(ps) \in Nat /\ Len(qs) = Len(ps) + 1
          /\ \A i \in 1 .. Len(ps) : qs[i] = ps[i]
          /\ qs[Len(ps) + 1] = r
      BY AppendIsSeq DEF Gathered
    <2> HIDE DEF qs
    <2>3. ASSUME NEW n \in 1 .. Len(qs)
          PROVE  \E k \in 1 .. m + 1 : Jumps(c[k]) /\ qs[n] = Request(c, k)
      <3>1. CASE n = Len(ps) + 1
        <4>1. m + 1 \in 1 .. m + 1 /\ Jumps(c[m + 1]) /\ qs[n] = Request(c, m + 1)
          BY <1>2, <2>1, <2>2, <3>1 DEF Jumps
        <4> QED
          BY <4>1
      <3>2. CASE n # Len(ps) + 1
        <4>1. n \in 1 .. Len(ps) /\ qs[n] = ps[n]
          BY <2>2, <3>2
        <4>2. PICK k \in 1 .. m : Jumps(c[k]) /\ ps[n] = Request(c, k)
          BY <4>1 DEF Gathered
        <4> QED
          BY <4>1, <4>2
      <3> QED
        BY <3>1, <3>2
    <2>4. ASSUME NEW k \in 1 .. m + 1, Jumps(c[k])
          PROVE  \E n \in 1 .. Len(qs) : qs[n] = Request(c, k)
      <3>1. CASE k = m + 1
        <4>1. Len(ps) + 1 \in 1 .. Len(qs)
          BY <2>2
        <4> QED
          BY <2>1, <2>2, <3>1, <4>1
      <3>2. CASE k # m + 1
        <4>1. k \in 1 .. m
          BY <3>2
        <4>2. PICK n \in 1 .. Len(ps) : ps[n] = Request(c, k)
          BY <2>4, <4>1 DEF Gathered
        <4>3. n \in 1 .. Len(qs) /\ qs[n] = ps[n]
          BY <2>2
        <4> QED
          BY <4>2, <4>3
      <3> QED
        BY <3>1, <3>2
    <2>5. Gathered(c, m + 1, qs)
      BY <2>2, <2>3, <2>4 DEF Gathered
    <2> QED
      BY <1>2, <2>1, <2>5 DEF qs
  <1> QED
    BY <1>1, <1>2

\* There is a function that gathers the requests up to each unit.
LEMMA UpToExists ==
  ASSUME NEW c, NEW n \in Nat
  PROVE  \E f : IsUpTo(f, c, n)
  <1> DEFINE T == {m \in Nat : \E f : IsUpTo(f, c, m)}
  <1>1. 0 \in T
    <2> DEFINE g == [k \in 0 .. 0 |-> <<>>]
    <2>1. g = [k \in 0 .. 0 |-> IF k = 0 THEN <<>>
                        ELSE IF c[k].to = <<>> THEN g[k - 1]
                        ELSE Append(g[k - 1], Request(c, k))]
      OBVIOUS
    <2> HIDE DEF g
    <2> QED
      BY <2>1 DEF IsUpTo
  <1>2. ASSUME NEW m \in Nat, m \in T PROVE m + 1 \in T
    <2>1. PICK f : IsUpTo(f, c, m)
      BY <1>2
    <2> DEFINE v == IF c[m + 1].to = <<>> THEN f[m] ELSE Append(f[m], Request(c, m + 1))
               g == [k \in 0 .. m + 1 |-> IF k = m + 1 THEN v ELSE f[k]]
               E(h, k) == IF k = 0 THEN <<>>
                          ELSE IF c[k].to = <<>> THEN h[k - 1]
                          ELSE Append(h[k - 1], Request(c, k))
    <2>2. \A k \in 0 .. m : f[k] = E(f, k)
      <3>1. f = [k \in 0 .. m |-> E(f, k)]
        BY <2>1 DEF IsUpTo
      <3> HIDE DEF E
      <3> QED
        BY <3>1, Zenon
    <2>3. ASSUME NEW k \in 0 .. m + 1 PROVE g[k] = E(g, k)
      <3>1. CASE k = m + 1
        <4>1. g[k] = v /\ g[k - 1] = f[m] /\ k # 0
          BY <3>1
        <4> QED
          BY <3>1, <4>1
      <3>2. CASE k # m + 1
        <4>1. g[k] = f[k] /\ k \in 0 .. m /\ (k # 0 => g[k - 1] = f[k - 1])
          BY <3>2
        <4> HIDE DEF g
        <4> QED
          BY <4>1, <2>2
      <3> QED
        BY <3>1, <3>2
    <2>4. g = [k \in 0 .. m + 1 |-> E(g, k)]
      <3> HIDE DEF E, v
      <3>1. DOMAIN g = 0 .. m + 1 /\ g = [k \in 0 .. m + 1 |-> g[k]]
        OBVIOUS
      <3> HIDE DEF g
      <3> QED
        BY <2>3, <3>1
    <2>5. IsUpTo(g, c, m + 1)
      <3> HIDE DEF g
      <3> QED
        BY <2>4 DEF IsUpTo
    <2> HIDE DEF g
    <2> QED
      BY <2>5
  <1> HIDE DEF T
  <1>3. n \in T
    BY <1>1, <1>2, Induction
  <1> QED
    BY <1>3 DEF T

\* Requests gathers the requests of all jumps of a code, and nothing else.
LEMMA RequestsGathered ==
  ASSUME NEW c, IsSeq(c)
  PROVE  Gathered(c, Len(c), Requests(c))
  <1> DEFINE upTo == CHOOSE f : f = [k \in 0 .. Len(c) |-> IF k = 0 THEN <<>>
                        ELSE IF c[k].to = <<>> THEN f[k - 1]
                        ELSE Append(f[k - 1], Request(c, k))]
             E(h, k) == IF k = 0 THEN <<>>
                        ELSE IF c[k].to = <<>> THEN h[k - 1]
                        ELSE Append(h[k - 1], Request(c, k))
  <1>0. Len(c) \in Nat
    BY DEF IsSeq
  <1>1. Requests(c) = upTo[Len(c)]
    BY SMTT(30) DEF Requests
  <1>2. IsUpTo(upTo, c, Len(c))
    <2>1. PICK f : IsUpTo(f, c, Len(c))
      BY <1>0, UpToExists
    <2>2. f = [k \in 0 .. Len(c) |-> E(f, k)]
      BY <2>1 DEF IsUpTo
    <2>3. upTo = [k \in 0 .. Len(c) |-> E(upTo, k)]
      BY <2>2, Zenon
    <2> QED
      BY <2>3, Zenon DEF IsUpTo
  <1> HIDE DEF upTo
  <1>3. \A k \in 0 .. Len(c) : upTo[k] = E(upTo, k)
    <2>1. upTo = [k \in 0 .. Len(c) |-> E(upTo, k)]
      BY <1>2 DEF IsUpTo
    <2> HIDE DEF E
    <2> QED
      BY <2>1, Zenon
  <1> DEFINE T == {m \in Nat : m <= Len(c) => Gathered(c, m, upTo[m])}
  <1>4. 0 \in T
    <2>0. IsSeq(<<>>) /\ Len(<<>>) = 0
      BY <<>> \in Seq({}), OfRange
    <2>1. upTo[0] = <<>> /\ IsSeq(<<>>) /\ Len(<<>>) = 0
      BY <1>0, <1>3, <2>0
    <2>2. Gathered(c, 0, <<>>)
      BY <2>1 DEF Gathered
    <2> QED
      BY <2>1, <2>2
  <1>5. ASSUME NEW m \in Nat, m \in T PROVE m + 1 \in T
    <2> SUFFICES ASSUME m + 1 <= Len(c) PROVE Gathered(c, m + 1, upTo[m + 1])
      OBVIOUS
    <2>1. Gathered(c, m, upTo[m])
      BY <1>0, <1>5
    <2>2. m + 1 \in 0 .. Len(c) /\ m + 1 # 0 /\ (m + 1) - 1 = m
      BY <1>0
    <2>3. upTo[m + 1] = IF c[m + 1].to = <<>> THEN upTo[m] ELSE Append(upTo[m], Request(c, m + 1))
      BY <1>3, <2>2
    <2> QED
      BY <2>1, <2>3, GatheredNext
  <1> HIDE DEF T
  <1>6. Len(c) \in T
    BY <1>0, <1>4, <1>5, Induction
  <1> QED
    BY <1>0, <1>1, <1>6 DEF T

\* Where the unit before the target of a jump is, in a code and behind another.
LEMMA Shifted ==
  ASSUME NEW m \in Nat, NEW n \in Nat, NEW k \in 1 .. n, NEW t \in Nat, t >= 1, k + t <= n,
         NEW d, d = k + t - 1
  PROVE  d \in 1 .. n /\ (m + k) + t - 1 = m + d
  OBVIOUS

\* A request made while a line is compiled is the one of the whole code.
LEMMA RequestsOfJoin ==
  ASSUME NEW a, NEW b, GoodUnits(a, 0), GoodUnits(b, 0)
  PROVE  /\ \A k \in 1 .. Len(a) : Jumps(a[k]) => Request(a \o b, k) = Request(a, k)
         /\ \A k \in 1 .. Len(b) : Jumps(b[k]) => Request(a \o b, Len(a) + k) = Request(b, k)
  <1>1. /\ Len(a) \in Nat /\ Len(b) \in Nat
        /\ \A k \in 1 .. Len(a) : (a \o b)[k] = a[k]
        /\ \A k \in 1 .. Len(b) : (a \o b)[Len(a) + k] = b[k]
    BY JoinIsSeq DEF GoodUnits
  <1>2. ASSUME NEW k \in 1 .. Len(a), Jumps(a[k])
        PROVE  Request(a \o b, k) = Request(a, k)
    <2>1. CASE ToLine(a[k])
      BY <1>1, <2>1 DEF Request, ToLine
    <2>2. CASE ToUnit(a[k])
      <3>1. a[k].to[2] \in Nat /\ a[k].to[2] >= 1 /\ k + a[k].to[2] <= Len(a) + 0
        BY <2>2 DEF GoodUnits, IsUnit
      <3>2. PICK d : d = k + a[k].to[2] - 1
        OBVIOUS
      <3>3. d \in 1 .. Len(a)
        BY <1>1, <3>1, <3>2
      <3>4. (a \o b)[d] = a[d] /\ (a \o b)[k] = a[k]
        BY <1>1, <3>3
      <3> QED
        BY <3>2, <3>4 DEF Request
    <2> QED
      BY <1>2, <2>1, <2>2 DEF GoodUnits, IsUnit
  <1>3. ASSUME NEW k \in 1 .. Len(b), Jumps(b[k])
        PROVE  Request(a \o b, Len(a) + k) = Request(b, k)
    <2>1. CASE ToLine(b[k])
      BY <1>1, <2>1 DEF Request, ToLine
    <2>2. CASE ToUnit(b[k])
      <3>1. b[k].to[2] \in Nat /\ b[k].to[2] >= 1 /\ k + b[k].to[2] <= Len(b) + 0
        BY <2>2 DEF GoodUnits, IsUnit
      <3>2. PICK d : d = k + b[k].to[2] - 1
        OBVIOUS
      <3>3. d \in 1 .. Len(b) /\ (Len(a) + k) + b[k].to[2] - 1 = Len(a) + d
        <4>0. PICK t : t = b[k].to[2]
          OBVIOUS
        <4>1. t \in Nat /\ t >= 1 /\ k + t <= Len(b) + 0 /\ d = k + t - 1
          BY <3>1, <3>2, <4>0
        <4>2. Len(a) \in Nat /\ Len(b) \in Nat
          BY <1>1
        <4>3. d \in 1 .. Len(b) /\ (Len(a) + k) + t - 1 = Len(a) + d
          BY <4>1, <4>2, Shifted
        <4> QED
          BY <4>0, <4>3
      <3>4. (a \o b)[Len(a) + d] = b[d] /\ (a \o b)[Len(a) + k] = b[k]
        BY <1>1, <3>3
      <3> QED
        BY <3>2, <3>3, <3>4 DEF Request
    <2> QED
      BY <1>3, <2>1, <2>2 DEF GoodUnits, IsUnit
  <1> QED
    BY <1>2, <1>3

\* The greatest member of a set of positions.
LEMMA GreatestOf ==
  ASSUME NEW n \in Nat, NEW Held, Held \subseteq 1 .. n, Held # {}
  PROVE  \E x \in Held : \A y \in Held : y <= x
  <1> DEFINE T == {n - x : x \in Held}
  <1>1. T \subseteq Nat /\ T # {}
    <2>1. \A x \in Held : x \in 1 .. n /\ n - x \in Nat
      OBVIOUS
    <2> QED
      BY <2>1
  <1>2. PICK t \in T : \A y \in T : t <= y
    BY <1>1, LeastOf
  <1>3. PICK x \in Held : t = n - x
    OBVIOUS
  <1>4. ASSUME NEW y \in Held PROVE y <= x
    <2>1. n - y \in T
      OBVIOUS
    <2> QED
      BY <1>2, <1>3, <2>1
  <1> QED
    BY <1>4

\* What a patch for a request r makes of the unit that asked for it.
Aimed(u, r, fo) ==
  [u EXCEPT !.target = IF Known(r, fo) THEN r.first + 4 + Rel(r, fo) ELSE -1]

\* A request is for the bytes of its own jump.
LEMMA RequestFirst ==
  ASSUME NEW c, NEW k
  PROVE  Request(c, k).first = Field(c[k])
  BY DEF Request

\* The four bytes of a jump overlap no unit that lies elsewhere.
LEMMA FieldsApart ==
  ASSUME NEW a \in Nat, NEW m \in Nat, m >= 1, NEW b \in {a + m, a + m - 4},
         NEW f, NEW at \in Nat, NEW length \in Nat, length >= 5, f = at + length - 4,
         at + length <= a \/ a + m <= at
  PROVE  ~(f < b /\ a < f + 4) /\ ~(f < a + m /\ a < f + 4) /\ f # a + m - 4
  <1>1. CASE at + length <= a
    BY <1>1
  <1>2. CASE a + m <= at
    BY <1>2
  <1> QED
    BY <1>1, <1>2

\* Patching: if all jumps are requested and only they, each is given what was
\* requested for it and nothing else is written, however often a request is repeated.
LEMMA PatchedCode ==
  ASSUME NEW c, NEW from, NEW to, IsCode(c, from, to), NEW ps, IsSeq(ps), NEW fo,
         \A n \in 1 .. Len(ps) : RequestOf(c, ps[n]),
         AllRequested(c, ps)
  PROVE  /\ IsSeq(Patched(c, ps, fo)) /\ Len(Patched(c, ps, fo)) = Len(c)
         /\ \A k \in 1 .. Len(c) :
              Patched(c, ps, fo)[k] = IF Jumps(c[k]) THEN Aimed(c[k], Request(c, k), fo) ELSE c[k]
  <1> DEFINE Own(u) == {n \in DOMAIN ps : u.to # <<>> /\ ps[n].first = Field(u)}
             Latest(u) == CHOOSE n \in Own(u) : \A m \in Own(u) : m <= n
             Body(u) == u.at + u.length - IF u.to = <<>> THEN 0 ELSE 4
             Spoiled(u) ==
               \E n \in DOMAIN ps \ Own(u) :
                 \/ Overwrites(ps[n], u.at, Body(u))
                 \/ Overwrites(ps[n], u.at, u.at + u.length)
                    /\ (Own(u) = {} \/ n > Latest(u))
             R(k) == LET u == c[k]
                     IN  IF Spoiled(u) THEN [u EXCEPT !.op = "garbage"]
                         ELSE IF Own(u) = {} THEN u
                         ELSE LET r == ps[Latest(u)]
                              IN  [u EXCEPT !.target = IF Known(r, fo)
                                                       THEN r.first + 4 + Rel(r, fo) ELSE -1]
             d == Patched(c, ps, fo)
  <1>1. d = [k \in DOMAIN c |-> R(k)]
    BY DEF Patched
  <1>2. /\ IsSeq(c) /\ Len(c) \in Nat /\ DOMAIN c = 1 .. Len(c)
        /\ Len(ps) \in Nat /\ DOMAIN ps = 1 .. Len(ps)
    BY DEF IsCode, GoodUnits, IsSeq
  <1>3. \A k \in 1 .. Len(c) :
           /\ c[k].at \in Nat /\ c[k].length \in Nat /\ c[k].length >= 1
           /\ Jumps(c[k]) => c[k].length >= 5
    BY DEF IsCode, Contiguous, GoodUnits, IsPlaced, IsUnit
  <1>4. \A n \in 1 .. Len(ps) : \E j \in 1 .. Len(c) :
           Jumps(c[j]) /\ ps[n] = Request(c, j) /\ ps[n].first = c[j].at + c[j].length - 4
    BY RequestFirst DEF RequestOf, Field
  <1> HIDE DEF d
  <1>5. ASSUME NEW k \in 1 .. Len(c)
        PROVE  R(k) = IF Jumps(c[k]) THEN Aimed(c[k], Request(c, k), fo) ELSE c[k]
    <2> DEFINE u == c[k]
    <2>1. ASSUME NEW n \in 1 .. Len(ps), NEW j \in 1 .. Len(c), Jumps(c[j]),
                 ps[n].first = c[j].at + c[j].length - 4, j # k
          PROVE  ~Overwrites(ps[n], u.at, Body(u)) /\ ~Overwrites(ps[n], u.at, u.at + u.length)
                 /\ ps[n].first # u.at + u.length - 4
      <3>1. c[j].at + c[j].length <= u.at \/ u.at + u.length <= c[j].at
        BY <1>2, <2>1, CodeInOrder
      <3>2. /\ u.at \in Nat /\ u.length \in Nat /\ u.length >= 1
            /\ c[j].at \in Nat /\ c[j].length \in Nat /\ c[j].length >= 5
        BY <1>3, <2>1
      <3>3. Body(u) \in {u.at + u.length, u.at + u.length - 4}
        BY <3>2
      <3> HIDE DEF Body, u
      <3> QED
        BY <2>1, <3>1, <3>2, <3>3, FieldsApart DEF Overwrites
    <2>2. \A n \in 1 .. Len(ps) : n \in Own(u) <=> Jumps(u) /\ ps[n] = Request(c, k)
      <3> TAKE n \in 1 .. Len(ps)
      <3>1. PICK j \in 1 .. Len(c) :
              Jumps(c[j]) /\ ps[n] = Request(c, j) /\ ps[n].first = c[j].at + c[j].length - 4
        BY <1>4
      <3>2. Request(c, k).first = u.at + u.length - 4
        BY RequestFirst DEF Field
      <3>3. n \in Own(u) <=> Jumps(u) /\ ps[n].first = u.at + u.length - 4
        BY <1>2 DEF Jumps, Field
      <3>4. CASE j = k
        BY <3>1, <3>2, <3>3, <3>4
      <3>5. CASE j # k
        <4>1. ps[n].first # u.at + u.length - 4
          BY <2>1, <3>1, <3>5
        <4> QED
          BY <3>2, <3>3, <4>1
      <3> QED
        BY <3>4, <3>5
    <2>3. ~Spoiled(u)
      <3> SUFFICES ASSUME NEW n \in 1 .. Len(ps), n \notin Own(u)
                   PROVE  ~Overwrites(ps[n], u.at, Body(u)) /\ ~Overwrites(ps[n], u.at, u.at + u.length)
        BY <1>2
      <3>1. PICK j \in 1 .. Len(c) :
              Jumps(c[j]) /\ ps[n] = Request(c, j) /\ ps[n].first = c[j].at + c[j].length - 4
        BY <1>4
      <3>2. j # k
        BY <2>2, <3>1
      <3> QED
        BY <2>1, <3>1, <3>2
    <2>4. CASE ~Jumps(u)
      <3>1. Own(u) = {}
        BY <2>4 DEF Jumps
      <3> HIDE DEF Spoiled
      <3> QED
        BY <2>3, <2>4, <3>1
    <2>5. CASE Jumps(u)
      <3>1. PICK n \in 1 .. Len(ps) : ps[n] = Request(c, k)
        BY <2>5 DEF AllRequested
      <3>2. n \in Own(u)
        BY <2>2, <2>5, <3>1
      <3>3. Own(u) \subseteq 1 .. Len(ps)
        BY <1>2
      <3>4. \E x \in Own(u) : \A y \in Own(u) : y <= x
        <4> HIDE DEF Own
        <4> QED
          BY <1>2, <3>2, <3>3, GreatestOf
      <3>5. Latest(u) \in Own(u)
        <4> HIDE DEF Own
        <4> QED
          BY <3>4
      <3>6. ps[Latest(u)] = Request(c, k)
        <4> HIDE DEF Latest
        <4>1. Latest(u) \in 1 .. Len(ps)
          BY <3>3, <3>5
        <4> QED
          BY <2>2, <3>5, <4>1
      <3> HIDE DEF Spoiled, Latest, Own
      <3> QED
        BY <2>3, <2>5, <3>2, <3>6 DEF Aimed
    <2> QED
      BY <2>4, <2>5
  <1> HIDE DEF R
  <1>6. IsSeq(d) /\ Len(d) = Len(c)
    <2> DEFINE W == {R(k) : k \in 1 .. Len(c)}
    <2>1. d \in [1 .. Len(c) -> W]
      BY <1>1, <1>2, SMTT(30)
    <2> HIDE DEF W
    <2> PICK n \in Nat : n = Len(c)
      BY <1>2
    <2>2. d \in [1 .. n -> W]
      BY <2>1
    <2>3. d \in Seq(W) /\ Len(d) = n
      BY <2>2
    <2> QED
      BY <2>3, OfRange
  <1>7. \A k \in 1 .. Len(c) : d[k] = R(k)
    BY <1>1, <1>2
  <1> QED
    BY <1>5, <1>6, <1>7 DEF d

-----------------------------------------------------------------------------
\* The code of the first i lines of a script, and whether the translator then
\* needs to correct run_line_.
AfterLine(p, w, i) ==
  [code |-> w.code \o Placed(LineUnits(p, i, w.need), i, CodeSize(w.code)),
   need |-> IF p.lines[i + 1].flag = "Func" THEN FALSE
            ELSE w.need \/ p.lines[i + 1].flag \notin {"UFunc", "CFunc"}]
Begun == [code |-> Placed(<<Prologue>>, -1, 0), need |-> FALSE]

IsWhole(f, p, n) == f = [i \in 0 .. n |-> IF i = 0 THEN Begun ELSE AfterLine(p, f[i - 1], i - 1)]
Whole(p) == CHOOSE f : IsWhole(f, p, Len(p.lines))
CodeOf(p, i) == Whole(p)[i].code
FullCode(p) == CodeOf(p, Len(p.lines)) \o Placed(Epilogue, Len(p.lines), CodeSize(CodeOf(p, Len(p.lines))))

\* There is a function that translates a script line by line.
LEMMA WholeExists ==
  ASSUME NEW p, NEW n \in Nat
  PROVE  \E f : IsWhole(f, p, n)
  <1> DEFINE T == {m \in Nat : \E f : IsWhole(f, p, m)}
  <1>1. 0 \in T
    <2> DEFINE g == [k \in 0 .. 0 |-> Begun]
    <2>1. g = [k \in 0 .. 0 |-> IF k = 0 THEN Begun ELSE AfterLine(p, g[k - 1], k - 1)]
      OBVIOUS
    <2> HIDE DEF g
    <2> QED
      BY <2>1 DEF IsWhole
  <1>2. ASSUME NEW m \in Nat, m \in T PROVE m + 1 \in T
    <2>1. PICK f : IsWhole(f, p, m)
      BY <1>2
    <2> DEFINE v == AfterLine(p, f[m], m)
               g == [k \in 0 .. m + 1 |-> IF k = m + 1 THEN v ELSE f[k]]
               E(h, k) == IF k = 0 THEN Begun ELSE AfterLine(p, h[k - 1], k - 1)
    <2>2. \A k \in 0 .. m : f[k] = E(f, k)
      <3>1. f = [k \in 0 .. m |-> E(f, k)]
        BY <2>1 DEF IsWhole
      <3> HIDE DEF E
      <3> QED
        BY <3>1, Zenon
    <2>3. ASSUME NEW k \in 0 .. m + 1 PROVE g[k] = E(g, k)
      <3>1. CASE k = m + 1
        <4>1. g[k] = v /\ g[k - 1] = f[m] /\ k # 0 /\ k - 1 = m
          BY <3>1
        <4> QED
          BY <3>1, <4>1
      <3>2. CASE k # m + 1
        <4>1. g[k] = f[k] /\ k \in 0 .. m /\ (k # 0 => g[k - 1] = f[k - 1])
          BY <3>2
        <4> HIDE DEF g
        <4> QED
          BY <4>1, <2>2
      <3> QED
        BY <3>1, <3>2
    <2>4. g = [k \in 0 .. m + 1 |-> E(g, k)]
      <3> HIDE DEF E, v
      <3>1. DOMAIN g = 0 .. m + 1 /\ g = [k \in 0 .. m + 1 |-> g[k]]
        OBVIOUS
      <3> HIDE DEF g
      <3> QED
        BY <2>3, <3>1
    <2>5. IsWhole(g, p, m + 1)
      <3> HIDE DEF g
      <3> QED
        BY <2>4 DEF IsWhole
    <2> HIDE DEF g
    <2> QED
      BY <2>5
  <1> HIDE DEF T
  <1>3. n \in T
    BY <1>1, <1>2, Induction
  <1> QED
    BY <1>3 DEF T

\* How the code of the first lines grows by a line.
LEMMA WholeSteps ==
  ASSUME NEW p, IsScript(p)
  PROVE  /\ Whole(p)[0] = Begun
         /\ \A i \in 0 .. Len(p.lines) - 1 : Whole(p)[i + 1] = AfterLine(p, Whole(p)[i], i)
  <1> DEFINE n == Len(p.lines)
             f == Whole(p)
  <1>0. n \in Nat
    BY DEF IsScript
  <1>1. IsWhole(f, p, n)
    <2>1. \E g : IsWhole(g, p, n)
      BY <1>0, WholeExists
    <2> QED
      BY <2>1 DEF Whole
  <1> HIDE DEF f
  <1>2. \A i \in 0 .. n : f[i] = IF i = 0 THEN Begun ELSE AfterLine(p, f[i - 1], i - 1)
    <2>1. f = [i \in 0 .. n |-> IF i = 0 THEN Begun ELSE AfterLine(p, f[i - 1], i - 1)]
      BY <1>1 DEF IsWhole
    <2> QED
      BY <2>1, Zenon
  <1>3. f[0] = Begun
    BY <1>0, <1>2
  <1>4. ASSUME NEW i \in 0 .. n - 1 PROVE f[i + 1] = AfterLine(p, f[i], i)
    <2>1. i + 1 \in 0 .. n /\ i + 1 # 0 /\ (i + 1) - 1 = i
      BY <1>0
    <2> QED
      BY <1>2, <2>1
  <1> QED
    BY <1>3, <1>4 DEF f

\* What the code of the first i lines is like.
Sound(c, i) ==
  /\ Len(c) \in Nat /\ Len(c) >= 1
  /\ CodeSize(c) \in Nat
  /\ IsCode(c, 0, CodeSize(c))
  /\ c[1].line = -1
  /\ \A k \in 1 .. Len(c) : c[k].line \in -1 .. i - 1 /\ c[k].target = -1
  /\ \A k \in 2 .. Len(c) : c[k].line >= 0

\* Adding the units of line i.
Joined(a, i, us, b, c) ==
  /\ Sound(c, i + 1)
  /\ Len(b) = Len(us) /\ Len(c) = Len(a) + Len(us)
  /\ \A k \in 1 .. Len(a) : c[k] = a[k]
  /\ \A k \in 1 .. Len(us) : c[Len(a) + k] = b[k]
  /\ \A k \in 1 .. Len(us) : c[Len(a) + k].line = i
  /\ Len(us) > 0 => c[Len(a) + 1].at = CodeSize(a)

\* Code of some lines continued by the units of the next.
LEMMA SoundJoin ==
  ASSUME NEW a, NEW i \in Nat, Sound(a, i), NEW us, GoodUnits(us, 0),
         NEW b, b = Placed(us, i, CodeSize(a)), NEW c, c = a \o b
  PROVE  Joined(a, i, us, b, c)
  <1>1. LaidOut(b, us, i, CodeSize(a))
    BY PlacedUnits DEF Sound
  <1>2. PICK to : IsCode(b, CodeSize(a), to)
    BY PlacedIsCode DEF Sound
  <1>3. IsCode(c, 0, to)
    BY <1>2, CodeJoin DEF Sound
  <1>4. /\ Len(a) \in Nat /\ Len(b) \in Nat /\ Len(c) = Len(a) + Len(b)
        /\ \A k \in 1 .. Len(a) : c[k] = a[k]
        /\ \A k \in 1 .. Len(b) : c[Len(a) + k] = b[k]
    BY <1>2, JoinIsSeq DEF Sound, IsCode, GoodUnits
  <1>5. Len(b) = Len(us) /\ \A k \in 1 .. Len(us) : b[k].line = i /\ b[k].target = -1
    BY <1>1 DEF LaidOut
  <1>6. Len(c) >= 1 /\ Len(a) >= 1
    BY <1>4 DEF Sound
  <1>7. CodeSize(c) = to /\ to \in Nat
    BY <1>3, <1>6 DEF IsCode, Contiguous, CodeSize, Last
  <1>8. c[1].line = -1
    <2>1. 1 \in 1 .. Len(a)
      BY <1>4, <1>6
    <2> QED
      BY <1>4, <2>1 DEF Sound
  <1>9. ASSUME NEW k \in 1 .. Len(c)
        PROVE  c[k].line \in -1 .. (i + 1) - 1 /\ c[k].target = -1 /\ (k >= 2 => c[k].line >= 0)
    <2>1. CASE k <= Len(a)
      <3>1. k \in 1 .. Len(a) /\ c[k] = a[k] /\ (k >= 2 => k \in 2 .. Len(a))
        BY <1>4, <2>1
      <3>2. a[k].line \in -1 .. i - 1 /\ a[k].target = -1 /\ (k >= 2 => a[k].line >= 0)
        BY <3>1 DEF Sound
      <3> QED
        BY <3>1, <3>2
    <2>2. CASE k > Len(a)
      <3>1. PICK j : j = k - Len(a)
        OBVIOUS
      <3>2. j \in 1 .. Len(us) /\ k = Len(a) + j
        BY <1>4, <1>5, <2>2, <3>1
      <3>3. c[Len(a) + j] = b[j]
        BY <1>4, <1>5, <3>2
      <3> QED
        BY <1>5, <3>2, <3>3
    <2> QED
      BY <1>4, <2>1, <2>2
  <1>10. Sound(c, i + 1)
    <2>1. \A k \in 2 .. Len(c) : k \in 1 .. Len(c) /\ k >= 2
      BY <1>4
    <2> QED
      BY <1>3, <1>4, <1>6, <1>7, <1>8, <1>9, <2>1 DEF Sound
  <1>11. Len(us) > 0 => c[Len(a) + 1].at = CodeSize(a)
    <2>1. Len(us) > 0 => 1 \in 1 .. Len(b) /\ b[1].at = CodeSize(a)
      BY <1>1, <1>4, <1>5 DEF LaidOut
    <2> QED
      BY <1>4, <2>1
  <1> QED
    BY <1>4, <1>5, <1>10, <1>11 DEF Joined

\* The prologue alone.
LEMMA BegunSound == Sound(Begun.code, 0)
  <1> DEFINE us == <<Prologue>>
             c == Placed(us, -1, 0)
  <1>1. IsUnit(Prologue) /\ ~ToUnit(Prologue)
    <2>1. Plain(4) + Plain(4) \in Nat /\ Plain(4) + Plain(4) >= 1
      BY DEF Plain, Prefix
    <2> QED
      BY <2>1, PlainUnit DEF Prologue
  <1>2. GoodUnits(us, 0)
    BY <1>1, Good1
  <1>3. Len(us) = 1
    OBVIOUS
  <1> HIDE DEF us
  <1>4. LaidOut(c, us, -1, 0)
    BY <1>2, PlacedUnits
  <1>5. PICK to : IsCode(c, 0, to)
    BY <1>2, PlacedIsCode
  <1> HIDE DEF c
  <1>6. Len(c) = 1 /\ c[1].line = -1 /\ c[1].target = -1
    BY <1>3, <1>4 DEF LaidOut
  <1>7. CodeSize(c) = to /\ to \in Nat
    BY <1>5, <1>6 DEF IsCode, Contiguous, CodeSize, Last
  <1>8. Sound(c, 0)
    BY <1>5, <1>6, <1>7 DEF Sound
  <1> QED
    BY <1>8 DEF Begun, c, us

\* The code of i lines and that of one more.
LEMMA NextLine ==
  ASSUME NEW p, IsScript(p), NEW i \in 0 .. Len(p.lines) - 1
  PROVE  /\ CodeOf(p, i + 1) = CodeOf(p, i) \o Placed(LineUnits(p, i, Whole(p)[i].need), i, CodeSize(CodeOf(p, i)))
         /\ Whole(p)[i + 1].need = IF p.lines[i + 1].flag = "Func" THEN FALSE
                                   ELSE Whole(p)[i].need \/ p.lines[i + 1].flag \notin {"UFunc", "CFunc"}
  <1>1. Whole(p)[i + 1] = AfterLine(p, Whole(p)[i], i)
    BY WholeSteps
  <1> PICK w : w = Whole(p)[i]
    OBVIOUS
  <1> DEFINE c == w.code \o Placed(LineUnits(p, i, w.need), i, CodeSize(w.code))
             n == IF p.lines[i + 1].flag = "Func" THEN FALSE
                  ELSE w.need \/ p.lines[i + 1].flag \notin {"UFunc", "CFunc"}
  <1>2. AfterLine(p, w, i) = [code |-> c, need |-> n]
    BY DEF AfterLine
  <1> HIDE DEF c, n
  <1>3. Whole(p)[i + 1].code = c /\ Whole(p)[i + 1].need = n
    BY <1>1, <1>2
  <1> QED
    BY <1>3 DEF c, n, CodeOf

\* The code of the first lines is sound, however many.
LEMMA LinesSound ==
  ASSUME NEW p, IsScript(p)
  PROVE  \A i \in 0 .. Len(p.lines) : Sound(CodeOf(p, i), i)
  <1> DEFINE T == {i \in Nat : i <= Len(p.lines) => Sound(CodeOf(p, i), i)}
  <1>0. Len(p.lines) \in Nat
    BY DEF IsScript
  <1>1. 0 \in T
    BY WholeSteps, BegunSound DEF CodeOf
  <1>2. ASSUME NEW i \in Nat, i \in T PROVE i + 1 \in T
    <2> SUFFICES ASSUME i + 1 <= Len(p.lines) PROVE Sound(CodeOf(p, i + 1), i + 1)
      OBVIOUS
    <2>1. i \in 0 .. Len(p.lines) - 1 /\ Sound(CodeOf(p, i), i)
      BY <1>0, <1>2
    <2>2. GoodUnits(LineUnits(p, i, Whole(p)[i].need), 0)
      BY <2>1, GoodLine
    <2>3. CodeOf(p, i + 1) = CodeOf(p, i) \o Placed(LineUnits(p, i, Whole(p)[i].need), i, CodeSize(CodeOf(p, i)))
      BY <2>1, NextLine
    <2> QED
      BY <2>1, <2>2, <2>3, SoundJoin DEF Joined
  <1> HIDE DEF T
  <1>3. \A i \in Nat : i \in T
    BY <1>1, <1>2, Induction
  <1> QED
    BY <1>0, <1>3 DEF T

\* Code of fewer lines is the beginning of code of more, and what follows
\* belongs to the later lines.
LEMMA EarlierLines ==
  ASSUME NEW p, IsScript(p), NEW l \in 0 .. Len(p.lines)
  PROVE  \A i \in l .. Len(p.lines) :
           /\ Len(CodeOf(p, l)) <= Len(CodeOf(p, i))
           /\ \A k \in 1 .. Len(CodeOf(p, l)) : CodeOf(p, i)[k] = CodeOf(p, l)[k]
           /\ \A k \in Len(CodeOf(p, l)) + 1 .. Len(CodeOf(p, i)) : CodeOf(p, i)[k].line >= l
           /\ Len(CodeOf(p, i)) > Len(CodeOf(p, l)) =>
                CodeOf(p, i)[Len(CodeOf(p, l)) + 1].at = CodeSize(CodeOf(p, l))
           /\ Len(CodeOf(p, i)) = Len(CodeOf(p, l)) => CodeSize(CodeOf(p, i)) = CodeSize(CodeOf(p, l))
  <1> DEFINE a == CodeOf(p, l)
             m == Len(a)
             size == CodeSize(a)
             Extends(c) == /\ m <= Len(c)
                           /\ \A k \in 1 .. m : c[k] = a[k]
                           /\ \A k \in m + 1 .. Len(c) : c[k].line >= l
                           /\ Len(c) > m => c[m + 1].at = size
                           /\ Len(c) = m => CodeSize(c) = size
             T == {d \in Nat : l + d <= Len(p.lines) => Extends(CodeOf(p, l + d))}
  <1>0. Len(p.lines) \in Nat /\ l \in Nat
    BY DEF IsScript
  <1>1. Sound(a, l) /\ m \in Nat
    BY LinesSound DEF Sound
  <1> HIDE DEF a
  <1>2. 0 \in T
    <2>1. Extends(a)
      BY <1>1
    <2>2. l + 0 = l
      BY <1>0
    <2> QED
      BY <2>1, <2>2 DEF a
  <1>3. ASSUME NEW d \in Nat, d \in T PROVE d + 1 \in T
    <2> SUFFICES ASSUME l + (d + 1) <= Len(p.lines) PROVE Extends(CodeOf(p, l + (d + 1)))
      OBVIOUS
    <2>1. PICK i : i = l + d
      OBVIOUS
    <2>2. i \in 0 .. Len(p.lines) - 1 /\ i \in 0 .. Len(p.lines) /\ i \in Nat /\ i >= l
          /\ l + (d + 1) = i + 1 /\ l + d <= Len(p.lines)
      BY <1>0, <2>1
    <2> DEFINE c == CodeOf(p, i)
               us == LineUnits(p, i, Whole(p)[i].need)
               e == CodeOf(p, i + 1)
    <2>3. Extends(c)
      BY <1>3, <2>1, <2>2
    <2>4. GoodUnits(us, 0) /\ Sound(c, i)
      BY <2>2, GoodLine, LinesSound
    <2>5. e = c \o Placed(us, i, CodeSize(c))
      BY <2>2, NextLine
    <2> HIDE DEF us, c, e
    <2> PICK b : b = Placed(us, i, CodeSize(c))
      OBVIOUS
    <2>6. /\ Sound(e, i + 1) /\ Len(e) = Len(c) + Len(us)
          /\ \A k \in 1 .. Len(c) : e[k] = c[k]
          /\ \A k \in 1 .. Len(us) : e[Len(c) + k].line = i
          /\ Len(us) > 0 => e[Len(c) + 1].at = CodeSize(c)
      <3>1. e = c \o b
        BY <2>5
      <3>2. Joined(c, i, us, b, e)
        BY <2>2, <2>4, <3>1, SoundJoin
      <3> QED
        BY <3>2 DEF Joined
    <2>7. Len(us) \in Nat /\ Len(c) \in Nat
      BY <2>4 DEF GoodUnits, IsSeq, Sound
    <2>8. m <= Len(e)
      BY <1>1, <2>3, <2>6, <2>7
    <2>9. \A k \in 1 .. m : e[k] = a[k]
      <3>1. \A k \in 1 .. m : k \in 1 .. Len(c)
        BY <1>1, <2>3, <2>7
      <3> QED
        BY <2>3, <2>6, <3>1
    <2>10. ASSUME NEW k \in m + 1 .. Len(e) PROVE e[k].line >= l
      <3>1. CASE k <= Len(c)
        <4>1. k \in 1 .. Len(c) /\ k \in m + 1 .. Len(c)
          BY <1>1, <2>7, <3>1
        <4> QED
          BY <2>3, <2>6, <4>1
      <3>2. CASE k > Len(c)
        <4>1. PICK j : j = k - Len(c)
          OBVIOUS
        <4>2. j \in 1 .. Len(us) /\ k = Len(c) + j
          BY <1>1, <2>6, <2>7, <3>2, <4>1
        <4>3. e[Len(c) + j].line = i
          BY <2>6, <4>2
        <4> QED
          BY <2>2, <4>2, <4>3
      <3> QED
        BY <1>1, <2>7, <3>1, <3>2
    <2>11. Len(e) > m => e[m + 1].at = size
      <3>1. CASE Len(c) > m
        <4>1. m + 1 \in 1 .. Len(c)
          BY <1>1, <2>7, <3>1
        <4> QED
          BY <2>3, <2>6, <3>1, <4>1
      <3>2. CASE Len(c) = m
        BY <1>1, <2>3, <2>6, <2>7, <3>2
      <3> QED
        BY <1>1, <2>3, <2>7, <3>1, <3>2
    <2>12. Len(e) = m => CodeSize(e) = size
      <3> SUFFICES ASSUME Len(e) = m PROVE CodeSize(e) = size
        OBVIOUS
      <3>1. Len(us) = 0 /\ Len(c) = m
        BY <1>1, <2>3, <2>6, <2>7
      <3>2. m >= 1 /\ m \in 1 .. Len(c)
        BY <1>1, <3>1 DEF Sound
      <3>3. e[m] = c[m]
        BY <2>6, <3>2
      <3>4. CodeSize(e) = CodeSize(c)
        BY <3>1, <3>3 DEF CodeSize, Last
      <3> QED
        BY <2>3, <3>1, <3>4
    <2>13. Extends(e)
      BY <2>8, <2>9, <2>10, <2>11, <2>12
    <2> HIDE DEF Extends
    <2> QED
      BY <2>2, <2>13 DEF e
  <1> HIDE DEF T
  <1>4. \A d \in Nat : d \in T
    BY <1>2, <1>3, Induction
  <1>5. ASSUME NEW i \in l .. Len(p.lines) PROVE Extends(CodeOf(p, i))
    <2>1. PICK d : d = i - l
      OBVIOUS
    <2>2. d \in Nat /\ i = l + d /\ l + d <= Len(p.lines)
      BY <1>0, <2>1
    <2>3. d \in T
      BY <1>4, <2>2
    <2>4. Extends(CodeOf(p, l + d))
      BY <2>2, <2>3 DEF T
    <2> HIDE DEF Extends
    <2> QED
      BY <2>2, <2>4
  <1> QED
    BY <1>5 DEF a

-----------------------------------------------------------------------------
\* Code c of n lines, with the epilogue as line n: where the code of line l begins.
BeginsAt(c, l, m, size) ==
  /\ m \in Nat /\ m >= 1 /\ m + 1 <= Len(c)
  /\ c[m + 1].at = size
  /\ \A k \in 1 .. m : c[k].line < l
  /\ \A k \in m + 1 .. Len(c) : c[k].line >= l

\* The epilogue is two units.
LEMMA GoodEpilogue == GoodUnits(Epilogue, 0) /\ Len(Epilogue) = 2
  <1> DEFINE u == Unit("leave", Plain(4) + Plain(4))
             v == Unit("retn", RetnLength)
  <1>1. IsUnit(u) /\ ~ToUnit(u) /\ IsUnit(v) /\ ~ToUnit(v)
    <2>1. Plain(4) + Plain(4) \in Nat /\ Plain(4) + Plain(4) >= 1 /\ RetnLength \in Nat /\ RetnLength >= 1
      BY DEF Plain, Prefix, RetnLength
    <2> QED
      BY <2>1, PlainUnit
  <1>2. Epilogue = <<u, v>>
    BY DEF Epilogue
  <1> HIDE DEF u, v
  <1> QED
    BY <1>1, <1>2, Good2

\* The whole code is sound, and the code of each line begins where the code of
\* the lines before it ends.
LEMMA FullSound ==
  ASSUME NEW p, IsScript(p)
  PROVE  /\ Sound(FullCode(p), Len(p.lines) + 1)
         /\ \A l \in 0 .. Len(p.lines) :
              BeginsAt(FullCode(p), l, Len(CodeOf(p, l)), CodeSize(CodeOf(p, l)))
  <1> DEFINE n == Len(p.lines)
             a == CodeOf(p, n)
             c == FullCode(p)
  <1>0. n \in Nat
    BY DEF IsScript
  <1> PICK b : b = Placed(Epilogue, n, CodeSize(a))
    OBVIOUS
  <1>1. Sound(a, n)
    BY <1>0, LinesSound
  <1>2. c = a \o b
    BY DEF FullCode
  <1>3. Joined(a, n, Epilogue, b, c)
    <2> HIDE DEF a, c
    <2> QED
      BY <1>0, <1>1, <1>2, GoodEpilogue, SoundJoin
  <1> HIDE DEF c
  <1>4. /\ Sound(c, n + 1) /\ Len(c) = Len(a) + 2 /\ Len(a) \in Nat
        /\ \A k \in 1 .. Len(a) : c[k] = a[k]
        /\ \A k \in 1 .. 2 : c[Len(a) + k].line = n
        /\ c[Len(a) + 1].at = CodeSize(a)
    BY <1>1, <1>3, GoodEpilogue DEF Joined, Sound
  <1>5. ASSUME NEW l \in 0 .. n
        PROVE  BeginsAt(c, l, Len(CodeOf(p, l)), CodeSize(CodeOf(p, l)))
    <2> DEFINE s == CodeOf(p, l)
               m == Len(s)
    <2>1. /\ m <= Len(a)
          /\ \A k \in 1 .. m : a[k] = s[k]
          /\ \A k \in m + 1 .. Len(a) : a[k].line >= l
          /\ Len(a) > m => a[m + 1].at = CodeSize(s)
          /\ Len(a) = m => CodeSize(a) = CodeSize(s)
      <3>1. n \in l .. n
        BY <1>0
      <3> QED
        BY <3>1, EarlierLines
    <2>2. Sound(s, l)
      BY LinesSound
    <2> HIDE DEF s, a
    <2>3. m \in Nat /\ m >= 1 /\ m + 1 <= Len(c)
      BY <1>4, <2>1, <2>2 DEF Sound
    <2>4. c[m + 1].at = CodeSize(s)
      <3>1. CASE m = Len(a)
        BY <1>4, <2>1, <3>1
      <3>2. CASE m < Len(a)
        <4>1. m + 1 \in 1 .. Len(a)
          BY <1>4, <2>3, <3>2
        <4> QED
          BY <1>4, <2>1, <3>2, <4>1
      <3> QED
        BY <1>4, <2>1, <2>3, <3>1, <3>2
    <2>5. ASSUME NEW k \in 1 .. m PROVE c[k].line < l
      <3>1. k \in 1 .. Len(a) /\ c[k] = s[k]
        BY <1>4, <2>1, <2>3
      <3>2. s[k].line \in -1 .. l - 1
        BY <2>2 DEF Sound
      <3> QED
        BY <3>1, <3>2
    <2>6. ASSUME NEW k \in m + 1 .. Len(c) PROVE c[k].line >= l
      <3>1. CASE k <= Len(a)
        <4>1. k \in m + 1 .. Len(a) /\ k \in 1 .. Len(a)
          BY <1>4, <2>3, <3>1
        <4> QED
          BY <1>4, <2>1, <4>1
      <3>2. CASE k > Len(a)
        <4>1. PICK j : j = k - Len(a)
          OBVIOUS
        <4>2. j \in 1 .. 2 /\ k = Len(a) + j
          BY <1>4, <2>3, <3>2, <4>1
        <4>3. c[Len(a) + j].line = n
          BY <1>4, <4>2
        <4> QED
          BY <1>0, <4>2, <4>3
      <3> QED
        BY <1>4, <2>3, <3>1, <3>2
    <2> QED
      BY <2>3, <2>4, <2>5, <2>6 DEF BeginsAt, s
  <1> QED
    BY <1>4, <1>5 DEF c

\* What func_offsets_ holds: where the code of each line begins, counted from 1.
Offsets(p, fo) ==
  /\ IsSeq(fo)
  /\ \A l \in 0 .. Len(fo) - 1 : fo[l + 1] = CodeSize(CodeOf(p, l)) + 1

\* Where a jump must go: e is the finished code.
GoesRight(p, e, k) ==
  /\ ToUnit(e[k]) => k + e[k].to[2] \in 1 .. Len(e) /\ e[k].target = e[k + e[k].to[2]].at
  /\ ToLine(e[k]) => e[k].target = IF e[k].to[2] < Len(p.lines)
                                   THEN CodeSize(CodeOf(p, e[k].to[2])) ELSE -1

SameButTarget(e, c) ==
  /\ IsSeq(e) /\ Len(e) = Len(c)
  /\ \A k \in 1 .. Len(c) : e[k] = [c[k] EXCEPT !.target = e[k].target]

\* A patch changes nothing of a unit but its target.
LEMMA AimedUnit ==
  ASSUME NEW u, IsPlaced(u), NEW r, NEW fo
  PROVE  /\ Aimed(u, r, fo) = [u EXCEPT !.target = Aimed(u, r, fo).target]
         /\ Aimed(u, r, fo).target = IF Known(r, fo) THEN r.first + 4 + Rel(r, fo) ELSE -1
         /\ u = [u EXCEPT !.target = u.target]
  BY DEF IsPlaced, Aimed

\* PatchJmp: the displacement of a jump, with places counted from 1.
LEMMA Sums ==
  ASSUME NEW f \in Int, NEW s \in Int
  PROVE  f + 4 + (0 - (f - s) - (4 + 1)) = s - 1
  OBVIOUS

\* The code after PatchJmp, if the requests are those of this script.
LEMMA FinishedCode ==
  ASSUME NEW p, IsScript(p), NEW ps, IsSeq(ps), NEW fo, Offsets(p, fo), Len(fo) = Len(p.lines),
         \A n \in 1 .. Len(ps) : RequestOf(FullCode(p), ps[n]),
         AllRequested(FullCode(p), ps),
         NEW e, e = Patched(FullCode(p), ps, fo)
  PROVE  /\ SameButTarget(e, FullCode(p))
         /\ \A k \in 1 .. Len(e) : GoesRight(p, e, k)
  <1> DEFINE c == FullCode(p)
  <1>1. Sound(c, Len(p.lines) + 1)
    BY FullSound
  <1> HIDE DEF c
  <1>2. IsCode(c, 0, CodeSize(c)) /\ Len(c) \in Nat
    BY <1>1 DEF Sound
  <1>3. /\ IsSeq(e) /\ Len(e) = Len(c)
        /\ \A k \in 1 .. Len(c) :
             e[k] = IF Jumps(c[k]) THEN Aimed(c[k], Request(c, k), fo) ELSE c[k]
    BY <1>2, PatchedCode DEF c
  <1>4. \A k \in 1 .. Len(c) :
           /\ IsPlaced(c[k]) /\ IsUnit(c[k]) /\ c[k].target = -1
           /\ ToUnit(c[k]) => k + c[k].to[2] <= Len(c) + 0
    BY <1>1, <1>2 DEF IsCode, Contiguous, GoodUnits, Sound
  <1>5. ASSUME NEW k \in 1 .. Len(c)
        PROVE  e[k] = [c[k] EXCEPT !.target = e[k].target]
    <2>1. CASE Jumps(c[k])
      <3>1. PICK r : r = Request(c, k)
        OBVIOUS
      <3>2. e[k] = Aimed(c[k], r, fo)
        BY <1>3, <2>1, <3>1
      <3>3. Aimed(c[k], r, fo) = [c[k] EXCEPT !.target = Aimed(c[k], r, fo).target]
        BY <1>4, AimedUnit
      <3> QED
        BY <3>2, <3>3
    <2>2. CASE ~Jumps(c[k])
      <3>1. e[k] = c[k]
        BY <1>3, <2>2
      <3>2. c[k] = [c[k] EXCEPT !.target = c[k].target]
        BY <1>4, AimedUnit
      <3> QED
        BY <3>1, <3>2
    <2> QED
      BY <2>1, <2>2
  <1>6. ASSUME NEW k \in 1 .. Len(c)
        PROVE  /\ e[k].op = c[k].op /\ e[k].arg = c[k].arg /\ e[k].to = c[k].to
               /\ e[k].line = c[k].line /\ e[k].at = c[k].at /\ e[k].length = c[k].length
    BY <1>4, <1>5 DEF IsPlaced
  <1>7. ASSUME NEW k \in 1 .. Len(c), Jumps(c[k]), NEW r, r = Request(c, k)
        PROVE  e[k].target = IF Known(r, fo) THEN r.first + 4 + Rel(r, fo) ELSE -1
    BY <1>3, <1>4, <1>7, AimedUnit
  <1>8. ASSUME NEW k \in 1 .. Len(c), ToUnit(c[k])
        PROVE  k + c[k].to[2] \in 1 .. Len(c) /\ e[k].target = c[k + c[k].to[2]].at
    <2>1. PICK t : t = c[k].to[2]
      OBVIOUS
    <2>2. t \in Nat /\ t >= 1 /\ k + t <= Len(c)
      BY <1>2, <1>4, <1>8, <2>1 DEF IsUnit
    <2>3. PICK d : d = k + t - 1
      OBVIOUS
    <2>4. d \in 1 .. Len(c) /\ d \in 1 .. Len(c) - 1 /\ d + 1 = k + t /\ k + t \in 1 .. Len(c)
      BY <1>2, <2>2, <2>3
    <2>5. c[d + 1].at = c[d].at + c[d].length
      BY <1>2, <2>4 DEF IsCode, Contiguous
    <2>6. PICK r : r = Request(c, k)
      OBVIOUS
    <2>7. r = [first |-> Field(c[k]), offset |-> TRUE, second |-> c[d].at + c[d].length + 1]
      BY <1>8, <2>1, <2>3, <2>6 DEF Request, ToUnit
    <2>8. r.first = c[k].at + c[k].length - 4 /\ r.second = c[d].at + c[d].length + 1 /\ r.offset = TRUE
      BY <2>7 DEF Field
    <2>9. /\ c[k].at \in Nat /\ c[k].length \in Nat /\ c[d].at \in Nat /\ c[d].length \in Nat
      BY <1>4, <2>4 DEF IsPlaced, IsUnit
    <2>10. e[k].target = r.first + 4 + Rel(r, fo)
      BY <1>7, <1>8, <2>6, <2>8 DEF Known, ToUnit
    <2>11. Rel(r, fo) = 0 - (r.first - r.second) - (4 + 1)
      BY <2>8 DEF Rel
    <2>12. e[k].target = c[d].at + c[d].length
      <3>1. Field(c[k]) \in Int /\ c[d].at + c[d].length + 1 \in Int
        BY <2>9, SMTT(30) DEF Field
      <3>2. r.first = Field(c[k]) /\ r.second = c[d].at + c[d].length + 1
        BY <2>7
      <3>3. e[k].target = r.second - 1
        BY <2>10, <2>11, <3>1, <3>2, Sums
      <3> QED
        BY <2>9, <3>2, <3>3
    <2> QED
      BY <2>1, <2>4, <2>5, <2>12
  <1>9. ASSUME NEW k \in 1 .. Len(c), ToLine(c[k])
        PROVE  e[k].target = IF c[k].to[2] < Len(p.lines) THEN CodeSize(CodeOf(p, c[k].to[2])) ELSE -1
    <2>1. PICK l : l = c[k].to[2]
      OBVIOUS
    <2>2. l \in Nat
      BY <1>4, <1>9, <2>1 DEF IsUnit
    <2>3. PICK r : r = Request(c, k)
      OBVIOUS
    <2>4. r = [first |-> Field(c[k]), second |-> l, offset |-> FALSE]
      BY <1>9, <2>1, <2>3 DEF Request, ToLine
    <2>5. r.first = c[k].at + c[k].length - 4 /\ r.second = l /\ r.offset = FALSE
      BY <2>4 DEF Field
    <2>6. Jumps(c[k])
      BY <1>9 DEF ToLine
    <2>7. Len(p.lines) \in Nat
      BY DEF IsScript
    <2>8. CASE l < Len(p.lines)
      <3>1. l \in 0 .. Len(fo) - 1 /\ l \in 0 .. Len(p.lines)
        BY <2>2, <2>7, <2>8
      <3>2. fo[l + 1] = CodeSize(CodeOf(p, l)) + 1
        BY <3>1 DEF Offsets
      <3>3. CodeSize(CodeOf(p, l)) \in Nat
        BY <3>1, LinesSound DEF Sound
      <3>4. e[k].target = r.first + 4 + Rel(r, fo)
        BY <1>7, <2>3, <2>5, <2>6, <3>1 DEF Known
      <3>5. Rel(r, fo) = 0 - (r.first - fo[l + 1]) - (4 + 1)
        BY <2>5 DEF Rel
      <3>6. r.first \in Int
        <4>1. c[k].at \in Nat /\ c[k].length \in Nat
          BY <1>4 DEF IsPlaced, IsUnit
        <4>2. Field(c[k]) \in Int
          BY <4>1 DEF Field
        <4> QED
          BY <2>4, <4>2
      <3>7. e[k].target = CodeSize(CodeOf(p, l))
        <4>1. fo[l + 1] \in Int
          BY <3>2, <3>3
        <4>2. e[k].target = fo[l + 1] - 1
          BY <3>4, <3>5, <3>6, <4>1, Sums
        <4> QED
          BY <3>2, <3>3, <4>2
      <3> QED
        BY <2>1, <2>8, <3>7
    <2>9. CASE ~(l < Len(p.lines))
      <3>1. ~(l \in 0 .. Len(fo) - 1)
        BY <2>2, <2>7, <2>9
      <3>2. ~Known(r, fo)
        BY <2>5, <3>1 DEF Known
      <3>3. e[k].target = -1
        BY <1>7, <2>3, <2>6, <3>2
      <3> QED
        BY <2>1, <2>9, <3>3
    <2> QED
      BY <2>8, <2>9
  <1>10. ASSUME NEW k \in 1 .. Len(e) PROVE GoesRight(p, e, k)
    <2>1. k \in 1 .. Len(c) /\ e[k].to = c[k].to
      BY <1>3, <1>6
    <2>2. (ToUnit(e[k]) <=> ToUnit(c[k])) /\ (ToLine(e[k]) <=> ToLine(c[k]))
      BY <2>1 DEF ToUnit, ToLine, Jumps
    <2>3. ASSUME ToUnit(e[k])
          PROVE  k + e[k].to[2] \in 1 .. Len(e) /\ e[k].target = e[k + e[k].to[2]].at
      <3>1. k + c[k].to[2] \in 1 .. Len(c) /\ e[k].target = c[k + c[k].to[2]].at
        BY <1>8, <2>1, <2>2, <2>3
      <3> QED
        BY <1>3, <1>6, <2>1, <3>1
    <2>4. ASSUME ToLine(e[k])
          PROVE  e[k].target = IF e[k].to[2] < Len(p.lines) THEN CodeSize(CodeOf(p, e[k].to[2])) ELSE -1
      BY <1>9, <2>1, <2>2, <2>4
    <2> QED
      BY <2>3, <2>4 DEF GoesRight
  <1> QED
    BY <1>3, <1>5, <1>10 DEF SameButTarget, c

-----------------------------------------------------------------------------
\* The translator.
Now == IF status = "idle" THEN before ELSE before \cup {script}

\* Every request is one of a script translated so far.
PatchesKnown ==
  /\ IsSeq(patch_jmp_)
  /\ \A n \in 1 .. Len(patch_jmp_) : \E s \in Now : RequestOf(FullCode(Programs[s]), patch_jmp_[n])

Translated ==
  /\ next \in 0 .. Len(Lines)
  /\ mcode_ = CodeOf(Program, next)
  /\ need_realignment = Whole(Program)[next].need
  /\ Offsets(Program, func_offsets_) /\ Len(func_offsets_) = next
  /\ AllRequested(mcode_, patch_jmp_)

Finished ==
  /\ next = Len(Lines)
  /\ Offsets(Program, func_offsets_) /\ Len(func_offsets_) = next
  /\ AllRequested(FullCode(Program), patch_jmp_)
  /\ mcode_ = Patched(FullCode(Program), patch_jmp_, func_offsets_)

TransInv ==
  /\ status \in {"idle", "translating", "running", "terminated", "wild"}
  /\ script \in DOMAIN Programs /\ before \subseteq DOMAIN Programs
  /\ PatchesKnown
  /\ status = "translating" => Translated
  /\ status = "running" => Finished

\* An element of two joined sequences is one of either.
LEMMA Joins ==
  ASSUME NEW a, IsSeq(a), NEW b, IsSeq(b), NEW n \in 1 .. Len(a \o b)
  PROVE  \/ \E k \in 1 .. Len(a) : (a \o b)[n] = a[k]
         \/ \E k \in 1 .. Len(b) : (a \o b)[n] = b[k]
  <1>1. /\ Len(a) \in Nat /\ Len(b) \in Nat /\ Len(a \o b) = Len(a) + Len(b)
        /\ \A k \in 1 .. Len(a) : (a \o b)[k] = a[k]
        /\ \A k \in 1 .. Len(b) : (a \o b)[Len(a) + k] = b[k]
    BY JoinIsSeq
  <1>2. CASE n <= Len(a)
    <2>1. n \in 1 .. Len(a)
      BY <1>1, <1>2
    <2> QED
      BY <1>1, <2>1
  <1>3. CASE n > Len(a)
    <2>1. PICK j : j = n - Len(a)
      OBVIOUS
    <2>2. j \in 1 .. Len(b) /\ n = Len(a) + j
      BY <1>1, <1>3, <2>1
    <2>3. (a \o b)[Len(a) + j] = b[j]
      BY <1>1, <2>2
    <2> QED
      BY <2>2, <2>3
  <1> QED
    BY <1>1, <1>2, <1>3

\* The requests of the units of a line are requests of the whole code.
LEMMA LineRequests ==
  ASSUME NEW p, IsScript(p), NEW i \in 0 .. Len(p.lines),
         NEW k \in 1 .. Len(CodeOf(p, i)), Jumps(CodeOf(p, i)[k])
  PROVE  RequestOf(FullCode(p), Request(CodeOf(p, i), k))
  <1> DEFINE T == {d \in Nat : i + d <= Len(p.lines) =>
                     /\ k \in 1 .. Len(CodeOf(p, i + d)) /\ Jumps(CodeOf(p, i + d)[k])
                     /\ Request(CodeOf(p, i + d), k) = Request(CodeOf(p, i), k)}
             n == Len(p.lines)
  <1>0. n \in Nat /\ i \in Nat
    BY DEF IsScript
  <1>1. 0 \in T
    <2>1. i + 0 = i
      BY <1>0
    <2> QED
      BY <2>1
  <1>2. ASSUME NEW d \in Nat, d \in T PROVE d + 1 \in T
    <2> SUFFICES ASSUME i + (d + 1) <= n
                 PROVE  /\ k \in 1 .. Len(CodeOf(p, i + (d + 1))) /\ Jumps(CodeOf(p, i + (d + 1))[k])
                        /\ Request(CodeOf(p, i + (d + 1)), k) = Request(CodeOf(p, i), k)
      OBVIOUS
    <2>1. PICK j : j = i + d
      OBVIOUS
    <2>2. j \in 0 .. n - 1 /\ j \in 0 .. n /\ i + (d + 1) = j + 1 /\ i + d <= n /\ j \in Nat
      BY <1>0, <2>1
    <2>3. /\ k \in 1 .. Len(CodeOf(p, j)) /\ Jumps(CodeOf(p, j)[k])
          /\ Request(CodeOf(p, j), k) = Request(CodeOf(p, i), k)
      BY <1>2, <2>1, <2>2
    <2>4. PICK us : us = LineUnits(p, j, Whole(p)[j].need)
      OBVIOUS
    <2>5. PICK b : b = Placed(us, j, CodeSize(CodeOf(p, j)))
      OBVIOUS
    <2>6. CodeOf(p, j + 1) = CodeOf(p, j) \o b
      BY <2>2, <2>4, <2>5, NextLine
    <2>7. GoodUnits(us, 0) /\ Sound(CodeOf(p, j), j)
      BY <2>2, <2>4, GoodLine, LinesSound
    <2>8. PICK to : IsCode(b, CodeSize(CodeOf(p, j)), to)
      BY <2>5, <2>7, PlacedIsCode DEF Sound
    <2>9. GoodUnits(CodeOf(p, j), 0) /\ GoodUnits(b, 0)
      BY <2>7, <2>8 DEF Sound, IsCode
    <2>10. Request(CodeOf(p, j) \o b, k) = Request(CodeOf(p, j), k)
      BY <2>3, <2>9, RequestsOfJoin
    <2>11. /\ Len(CodeOf(p, j) \o b) = Len(CodeOf(p, j)) + Len(b) /\ Len(b) \in Nat
           /\ Len(CodeOf(p, j)) \in Nat /\ (CodeOf(p, j) \o b)[k] = CodeOf(p, j)[k]
      BY <2>3, <2>9, JoinIsSeq DEF GoodUnits
    <2>12. k \in 1 .. Len(CodeOf(p, j) \o b)
      BY <2>3, <2>11
    <2> QED
      BY <2>2, <2>3, <2>6, <2>10, <2>11, <2>12
  <1> HIDE DEF T
  <1>3. \A d \in Nat : d \in T
    BY <1>1, <1>2, Induction
  <1>4. PICK d : d = n - i
    OBVIOUS
  <1>5. d \in Nat /\ i + d = n
    BY <1>0, <1>4
  <1>6. /\ k \in 1 .. Len(CodeOf(p, n)) /\ Jumps(CodeOf(p, n)[k])
        /\ Request(CodeOf(p, n), k) = Request(CodeOf(p, i), k)
    <2>1. d \in T
      BY <1>3, <1>5
    <2> QED
      BY <1>0, <1>5, <2>1 DEF T
  <1>7. PICK b : b = Placed(Epilogue, n, CodeSize(CodeOf(p, n)))
    OBVIOUS
  <1>8. FullCode(p) = CodeOf(p, n) \o b
    BY <1>7 DEF FullCode
  <1>9. Sound(CodeOf(p, n), n)
    BY <1>0, LinesSound
  <1>10. PICK to : IsCode(b, CodeSize(CodeOf(p, n)), to)
    BY <1>7, <1>9, GoodEpilogue, PlacedIsCode DEF Sound
  <1>11. GoodUnits(CodeOf(p, n), 0) /\ GoodUnits(b, 0)
    BY <1>9, <1>10 DEF Sound, IsCode
  <1>12. Request(CodeOf(p, n) \o b, k) = Request(CodeOf(p, n), k)
    BY <1>6, <1>11, RequestsOfJoin
  <1>13. /\ Len(CodeOf(p, n) \o b) = Len(CodeOf(p, n)) + Len(b) /\ Len(b) \in Nat
         /\ Len(CodeOf(p, n)) \in Nat /\ (CodeOf(p, n) \o b)[k] = CodeOf(p, n)[k]
    BY <1>6, <1>11, JoinIsSeq DEF GoodUnits
  <1>14. k \in 1 .. Len(CodeOf(p, n) \o b)
    BY <1>6, <1>13
  <1> QED
    BY <1>6, <1>8, <1>12, <1>13, <1>14 DEF RequestOf

\* The scripts given to a processor are scripts.
LEMMA ProgramIsScript ==
  ASSUME NEW s \in DOMAIN Programs
  PROVE  IsScript(Programs[s])
  BY ScriptsAssumption

\* The translator's invariant holds at first.
LEMMA InitTrans == Init => TransInv
  <1> SUFFICES ASSUME Init PROVE TransInv
    OBVIOUS
  <1>1. IsSeq(patch_jmp_) /\ Len(patch_jmp_) = 0
    <2>1. patch_jmp_ = <<>>
      BY DEF Init
    <2> QED
      BY <2>1, <<>> \in Seq({}), OfRange
  <1>2. PatchesKnown
    BY <1>1 DEF PatchesKnown
  <1> QED
    BY <1>2 DEF Init, TransInv

\* A new script: the requests of the earlier ones stay.
LEMMA BeginTrans ==
  ASSUME TransInv, Begin
  PROVE  TransInv'
  <1>1. status = "idle" /\ status' = "translating" /\ script' \in DOMAIN Programs
        /\ before' = before /\ patch_jmp_' = patch_jmp_ /\ next' = 0 /\ need_realignment' = FALSE
        /\ func_offsets_' = <<>> /\ mcode_' = Placed(<<Prologue>>, -1, 0)
    BY DEF Begin
  <1>2. PatchesKnown'
    <2>1. \A s \in Now : s \in Now'
      BY <1>1 DEF Now
    <2> QED
      BY <1>1, <2>1 DEF PatchesKnown, TransInv
  <1>3. Translated'
    <2>1. PICK p : p = Program'
      OBVIOUS
    <2>2. IsScript(p) /\ p = Programs[script']
      BY <1>1, <2>1, ProgramIsScript DEF Program
    <2>3. Lines' = p.lines /\ Len(p.lines) \in Nat
      BY <2>1, <2>2 DEF Lines, IsScript
    <2>4. Whole(p)[0] = Begun
      BY <2>2, WholeSteps
    <2>5. CodeOf(p, 0) = mcode_' /\ Whole(p)[0].need = FALSE
      BY <1>1, <2>4 DEF CodeOf, Begun
    <2>6. IsSeq(func_offsets_') /\ Len(func_offsets_') = 0
      BY <1>1, <<>> \in Seq({}), OfRange
    <2>7. Offsets(p, func_offsets_')
      BY <2>6 DEF Offsets
    <2>8. AllRequested(mcode_', patch_jmp_')
      <3>1. GoodUnits(<<Prologue>>, 0) /\ ~Jumps(Prologue)
        <4>1. Plain(4) + Plain(4) \in Nat /\ Plain(4) + Plain(4) >= 1
          BY DEF Plain, Prefix
        <4>2. IsUnit(Prologue) /\ ~ToUnit(Prologue) /\ ~Jumps(Prologue)
          BY <4>1, PlainUnit DEF Prologue
        <4> QED
          BY <4>2, Good1
      <3>2. LaidOut(mcode_', <<Prologue>>, -1, 0)
        BY <1>1, <3>1, PlacedUnits
      <3>3. \A k \in 1 .. Len(mcode_') : k = 1 /\ mcode_'[k].to = Prologue.to
        BY <3>2 DEF LaidOut
      <3> QED
        BY <3>1, <3>3 DEF AllRequested, Jumps
    <2>9. next' \in 0 .. Len(Lines') /\ Len(func_offsets_') = next'
      BY <1>1, <2>3, <2>6
    <2>10. mcode_' = CodeOf(Program', next') /\ need_realignment' = Whole(Program')[next'].need
      BY <1>1, <2>1, <2>5
    <2>11. Offsets(Program', func_offsets_')
      BY <2>1, <2>7
    <2> QED
      BY <2>8, <2>9, <2>10, <2>11 DEF Translated
  <1> QED
    BY <1>1, <1>2, <1>3 DEF TransInv

\* A line is translated.
LEMMA TranslateTrans ==
  ASSUME TransInv, Translate
  PROVE  TransInv'
  <1>1. /\ status = "translating" /\ status' = status /\ next < Len(Lines)
        /\ script' = script /\ before' = before /\ next' = next + 1
    BY DEF Translate
  <1>2. PICK p : p = Program
    OBVIOUS
  <1>3. IsScript(p) /\ Program' = p /\ p = Programs[script]
    BY <1>1, <1>2, ProgramIsScript DEF Program, TransInv
  <1>4. Lines = p.lines /\ Lines' = p.lines /\ Len(p.lines) \in Nat
    BY <1>2, <1>3 DEF Lines, IsScript
  <1>5. PICK a, i : a = mcode_ /\ i = next
    OBVIOUS
  <1>6. /\ i \in 0 .. Len(p.lines) - 1 /\ i \in 0 .. Len(p.lines) /\ i + 1 \in 0 .. Len(p.lines)
        /\ i \in Nat /\ a = CodeOf(p, i) /\ need_realignment = Whole(p)[i].need
        /\ Offsets(p, func_offsets_) /\ Len(func_offsets_) = i /\ AllRequested(a, patch_jmp_)
    BY <1>1, <1>2, <1>4, <1>5 DEF TransInv, Translated
  <1>7. PICK us : us = LineUnits(p, i, Whole(p)[i].need)
    OBVIOUS
  <1>8. PICK b : b = Placed(us, i, CodeSize(a))
    OBVIOUS
  <1>9. mcode_' = a \o b /\ patch_jmp_' = patch_jmp_ \o Requests(b)
    BY <1>2, <1>5, <1>6, <1>7, <1>8 DEF Translate
  <1>10. mcode_' = CodeOf(p, i + 1)
    BY <1>3, <1>6, <1>7, <1>8, <1>9, NextLine
  <1>11. GoodUnits(us, 0) /\ Sound(a, i)
    BY <1>3, <1>6, <1>7, GoodLine, LinesSound
  <1>12. PICK to : IsCode(b, CodeSize(a), to)
    BY <1>8, <1>11, PlacedIsCode DEF Sound
  <1>13. GoodUnits(a, 0) /\ GoodUnits(b, 0) /\ IsSeq(a) /\ IsSeq(b)
    BY <1>11, <1>12 DEF Sound, IsCode, GoodUnits
  <1>14. /\ Len(a) \in Nat /\ Len(b) \in Nat /\ Len(a \o b) = Len(a) + Len(b)
         /\ \A k \in 1 .. Len(a) : (a \o b)[k] = a[k]
         /\ \A k \in 1 .. Len(b) : (a \o b)[Len(a) + k] = b[k]
    <2>1. IsSeq(a)
      BY <1>13
    <2>2. IsSeq(b)
      BY <1>13
    <2>3. Len(a) \in Nat /\ Len(b) \in Nat /\ Len(a \o b) = Len(a) + Len(b)
      BY <2>1, <2>2, JoinIsSeq
    <2>4. \A k \in 1 .. Len(a) : (a \o b)[k] = a[k]
      BY <2>1, <2>2, JoinIsSeq
    <2>5. \A k \in 1 .. Len(b) : (a \o b)[Len(a) + k] = b[k]
      BY <2>1, <2>2, JoinIsSeq
    <2> QED
      BY <2>3, <2>4, <2>5
  <1>15. /\ \A k \in 1 .. Len(a) : Jumps(a[k]) => Request(a \o b, k) = Request(a, k)
         /\ \A k \in 1 .. Len(b) : Jumps(b[k]) => Request(a \o b, Len(a) + k) = Request(b, k)
    BY <1>13, RequestsOfJoin
  <1>16. PICK qs : qs = Requests(b)
    OBVIOUS
  <1>17. Gathered(b, Len(b), qs) /\ IsSeq(qs) /\ IsSeq(patch_jmp_)
    BY <1>13, <1>16, RequestsGathered DEF Gathered, TransInv, PatchesKnown
  <1>18. /\ Len(patch_jmp_) \in Nat /\ Len(qs) \in Nat /\ IsSeq(patch_jmp_ \o qs)
         /\ Len(patch_jmp_ \o qs) = Len(patch_jmp_) + Len(qs)
         /\ \A k \in 1 .. Len(patch_jmp_) : (patch_jmp_ \o qs)[k] = patch_jmp_[k]
         /\ \A k \in 1 .. Len(qs) : (patch_jmp_ \o qs)[Len(patch_jmp_) + k] = qs[k]
    BY <1>17, JoinIsSeq
  <1>19. PatchesKnown'
    <2>1. Now' = Now /\ script \in Now
      BY <1>1 DEF Now
    <2>2. IsSeq(patch_jmp_')
      BY <1>9, <1>16, <1>18
    <2>3. ASSUME NEW k \in 1 .. Len(qs) PROVE RequestOf(FullCode(p), qs[k])
      <3>1. PICK j \in 1 .. Len(b) : Jumps(b[j]) /\ qs[k] = Request(b, j)
        BY <1>17 DEF Gathered
      <3>2. PICK m : m = Len(a) + j
        OBVIOUS
      <3>3. m \in 1 .. Len(a \o b) /\ (a \o b)[m] = b[j] /\ Request(a \o b, m) = Request(b, j)
        BY <1>14, <1>15, <3>1, <3>2
      <3>4. m \in 1 .. Len(CodeOf(p, i + 1)) /\ Jumps(CodeOf(p, i + 1)[m])
            /\ Request(CodeOf(p, i + 1), m) = qs[k]
        BY <1>9, <1>10, <3>1, <3>3
      <3>5. RequestOf(FullCode(p), Request(CodeOf(p, i + 1), m))
        BY <1>3, <1>6, <3>4, LineRequests
      <3> QED
        BY <3>4, <3>5
    <2>4. ASSUME NEW n \in 1 .. Len(patch_jmp_ \o qs)
          PROVE  \E s \in Now : RequestOf(FullCode(Programs[s]), (patch_jmp_ \o qs)[n])
      <3>1. CASE \E k \in 1 .. Len(patch_jmp_) : (patch_jmp_ \o qs)[n] = patch_jmp_[k]
        BY <3>1 DEF TransInv, PatchesKnown
      <3>2. CASE \E k \in 1 .. Len(qs) : (patch_jmp_ \o qs)[n] = qs[k]
        <4>1. RequestOf(FullCode(Programs[script]), (patch_jmp_ \o qs)[n])
          BY <1>3, <2>3, <3>2
        <4> QED
          BY <2>1, <4>1
      <3> QED
        BY <1>17, <3>1, <3>2, Joins
    <2>5. patch_jmp_' = patch_jmp_ \o qs
      BY <1>9, <1>16
    <2> QED
      BY <2>1, <2>2, <2>4, <2>5 DEF PatchesKnown
  <1>20. AllRequested(a \o b, patch_jmp_ \o qs)
    <2> SUFFICES ASSUME NEW k \in 1 .. Len(a \o b), Jumps((a \o b)[k])
                 PROVE  \E n \in 1 .. Len(patch_jmp_ \o qs) : (patch_jmp_ \o qs)[n] = Request(a \o b, k)
      BY DEF AllRequested
    <2>1. CASE k <= Len(a)
      <3>1. k \in 1 .. Len(a) /\ Jumps(a[k]) /\ Request(a \o b, k) = Request(a, k)
        <4>1. k \in 1 .. Len(a)
          BY <1>14, <2>1
        <4>2. Jumps(a[k])
          BY <1>14, <4>1
        <4> QED
          BY <1>15, <4>1, <4>2
      <3>2. PICK n \in 1 .. Len(patch_jmp_) : patch_jmp_[n] = Request(a, k)
        BY <1>6, <3>1 DEF AllRequested
      <3>3. n \in 1 .. Len(patch_jmp_ \o qs) /\ (patch_jmp_ \o qs)[n] = patch_jmp_[n]
        BY <1>18
      <3> QED
        BY <3>1, <3>2, <3>3
    <2>2. CASE k > Len(a)
      <3>1. PICK j : j = k - Len(a)
        OBVIOUS
      <3>2. j \in 1 .. Len(b) /\ k = Len(a) + j
        BY <1>14, <2>2, <3>1
      <3>3. Jumps(b[j]) /\ Request(a \o b, k) = Request(b, j)
        <4>1. (a \o b)[Len(a) + j] = b[j]
          BY <1>14, <3>2
        <4>2. Jumps(b[j])
          BY <3>2, <4>1
        <4> QED
          BY <1>15, <3>2, <4>2
      <3>4. PICK n \in 1 .. Len(qs) : qs[n] = Request(b, j)
        BY <1>17, <3>2, <3>3 DEF Gathered
      <3>5. PICK m : m = Len(patch_jmp_) + n
        OBVIOUS
      <3>6. m \in 1 .. Len(patch_jmp_ \o qs) /\ (patch_jmp_ \o qs)[m] = qs[n]
        BY <1>18, <3>5
      <3> QED
        BY <3>3, <3>4, <3>6
    <2> QED
      BY <1>14, <2>1, <2>2
  <1>21. Offsets(p, func_offsets_') /\ Len(func_offsets_') = i + 1
    <2>1. func_offsets_' = Append(func_offsets_, CodeSize(a) + 1)
      BY <1>5 DEF Translate
    <2>2. /\ IsSeq(func_offsets_') /\ Len(func_offsets_') = i + 1
          /\ \A l \in 1 .. i : func_offsets_'[l] = func_offsets_[l]
          /\ func_offsets_'[i + 1] = CodeSize(a) + 1
      BY <1>6, <2>1, AppendIsSeq DEF Offsets
    <2>3. ASSUME NEW l \in 0 .. i PROVE func_offsets_'[l + 1] = CodeSize(CodeOf(p, l)) + 1
      <3>1. CASE l = i
        BY <1>6, <2>2, <3>1
      <3>2. CASE l # i
        <4>1. l \in 0 .. Len(func_offsets_) - 1 /\ l + 1 \in 1 .. i
          BY <1>6, <3>2
        <4> QED
          BY <1>6, <2>2, <4>1 DEF Offsets
      <3> QED
        BY <3>1, <3>2
    <2>4. 0 .. (i + 1) - 1 = 0 .. i
      BY <1>6
    <2> QED
      BY <2>2, <2>3, <2>4 DEF Offsets
  <1>22. need_realignment' = Whole(p)[i + 1].need
    <2>1. need_realignment' = IF p.lines[i + 1].flag = "Func" THEN FALSE
                              ELSE Whole(p)[i].need \/ p.lines[i + 1].flag \notin {"UFunc", "CFunc"}
      BY <1>4, <1>5, <1>6 DEF Translate
    <2> QED
      BY <1>3, <1>6, <2>1, NextLine
  <1>23. Translated'
    BY <1>1, <1>3, <1>4, <1>5, <1>6, <1>9, <1>10, <1>16, <1>20, <1>21, <1>22 DEF Translated
  <1> QED
    BY <1>1, <1>19, <1>23 DEF TransInv

\* The epilogue, and PatchJmp.
LEMMA FinishTrans ==
  ASSUME TransInv, Finish
  PROVE  TransInv'
  <1>1. /\ status = "translating" /\ status' \in {"running", "wild"} /\ next = Len(Lines)
        /\ script' = script /\ before' = before /\ next' = next /\ patch_jmp_' = patch_jmp_
        /\ func_offsets_' = func_offsets_
    BY DEF Finish
  <1>2. PICK p : p = Program
    OBVIOUS
  <1>3. IsScript(p) /\ Program' = p /\ p = Programs[script]
    BY <1>1, <1>2, ProgramIsScript DEF Program, TransInv
  <1>4. Lines = p.lines /\ Lines' = p.lines /\ Len(p.lines) \in Nat
    BY <1>2, <1>3 DEF Lines, IsScript
  <1>5. /\ mcode_ = CodeOf(p, Len(p.lines)) /\ Offsets(p, func_offsets_) /\ Len(func_offsets_) = next
        /\ AllRequested(mcode_, patch_jmp_)
    BY <1>1, <1>2, <1>4 DEF TransInv, Translated
  <1>6. mcode_' = Patched(FullCode(p), patch_jmp_, func_offsets_)
    BY <1>1, <1>4, <1>5 DEF Finish, FullCode
  <1>7. PatchesKnown'
    <2>1. Now' = Now
      BY <1>1 DEF Now
    <2> QED
      BY <1>1, <2>1 DEF PatchesKnown, TransInv
  <1>8. AllRequested(FullCode(p), patch_jmp_)
    <2>1. PICK a, n : a = CodeOf(p, n) /\ n = Len(p.lines)
      OBVIOUS
    <2>2. PICK b : b = Placed(Epilogue, n, CodeSize(a))
      OBVIOUS
    <2>3. FullCode(p) = a \o b
      BY <2>1, <2>2 DEF FullCode
    <2>4. Sound(a, n)
      BY <1>3, <1>4, <2>1, LinesSound
    <2>5. PICK to : IsCode(b, CodeSize(a), to)
      BY <2>2, <2>4, GoodEpilogue, PlacedIsCode DEF Sound
    <2>6. LaidOut(b, Epilogue, n, CodeSize(a))
      BY <2>2, <2>4, GoodEpilogue, PlacedUnits DEF Sound
    <2>7. GoodUnits(a, 0) /\ GoodUnits(b, 0) /\ IsSeq(a) /\ IsSeq(b)
      BY <2>4, <2>5 DEF Sound, IsCode, GoodUnits
    <2>8. \A k \in 1 .. Len(b) : ~Jumps(b[k])
      <3>1. \A k \in 1 .. 2 : Epilogue[k].to = <<>>
        BY DEF Epilogue, Unit
      <3> QED
        BY <2>6, <3>1, GoodEpilogue DEF LaidOut, Jumps
    <2>9. ASSUME NEW k \in 1 .. Len(a \o b), Jumps((a \o b)[k])
          PROVE  \E m \in 1 .. Len(patch_jmp_) : patch_jmp_[m] = Request(a \o b, k)
      <3>1. /\ Len(a) \in Nat /\ Len(b) \in Nat /\ Len(a \o b) = Len(a) + Len(b)
            /\ \A j \in 1 .. Len(a) : (a \o b)[j] = a[j]
            /\ \A j \in 1 .. Len(b) : (a \o b)[Len(a) + j] = b[j]
        BY <2>7, JoinIsSeq
      <3>2. CASE k <= Len(a)
        <4>1. k \in 1 .. Len(a)
          BY <3>1, <3>2
        <4>2. Jumps(a[k])
          BY <2>9, <3>1, <4>1
        <4>3. Request(a \o b, k) = Request(a, k)
          BY <2>7, <4>1, <4>2, RequestsOfJoin
        <4> QED
          BY <1>5, <2>1, <4>1, <4>2, <4>3 DEF AllRequested
      <3>3. CASE k > Len(a)
        <4>1. PICK j : j = k - Len(a)
          OBVIOUS
        <4>2. j \in 1 .. Len(b) /\ k = Len(a) + j
          BY <3>1, <3>3, <4>1
        <4>3. (a \o b)[Len(a) + j] = b[j]
          BY <3>1, <4>2
        <4> QED
          BY <2>8, <2>9, <4>2, <4>3
      <3> QED
        BY <3>1, <3>2, <3>3
    <2> QED
      BY <2>3, <2>9 DEF AllRequested
  <1>9. Finished'
    BY <1>1, <1>3, <1>4, <1>5, <1>6, <1>8 DEF Finished
  <1> QED
    BY <1>1, <1>7, <1>9 DEF TransInv

-----------------------------------------------------------------------------
\* The translation is given up or the code has returned: the processor is idle again.
LEMMA IdleAgain ==
  ASSUME TransInv, status \in {"translating", "running"}, status' = "idle", script' = script,
         before' = before \cup {script}, patch_jmp_' = patch_jmp_
  PROVE  TransInv'
  <1>1. Now' = Now
    BY DEF Now
  <1>2. PatchesKnown'
    BY <1>1 DEF PatchesKnown, TransInv
  <1> QED
    BY <1>2 DEF TransInv

\* The code runs on, or ends without having returned.
LEMMA RunningOn ==
  ASSUME TransInv, status = "running", status' \in {"running", "terminated", "wild"},
         UNCHANGED translator
  PROVE  TransInv'
  <1>1. UNCHANGED <<script, before, next, need_realignment, mcode_, func_offsets_, patch_jmp_>>
    BY DEF translator
  <1>2. Program' = Program /\ Lines' = Lines
    BY <1>1 DEF Program, Lines
  <1>3. Finished'
    BY <1>1, <1>2 DEF Finished, TransInv
  <1>4. Now' = Now
    BY <1>1 DEF Now
  <1>5. PatchesKnown'
    BY <1>1, <1>4 DEF PatchesKnown, TransInv
  <1> QED
    BY <1>1, <1>3, <1>5 DEF TransInv

\* What the processor's steps other than the last return leave alone.
Steady ==
  /\ status = "running" /\ status' \in {"running", "terminated", "wild"}
  /\ UNCHANGED translator

\* No step of the processor touches the translator, but the return home.
LEMMA ProcessSteady ==
  ASSUME Process
  PROVE  Steady \/ ReturnHome
  <1> USE DEF Fetched, Onward, Terminate, GoesWild, Steady
  <1>1. CASE Enter
    BY <1>1 DEF Enter
  <1>2. CASE SetRunLine
    BY <1>2 DEF SetRunLine
  <1>3. CASE IncRunLine
    BY <1>3 DEF IncRunLine
  <1>4. CASE RunOpaque
    BY <1>4 DEF RunOpaque
  <1>5. CASE RunJump
    BY <1>5 DEF RunJump
  <1>6. CASE RunRet
    BY <1>6 DEF RunRet
  <1>7. CASE RunCall
    BY <1>7 DEF RunCall
  <1>8. CASE CallGetPtr
    BY <1>8 DEF CallGetPtr
  <1>9. CASE SavePtr
    BY <1>9 DEF SavePtr
  <1>10. CASE Assignment
    BY <1>10 DEF Assignment
  <1>11. CASE Comparison
    BY <1>11 DEF Comparison
  <1>12. CASE SetFlag
    BY <1>12 DEF SetFlag
  <1>13. CASE TestFlag
    BY <1>13 DEF TestFlag
  <1>14. CASE Branch
    BY <1>14 DEF Branch
  <1>15. CASE Bump
    BY <1>15 DEF Bump
  <1>16. CASE CallFunction
    BY <1>16 DEF CallFunction
  <1>17. CASE PopRax
    BY <1>17 DEF PopRax
  <1>18. CASE Return
    BY <1>18 DEF Return
  <1>19. CASE Leave
    BY <1>19 DEF Leave
  <1>20. CASE PushArguments
    BY <1>20 DEF PushArguments
  <1>21. CASE CallForeign
    BY <1>21 DEF CallForeign
  <1>22. CASE RunGarbage
    BY <1>22 DEF RunGarbage
  <1> QED
    BY <1>1, <1>2, <1>3, <1>4, <1>5, <1>6, <1>7, <1>8, <1>9, <1>10, <1>11, <1>12, <1>13, <1>14,
       <1>15, <1>16, <1>17, <1>18, <1>19, <1>20, <1>21, <1>22 DEF Process

\* The translator's invariant is inductive.
LEMMA NextTrans == TransInv /\ [Next]_vars => TransInv'
  <1> SUFFICES ASSUME TransInv, [Next]_vars PROVE TransInv'
    OBVIOUS
  <1>1. CASE Begin
    BY <1>1, BeginTrans
  <1>2. CASE Translate
    BY <1>2, TranslateTrans
  <1>3. CASE GiveUp
    <2>1. /\ status = "translating" /\ status' = "idle" /\ script' = script
          /\ before' = before \cup {script} /\ patch_jmp_' = patch_jmp_
      BY <1>3 DEF GiveUp
    <2> QED
      BY <2>1, IdleAgain
  <1>4. CASE Finish
    BY <1>4, FinishTrans
  <1>5. CASE ReturnHome
    <2>1. /\ status = "running" /\ status' = "idle" /\ script' = script
          /\ before' = before \cup {script} /\ patch_jmp_' = patch_jmp_
      BY <1>5 DEF ReturnHome, Fetched
    <2> QED
      BY <2>1, IdleAgain
  <1>6. CASE Steady
    BY <1>6, RunningOn DEF Steady
  <1>7. CASE UNCHANGED vars
    <2>1. /\ UNCHANGED <<status, script, before, next, need_realignment, mcode_, func_offsets_,
                         patch_jmp_>>
      BY <1>7 DEF vars, translator
    <2>2. Program' = Program /\ Lines' = Lines /\ Now' = Now
      BY <2>1 DEF Program, Lines, Now
    <2>3. PatchesKnown'
      BY <2>1, <2>2 DEF PatchesKnown, TransInv
    <2>4. status = "translating" => Translated'
      BY <2>1, <2>2 DEF Translated, TransInv
    <2>5. status = "running" => Finished'
      BY <2>1, <2>2 DEF Finished, TransInv
    <2> QED
      BY <2>1, <2>3, <2>4, <2>5 DEF TransInv
  <1> QED
    BY <1>1, <1>2, <1>3, <1>4, <1>5, <1>6, <1>7, ProcessSteady DEF Next, Compile

\* In the code that runs, when no other script has left requests, every jump goes right.
LEMMA RunningCode ==
  ASSUME TransInv, status = "running", Fresh
  PROVE  /\ IsScript(Program)
         /\ SameButTarget(mcode_, FullCode(Program))
         /\ \A k \in 1 .. Len(mcode_) : GoesRight(Program, mcode_, k)
  <1>1. IsScript(Program) /\ Lines = Program.lines
    BY ProgramIsScript DEF Program, TransInv, Lines
  <1>2. Now = {script}
    BY DEF Now, Fresh
  <1>3. IsSeq(patch_jmp_) /\ \A n \in 1 .. Len(patch_jmp_) : RequestOf(FullCode(Program), patch_jmp_[n])
    BY <1>2 DEF TransInv, PatchesKnown, Program
  <1>4. /\ Offsets(Program, func_offsets_) /\ Len(func_offsets_) = Len(Program.lines)
        /\ AllRequested(FullCode(Program), patch_jmp_)
        /\ mcode_ = Patched(FullCode(Program), patch_jmp_, func_offsets_)
    BY <1>1 DEF TransInv, Finished
  <1> QED
    BY <1>1, <1>3, <1>4, FinishedCode

\* The code that runs, by its units and by its lines.
LEMMA RunningUnits ==
  ASSUME TransInv, status = "running", Fresh
  PROVE  /\ Len(mcode_) \in Nat /\ DOMAIN mcode_ = 1 .. Len(mcode_)
         /\ Sound(FullCode(Program), Len(Program.lines) + 1)
         /\ Len(mcode_) = Len(FullCode(Program))
         /\ \A k \in 1 .. Len(mcode_) :
              /\ IsPlaced(FullCode(Program)[k]) /\ IsUnit(FullCode(Program)[k])
              /\ mcode_[k].op = FullCode(Program)[k].op
              /\ mcode_[k].to = FullCode(Program)[k].to
              /\ mcode_[k].line = FullCode(Program)[k].line
              /\ mcode_[k].at = FullCode(Program)[k].at
  <1> DEFINE c == FullCode(Program)
  <1>1. IsScript(Program) /\ SameButTarget(mcode_, c)
    BY RunningCode
  <1>2. Sound(c, Len(Program.lines) + 1)
    BY <1>1, FullSound
  <1> HIDE DEF c
  <1>3. Len(c) \in Nat /\ \A k \in 1 .. Len(c) : IsPlaced(c[k]) /\ IsUnit(c[k])
    BY <1>2 DEF Sound, IsCode, Contiguous, GoodUnits
  <1>4. Len(mcode_) = Len(c) /\ \A k \in 1 .. Len(c) : mcode_[k] = [c[k] EXCEPT !.target = mcode_[k].target]
    BY <1>1 DEF SameButTarget
  <1>5. DOMAIN mcode_ = 1 .. Len(mcode_)
    <2>1. IsSeq(mcode_)
      BY <1>1 DEF SameButTarget
    <2> QED
      BY <2>1
  <1>6. ASSUME NEW k \in 1 .. Len(c)
        PROVE  /\ mcode_[k].op = c[k].op /\ mcode_[k].to = c[k].to
               /\ mcode_[k].line = c[k].line /\ mcode_[k].at = c[k].at
    BY <1>3, <1>4 DEF IsPlaced
  <1> QED
    BY <1>2, <1>3, <1>4, <1>5, <1>6 DEF c

\* The first unit at or after a line is where func_offsets_ says.
LEMMA LandingIs ==
  ASSUME TransInv, status = "running", Fresh, NEW l \in 0 .. Len(Lines)
  PROVE  Landing(l) = CodeSize(CodeOf(Program, l))
  <1> DEFINE c == FullCode(Program)
             m == Len(CodeOf(Program, l))
             ks == {k \in Starting : mcode_[k].line >= l}
  <1>1. IsScript(Program) /\ Lines = Program.lines
    BY RunningCode DEF Lines
  <1>2. BeginsAt(c, l, m, CodeSize(CodeOf(Program, l)))
    BY <1>1, FullSound
  <1>3. /\ Len(mcode_) \in Nat /\ DOMAIN mcode_ = 1 .. Len(mcode_) /\ Len(mcode_) = Len(c)
        /\ \A k \in 1 .. Len(mcode_) : mcode_[k].line = c[k].line /\ mcode_[k].at = c[k].at
    BY RunningUnits
  <1> HIDE DEF c, m
  <1>4. /\ m \in Nat /\ m >= 1 /\ m + 1 <= Len(c) /\ c[m + 1].at = CodeSize(CodeOf(Program, l))
        /\ \A k \in 1 .. m : c[k].line < l
        /\ \A k \in m + 1 .. Len(c) : c[k].line >= l
    BY <1>2 DEF BeginsAt
  <1>5. PICK n : n = m + 1
    OBVIOUS
  <1>6. n \in 1 .. Len(mcode_) /\ n > 1 /\ n - 1 = m /\ m \in 1 .. m /\ n \in m + 1 .. Len(c) /\ m \in 1 .. Len(mcode_)
    BY <1>3, <1>4, <1>5
  <1>7. mcode_[n].line >= l /\ c[m].line < l /\ mcode_[n - 1].line = c[m].line
    BY <1>3, <1>4, <1>6
  <1>8. mcode_[n].line # mcode_[n - 1].line
    <2>1. c[n].line \in Int /\ c[m].line \in Int
      <3>1. \A k \in 1 .. Len(mcode_) : c[k].line \in Int
        BY RunningUnits DEF c, Sound
      <3> QED
        BY <1>6, <3>1
    <2> QED
      BY <1>3, <1>4, <1>6, <2>1
  <1>9. n \in ks
    BY <1>3, <1>6, <1>7, <1>8 DEF Starting
  <1>10. ASSUME NEW j \in ks PROVE n <= j
    <2>1. j \in 1 .. Len(mcode_) /\ mcode_[j].line >= l
      BY <1>3 DEF Starting
    <2>2. CASE j <= m
      <3>1. j \in 1 .. m
        BY <2>1, <2>2
      <3>2. c[j].line < l /\ c[j].line >= l
        BY <1>3, <1>4, <2>1, <3>1
      <3>3. c[j].line \in Int
        BY RunningUnits, <2>1 DEF c, Sound
      <3> QED
        BY <3>2, <3>3
    <2> QED
      BY <1>4, <1>5, <2>1, <2>2
  <1>11. ASSUME NEW k, k \in ks, \A j \in ks : k <= j PROVE k = n
    <2>1. k \in 1 .. Len(mcode_)
      BY <1>3, <1>11 DEF Starting
    <2>2. k <= n /\ n <= k
      BY <1>9, <1>10, <1>11
    <2> QED
      BY <1>6, <2>1, <2>2
  <1>12. (CHOOSE k \in ks : \A j \in ks : k <= j) = n
    <2> HIDE DEF ks
    <2> QED
      BY <1>9, <1>10, <1>11
  <1>13. Landing(l) = mcode_[n].at
    BY <1>12 DEF Landing
  <1> QED
    BY <1>3, <1>4, <1>5, <1>6, <1>13

\* The translator's invariant is as strong as JumpsLand.
LEMMA TransJumpsLand == TransInv => JumpsLand
  <1> SUFFICES ASSUME TransInv, status = "running", Fresh, NEW k \in DOMAIN mcode_
      PROVE  /\ mcode_[k].op # "garbage"
             /\ mcode_[k].to # <<>> /\ mcode_[k].to[1] = "unit" =>
                  mcode_[k].target = mcode_[k + mcode_[k].to[2]].at
             /\ mcode_[k].to # <<>> /\ mcode_[k].to[1] = "line" /\ mcode_[k].to[2] < Len(Lines) =>
                  mcode_[k].target = Landing(mcode_[k].to[2])
    BY DEF JumpsLand
  <1>1. k \in 1 .. Len(mcode_)
    BY RunningUnits
  <1>2. /\ IsUnit(FullCode(Program)[k]) /\ mcode_[k].op = FullCode(Program)[k].op
        /\ mcode_[k].to = FullCode(Program)[k].to
    BY <1>1, RunningUnits
  <1>3. mcode_[k].op # "garbage"
    BY <1>2 DEF IsUnit
  <1>4. GoesRight(Program, mcode_, k) /\ IsScript(Program)
    BY <1>1, RunningCode
  <1>5. ASSUME mcode_[k].to # <<>> /\ mcode_[k].to[1] = "unit"
        PROVE  mcode_[k].target = mcode_[k + mcode_[k].to[2]].at
    BY <1>4, <1>5 DEF GoesRight, ToUnit, Jumps
  <1>6. ASSUME mcode_[k].to # <<>> /\ mcode_[k].to[1] = "line" /\ mcode_[k].to[2] < Len(Lines)
        PROVE  mcode_[k].target = Landing(mcode_[k].to[2])
    <2>1. ToLine(mcode_[k])
      BY <1>6 DEF ToLine, Jumps
    <2>2. Lines = Program.lines
      BY DEF Lines
    <2>3. mcode_[k].target = CodeSize(CodeOf(Program, mcode_[k].to[2]))
      BY <1>4, <1>6, <2>1, <2>2 DEF GoesRight
    <2>4. mcode_[k].to[2] \in Nat
      BY <1>2, <2>1 DEF IsUnit, ToLine, Jumps
    <2>5. mcode_[k].to[2] \in 0 .. Len(Lines)
      BY <1>4, <1>6, <2>2, <2>4 DEF IsScript
    <2> QED
      BY <2>3, <2>5, LandingIs
  <1> QED
    BY <1>3, <1>5, <1>6

\* Every jump of the code that runs goes where it was meant to (PatchJmp, and the
\* requests the Jit_ handlers make), whatever the script, and however often this
\* processor has translated it before, whole or half way.
THEOREM JumpsAlwaysLand == Spec => []JumpsLand
  <1>1. Init => TransInv
    BY InitTrans
  <1>2. TransInv /\ [Next]_vars => TransInv'
    BY NextTrans
  <1>3. TransInv => JumpsLand
    BY TransJumpsLand
  <1> QED
    BY <1>1, <1>2, <1>3, PTL DEF Spec

-----------------------------------------------------------------------------
\* The native stack.  A call of a script function; where the function returns to.
Calling(p, l) ==
  l \in 0 .. Len(p.lines) - 1 /\ p.lines[l + 1].flag = "Func" /\ p.lines[l + 1].cmd = "Call"
RetPlace(p, l) == FullCode(p)[Len(CodeOf(p, l + 1))].at

Embeds(p) == \E i \in 1 .. Len(p.lines) : p.lines[i].flag = "UFunc"

\* What is where the return address of the call on line l was pushed.
GoesBack(p, l, w) == w = RetPlace(p, l) \/ (Embeds(p) /\ w = Spoilt)

\* place tells where on the stack s, at most at top, the calls f return to.
Returns(p, s, f, top, place) ==
  /\ \A n \in 1 .. Len(f) : place[n] \in 3 .. top /\ place[n] % 2 = 0
  /\ \A n, m \in 1 .. Len(f) : n < m => place[n] < place[m]
  /\ \A n \in 1 .. Len(f) : GoesBack(p, f[n], s[place[n]])
  /\ \A k \in 1 .. Len(s) : s[k] >= 0 => \E n \in 1 .. Len(f) : k = place[n]

\* The frame, the open calls f and other words, of which the last extra few are
\* yet to be popped.
Holding(p, s, f, extra) ==
  /\ s \in Seq(Int) /\ f \in Seq(Int)
  /\ Len(s) - extra >= 2 /\ (Len(s) - extra) % 2 = 0
  /\ \A n \in 1 .. Len(f) : Calling(p, f[n])
  /\ \E place \in [1 .. Len(f) -> Int] : Returns(p, s, f, Len(s) - extra, place)

\* Words that are no addresses are pushed.
LEMMA HoldMore ==
  ASSUME NEW p, NEW s, NEW f, NEW e \in Nat, Holding(p, s, f, e), NEW t \in Seq(Int), NEW d \in Nat,
         Len(t) >= Len(s), \A k \in 1 .. Len(s) : t[k] = s[k],
         \A k \in Len(s) + 1 .. Len(t) : t[k] < 0,
         Len(t) - d >= Len(s) - e, (Len(t) - d) % 2 = 0
  PROVE  Holding(p, t, f, d)
  <1>1. s \in Seq(Int) /\ f \in Seq(Int) /\ Len(s) - e >= 2 /\ \A n \in 1 .. Len(f) : Calling(p, f[n])
    BY DEF Holding
  <1>2. PICK place \in [1 .. Len(f) -> Int] : Returns(p, s, f, Len(s) - e, place)
    BY DEF Holding
  <1>3. Len(s) \in Nat /\ Len(t) \in Nat /\ Len(f) \in Nat
    BY <1>1
  <1>4. \A n \in 1 .. Len(f) : /\ place[n] \in 3 .. Len(t) - d /\ place[n] % 2 = 0
                               /\ place[n] \in 1 .. Len(s)
    <2>1. \A n \in 1 .. Len(f) : place[n] \in 3 .. Len(s) - e /\ place[n] % 2 = 0
      BY <1>2 DEF Returns
    <2>2. \A x \in 3 .. Len(s) - e : x \in 3 .. Len(t) - d /\ x \in 1 .. Len(s)
      BY <1>3
    <2> QED
      BY <2>1, <2>2
  <1>5. \A n \in 1 .. Len(f) : t[place[n]] = s[place[n]]
    BY <1>4
  <1>6. \A k \in 1 .. Len(t) : t[k] >= 0 => k \in 1 .. Len(s)
    BY <1>3
  <1>7. \A k \in 1 .. Len(t) : t[k] >= 0 => \E n \in 1 .. Len(f) : k = place[n]
    BY <1>2, <1>6 DEF Returns
  <1>8. Returns(p, t, f, Len(t) - d, place)
    BY <1>2, <1>4, <1>5, <1>7 DEF Returns
  <1>9. Len(t) - d >= 2
    BY <1>1, <1>3
  <1>10. \E h \in [1 .. Len(f) -> Int] : Returns(p, t, f, Len(t) - d, h)
    BY <1>8
  <1> QED
    BY <1>1, <1>9, <1>10, Zenon DEF Holding

\* Of the extra words the last are popped.
LEMMA HoldLess ==
  ASSUME NEW p, NEW s, NEW f, NEW e \in Nat, Holding(p, s, f, e), NEW d \in 0 .. e
  PROVE  /\ Holding(p, SubSeq(s, 1, Len(s) - d), f, e - d)
         /\ Len(SubSeq(s, 1, Len(s) - d)) = Len(s) - d
  <1>1. s \in Seq(Int) /\ f \in Seq(Int) /\ Len(s) - e >= 2 /\ (Len(s) - e) % 2 = 0
        /\ \A n \in 1 .. Len(f) : Calling(p, f[n])
    BY DEF Holding
  <1>2. PICK place \in [1 .. Len(f) -> Int] : Returns(p, s, f, Len(s) - e, place)
    BY DEF Holding
  <1>3. Len(s) \in Nat /\ Len(f) \in Nat
    BY <1>1
  <1>4. PICK t : t = SubSeq(s, 1, Len(s) - d)
    OBVIOUS
  <1>5. t \in Seq(Int) /\ Len(t) = Len(s) - d /\ \A k \in 1 .. Len(t) : t[k] = s[k]
    BY <1>1, <1>3, <1>4
  <1>6. Len(t) - (e - d) = Len(s) - e
    BY <1>3, <1>5
  <1>7. \A n \in 1 .. Len(f) : /\ place[n] \in 3 .. Len(s) - e /\ place[n] % 2 = 0
                               /\ place[n] \in 1 .. Len(t)
    BY <1>2, <1>3, <1>5 DEF Returns
  <1>8. Returns(p, t, f, Len(t) - (e - d), place)
    <2>1. \A n \in 1 .. Len(f) : place[n] \in 3 .. Len(t) - (e - d)
      BY <1>6, <1>7
    <2>2. \A n \in 1 .. Len(f) : t[place[n]] = s[place[n]]
      BY <1>5, <1>7
    <2>3. ASSUME NEW k \in 1 .. Len(t), t[k] >= 0 PROVE \E n \in 1 .. Len(f) : k = place[n]
      <3>1. k \in 1 .. Len(s) /\ s[k] >= 0
        BY <2>3, <1>3, <1>5
      <3> QED
        BY <3>1, <1>2 DEF Returns
    <2> QED
      BY <2>1, <2>2, <2>3, <1>2 DEF Returns
  <1>9. Holding(p, t, f, e - d)
    BY <1>1, <1>5, <1>6, <1>8 DEF Holding
  <1> QED
    BY <1>4, <1>5, <1>9

\* The stack has an even number of words, not counting the extra ones.
LEMMA HoldEven ==
  ASSUME NEW p, NEW s, NEW f, NEW e \in Nat, Holding(p, s, f, e)
  PROVE  s \in Seq(Int) /\ Len(s) \in Nat /\ Len(s) - e >= 2 /\ (Len(s) - e) % 2 = 0 /\ s[1] < 0
  <1>1. s \in Seq(Int) /\ f \in Seq(Int) /\ Len(s) - e >= 2 /\ (Len(s) - e) % 2 = 0
    BY DEF Holding
  <1>2. PICK place \in [1 .. Len(f) -> Int] : Returns(p, s, f, Len(s) - e, place)
    BY DEF Holding
  <1>3. 1 \in 1 .. Len(s) /\ \A n \in 1 .. Len(f) : place[n] # 1
    BY <1>1, <1>2 DEF Returns
  <1> QED
    BY <1>1, <1>2, <1>3 DEF Returns

\* A call leaves its place, with the rax saved before it below.
LEMMA HoldCall ==
  ASSUME NEW p, NEW s, NEW f, Holding(p, s, f, 1), NEW l \in Int, Calling(p, l),
         RetPlace(p, l) \in Int
  PROVE  Holding(p, Append(s, RetPlace(p, l)), Append(f, l), 0)
  <1>0. \A h \in Nat : \A x \in 3 .. h - 1 : x \in 1 .. h /\ x \in 3 .. (h + 1) - 0 /\ x < h + 1
    OBVIOUS
  <1>1. s \in Seq(Int) /\ f \in Seq(Int) /\ Len(s) - 1 >= 2 /\ (Len(s) - 1) % 2 = 0
        /\ \A n \in 1 .. Len(f) : Calling(p, f[n])
    BY DEF Holding
  <1>2. PICK place \in [1 .. Len(f) -> Int] : Returns(p, s, f, Len(s) - 1, place)
    BY DEF Holding
  <1>3. PICK w : w = RetPlace(p, l)
    OBVIOUS
  <1>4. PICK t, g, m : t = Append(s, w) /\ g = Append(f, l) /\ m = Len(f)
    OBVIOUS
  <1>5. /\ Len(s) \in Nat /\ m \in Nat /\ t \in Seq(Int) /\ g \in Seq(Int)
        /\ Len(t) = Len(s) + 1 /\ Len(g) = m + 1
        /\ \A k \in 1 .. Len(s) : t[k] = s[k]
        /\ t[Len(s) + 1] = w
        /\ \A n \in 1 .. m : g[n] = f[n]
        /\ g[m + 1] = l
    BY <1>1, <1>3, <1>4
  <1>20. m \in Nat /\ \A n \in 1 .. m : n \in 1 .. m + 1 /\ n # m + 1
    <2>1. \A h \in Nat : \A n \in 1 .. h : n \in 1 .. h + 1 /\ n # h + 1
      OBVIOUS
    <2> QED
      BY <2>1, <1>5
  <1>6. PICK q \in [1 .. m + 1 -> Int] : \A n \in 1 .. m + 1 : q[n] = IF n = m + 1 THEN Len(s) + 1 ELSE place[n]
    <2> DEFINE h == [n \in 1 .. m + 1 |-> IF n = m + 1 THEN Len(s) + 1 ELSE place[n]]
    <2>1. \A n \in 1 .. m + 1 : n # m + 1 => n \in 1 .. m
      BY <1>5
    <2>2. h \in [1 .. m + 1 -> Int] /\ \A n \in 1 .. m + 1 : h[n] = IF n = m + 1 THEN Len(s) + 1 ELSE place[n]
      BY <1>4, <1>5, <2>1
    <2> HIDE DEF h
    <2> QED
      BY <2>2
  <1>7. (Len(s) + 1) % 2 = 0
    <2>1. \A n \in Nat : (n - 1) % 2 = 0 => (n + 1) % 2 = 0
      OBVIOUS
    <2> QED
      BY <1>1, <1>5, <2>1
  <1>8. \A n \in 1 .. m : /\ place[n] \in 3 .. Len(s) - 1 /\ place[n] % 2 = 0 /\ place[n] \in 1 .. Len(s)
                          /\ GoesBack(p, f[n], s[place[n]])
    <2>1. \A n \in 1 .. m : place[n] \in 3 .. Len(s) - 1 /\ place[n] % 2 = 0 /\ GoesBack(p, f[n], s[place[n]])
      BY <1>2, <1>4 DEF Returns
    <2>2. \A n \in 1 .. m : place[n] \in 1 .. Len(s)
      BY <2>1, <1>0, <1>5
    <2> QED
      BY <2>1, <2>2
  <1>9. \A n \in 1 .. m + 1 : n \in 1 .. m \/ n = m + 1
    BY <1>5
  <1>10. ASSUME NEW n \in 1 .. m + 1
         PROVE  /\ q[n] \in 3 .. Len(t) - 0 /\ q[n] % 2 = 0
                /\ GoesBack(p, g[n], t[q[n]])
                /\ Calling(p, g[n])
    <2>1. CASE n = m + 1
      <3>1. q[n] = Len(s) + 1
        BY <2>1, <1>6
      <3>2. t[q[n]] = w /\ g[n] = l
        BY <2>1, <3>1, <1>5
      <3>3. GoesBack(p, g[n], t[q[n]])
        BY <3>2, <1>3 DEF GoesBack
      <3>4. Len(s) + 1 \in 3 .. Len(t) - 0
        BY <1>1, <1>5
      <3> QED
        BY <3>1, <3>2, <3>3, <3>4, <1>7
    <2>2. CASE n \in 1 .. m
      <3>1. q[n] = place[n] /\ n # m + 1
        <4>1. n # m + 1
          BY <2>2, <1>20
        <4> QED
          BY <4>1, <1>6
      <3>2. /\ place[n] \in 3 .. Len(s) - 1 /\ place[n] % 2 = 0 /\ place[n] \in 1 .. Len(s)
            /\ GoesBack(p, f[n], s[place[n]])
        BY <2>2, <1>8
      <3>3. t[q[n]] = s[place[n]] /\ g[n] = f[n]
        <4>1. t[place[n]] = s[place[n]]
          BY <3>2, <1>5
        <4>2. g[n] = f[n]
          BY <2>2, <1>5
        <4> QED
          BY <3>1, <4>1, <4>2
      <3>4. q[n] \in 3 .. Len(t) - 0
        <4>1. place[n] \in 3 .. (Len(s) + 1) - 0
          BY <3>2, <1>0, <1>5
        <4> QED
          BY <3>1, <4>1, <1>5
      <3> QED
        BY <2>2, <3>1, <3>2, <3>3, <3>4, <1>1, <1>4
    <2> QED
      BY <2>1, <2>2, <1>9
  <1>11. ASSUME NEW a \in 1 .. m + 1, NEW b \in 1 .. m + 1, a < b PROVE q[a] < q[b]
    <2>1. a \in 1 .. m /\ q[a] = place[a]
      BY <1>5, <1>6, <1>11
    <2>2. CASE b = m + 1
      <3>1. q[b] = Len(s) + 1 /\ place[a] \in 3 .. Len(s) - 1
        BY <2>1, <2>2, <1>6, <1>8
      <3>2. place[a] < Len(s) + 1
        BY <3>1, <1>0, <1>5
      <3> QED
        BY <2>1, <3>1, <3>2
    <2>3. CASE b \in 1 .. m
      <3>1. q[b] = place[b]
        BY <2>3, <1>5, <1>6
      <3>2. place[a] < place[b]
        BY <2>1, <2>3, <1>2, <1>4, <1>11 DEF Returns
      <3> QED
        BY <2>1, <3>1, <3>2
    <2> QED
      BY <2>2, <2>3, <1>9
  <1>12. ASSUME NEW k \in 1 .. Len(t), t[k] >= 0 PROVE \E n \in 1 .. m + 1 : k = q[n]
    <2>1. CASE k = Len(s) + 1
      BY <2>1, <1>5, <1>6
    <2>2. CASE k \in 1 .. Len(s)
      <3>1. PICK n \in 1 .. m : k = place[n]
        BY <2>2, <1>2, <1>4, <1>5, <1>12 DEF Returns
      <3>2. n \in 1 .. m + 1 /\ n # m + 1
        BY <1>20
      <3>3. q[n] = place[n]
        BY <3>2, <1>6
      <3> QED
        BY <3>1, <3>2, <3>3
    <2> QED
      BY <2>1, <2>2, <1>5
  <1>13. Returns(p, t, g, Len(t) - 0, q)
    BY <1>5, <1>10, <1>11, <1>12 DEF Returns
  <1>14. Len(t) - 0 >= 2 /\ (Len(t) - 0) % 2 = 0
    BY <1>1, <1>5, <1>7
  <1>15. Holding(p, t, g, 0)
    BY <1>5, <1>6, <1>10, <1>13, <1>14 DEF Holding
  <1> QED
    BY <1>3, <1>4, <1>15

\* A return from the last open call.
LEMMA HoldReturn ==
  ASSUME NEW p, NEW s, NEW c \in Seq(Int), NEW l, Holding(p, s, Append(c, l), 0), s[Len(s)] >= 0
  PROVE  /\ Calling(p, l) /\ s[Len(s)] = RetPlace(p, l)
         /\ Holding(p, SubSeq(s, 1, Len(s) - 1), c, 1)
         /\ Len(SubSeq(s, 1, Len(s) - 1)) = Len(s) - 1
  <1>0. \A h \in Nat : h % 2 = 0 => \A x \in 3 .. h - 0 :
           /\ x < h /\ x % 2 = 0 => x \in 3 .. (h - 1) - 1 /\ x \in 1 .. h - 1
           /\ h >= 3 /\ (h = x => (h - 1) - 1 >= 2) /\ ((h - 1) - 1) % 2 = 0
    OBVIOUS
  <1>1. PICK f, m, h : f = Append(c, l) /\ m = Len(c) /\ h = Len(s)
    OBVIOUS
  <1>2. s \in Seq(Int) /\ f \in Seq(Int) /\ h - 0 >= 2 /\ (h - 0) % 2 = 0
        /\ \A n \in 1 .. Len(f) : Calling(p, f[n])
    BY <1>1 DEF Holding
  <1>3. PICK place \in [1 .. Len(f) -> Int] : Returns(p, s, f, h - 0, place)
    BY <1>1 DEF Holding
  <1>4. /\ h \in Nat /\ h \in 1 .. Len(s) /\ m \in Nat /\ Len(f) = m + 1
        /\ \A n \in 1 .. m : f[n] = c[n] /\ n \in 1 .. m + 1
        /\ f[m + 1] = l /\ m + 1 \in 1 .. m + 1
    BY <1>1, <1>2
  <1>5. /\ \A n \in 1 .. m + 1 : place[n] \in 3 .. h - 0 /\ place[n] % 2 = 0
        /\ \A n, k \in 1 .. m + 1 : n < k => place[n] < place[k]
        /\ \A n \in 1 .. m + 1 : GoesBack(p, f[n], s[place[n]])
        /\ \A k \in 1 .. Len(s) : s[k] >= 0 => \E n \in 1 .. m + 1 : k = place[n]
    BY <1>3, <1>4 DEF Returns
  <1>6. place[m + 1] = h
    <2>1. PICK n \in 1 .. m + 1 : h = place[n]
      BY <1>1, <1>4, <1>5
    <2>2. CASE n = m + 1
      BY <2>1, <2>2
    <2>3. CASE n < m + 1
      <3>1. h < place[m + 1] /\ place[m + 1] \in 3 .. h - 0
        BY <2>1, <2>3, <1>4, <1>5
      <3> QED
        BY <3>1, <1>4
    <2> QED
      BY <2>1, <2>2, <2>3, <1>4
  <1>7. GoesBack(p, l, s[h]) /\ Calling(p, l)
    BY <1>2, <1>4, <1>5, <1>6
  <1>8. s[h] = RetPlace(p, l)
    BY <1>1, <1>7 DEF GoesBack, Spoilt
  <1>9. PICK t : t = SubSeq(s, 1, h - 1)
    OBVIOUS
  <1>10. t \in Seq(Int) /\ Len(t) = h - 1 /\ \A k \in 1 .. h - 1 : t[k] = s[k] /\ k \in 1 .. Len(s) /\ k # h
    BY <1>1, <1>2, <1>4, <1>9
  <1>11. \A n \in 1 .. m : place[n] \in 3 .. (h - 1) - 1 /\ place[n] \in 1 .. h - 1
    <2>1. \A n \in 1 .. m : place[n] < h /\ place[n] \in 3 .. h - 0 /\ place[n] % 2 = 0
      <3>1. \A n \in 1 .. m : n < m + 1
        BY <1>4
      <3> QED
        BY <3>1, <1>4, <1>5, <1>6
    <2>2. h % 2 = 0
      BY <1>2, <1>4
    <2> QED
      BY <2>1, <2>2, <1>0, <1>4
  <1>12. PICK q \in [1 .. m -> Int] : \A n \in 1 .. m : q[n] = place[n]
    <2> DEFINE g == [n \in 1 .. m |-> place[n]]
    <2>1. g \in [1 .. m -> Int] /\ \A n \in 1 .. m : g[n] = place[n]
      BY <1>4
    <2> HIDE DEF g
    <2> QED
      BY <2>1
  <1>13. \A n \in 1 .. m : /\ q[n] \in 3 .. (h - 1) - 1 /\ q[n] % 2 = 0
                           /\ GoesBack(p, c[n], t[q[n]]) /\ Calling(p, c[n])
    BY <1>2, <1>4, <1>5, <1>10, <1>11, <1>12
  <1>14. \A n, k \in 1 .. m : n < k => q[n] < q[k]
    BY <1>4, <1>5, <1>12
  <1>15. ASSUME NEW k \in 1 .. h - 1, t[k] >= 0 PROVE \E n \in 1 .. m : k = q[n]
    <2>1. s[k] >= 0 /\ k \in 1 .. Len(s) /\ k # h
      BY <1>10, <1>15
    <2>2. PICK n \in 1 .. m + 1 : k = place[n]
      BY <2>1, <1>5
    <2>3. n \in 1 .. m
      BY <2>1, <2>2, <1>4, <1>6
    <2> QED
      BY <2>2, <2>3, <1>12
  <1>16. Returns(p, t, c, Len(t) - 1, q)
    BY <1>1, <1>10, <1>13, <1>14, <1>15 DEF Returns
  <1>17. Len(t) - 1 >= 2 /\ (Len(t) - 1) % 2 = 0
    <2>1. h \in 3 .. h - 0 /\ h % 2 = 0
      BY <1>2, <1>4, <1>5, <1>6
    <2> QED
      BY <2>1, <1>0, <1>4, <1>10
  <1>18. Holding(p, t, c, 1)
    BY <1>1, <1>10, <1>12, <1>13, <1>16, <1>17 DEF Holding
  <1> QED
    BY <1>1, <1>7, <1>8, <1>9, <1>10, <1>18

\* A function of the embedder spoils words, perhaps return addresses.
LEMMA HoldSpoilt ==
  ASSUME NEW p, NEW s, NEW f, NEW e \in Nat, Holding(p, s, f, e), Embeds(p), NEW t \in Seq(Int),
         Len(t) = Len(s), \A k \in 1 .. Len(s) : t[k] = s[k] \/ t[k] = Spoilt
  PROVE  Holding(p, t, f, e)
  <1>1. s \in Seq(Int) /\ f \in Seq(Int) /\ Len(s) - e >= 2 /\ (Len(s) - e) % 2 = 0
        /\ \A n \in 1 .. Len(f) : Calling(p, f[n])
    BY DEF Holding
  <1>2. PICK place \in [1 .. Len(f) -> Int] : Returns(p, s, f, Len(s) - e, place)
    BY DEF Holding
  <1>3. \A n \in 1 .. Len(f) : place[n] \in 1 .. Len(s)
    <2>1. \A h \in Nat : \A x \in 3 .. h - e : x \in 1 .. h
      OBVIOUS
    <2>2. \A n \in 1 .. Len(f) : place[n] \in 3 .. Len(s) - e
      BY <1>2 DEF Returns
    <2>3. Len(s) \in Nat
      BY <1>1
    <2>4. \A x \in 3 .. Len(s) - e : x \in 1 .. Len(s)
      BY <2>1, <2>3
    <2> QED
      BY <2>2, <2>4
  <1>4. \A n \in 1 .. Len(f) : GoesBack(p, f[n], t[place[n]])
    <2>1. \A n \in 1 .. Len(f) : GoesBack(p, f[n], s[place[n]])
      BY <1>2 DEF Returns
    <2> QED
      BY <2>1, <1>3 DEF GoesBack
  <1>5. ASSUME NEW k \in 1 .. Len(t), t[k] >= 0 PROVE \E n \in 1 .. Len(f) : k = place[n]
    <2>1. t[k] = s[k] /\ k \in 1 .. Len(s)
      BY <1>5 DEF Spoilt
    <2> QED
      BY <2>1, <1>2, <1>5 DEF Returns
  <1>6. Returns(p, t, f, Len(t) - e, place)
    BY <1>2, <1>4, <1>5 DEF Returns
  <1> QED
    BY <1>1, <1>6 DEF Holding

-----------------------------------------------------------------------------
\* The units of a line, one after the other.
UnitsOf(p, l) == LineUnits(p, l, Whole(p)[l].need)

\* The address below that of the other operand waits on the stack.
Saving(line) ==
  \/ line.cmd \in {"Mov", "Add", "Sub"} /\ IsVar(line.src)
  \/ line.cmd = "Cmpr" /\ IsVar(line.dst) = IsVar(line.src)

\* What unit j of the units us of a line with a command is, and what follows it.
More(us, j) == j + 1 <= Len(us)

AtHandler(line, us, j) ==
  /\ us[j].op = "handler" /\ us[j].to = <<>> /\ More(us, j)
  /\ \/ line.cmd \in Opaque /\ us[j + 1].op = "incline" /\ us[j + 1].to = <<>>
     \/ line.cmd = "Jmp" /\ us[j + 1].op = "jmp" /\ us[j + 1].to = <<"line", line.to>>
     \/ line.cmd \in DOMAIN Conditional /\ us[j + 1].op = "test" /\ us[j + 1].to = <<>>
     \/ line.cmd = "Ret" /\ us[j + 1].op = "retn" /\ us[j + 1].to = <<>>
     \/ line.cmd = "Call" /\ us[j + 1].op = "bump" /\ us[j + 1].to = <<>>
AtIncline(line, us, j) ==
  us[j].op = "incline" /\ us[j].to = <<>> /\ j = Len(us) /\ line.cmd # "Call"
AtGetPtr(line, us, j) ==
  /\ us[j].op = "getptr" /\ us[j].to = <<>> /\ More(us, j)
  /\ us[j + 1].op \in {"save", "assign", "compare"} /\ us[j + 1].to = <<>>
  /\ us[j + 1].op = "save" => Saving(line)
AtSave(line, us, j) ==
  /\ us[j].op = "save" /\ us[j].to = <<>> /\ More(us, j) /\ Saving(line)
  /\ us[j + 1].op = "getptr" /\ us[j + 1].to = <<>>
  /\ j + 2 <= Len(us) /\ us[j + 2].op \in {"assign", "compare"}
AtAssign(line, us, j) ==
  /\ us[j].op = "assign" /\ us[j].to = <<>> /\ More(us, j)
  /\ line.cmd \in {"Mov", "Add", "Sub"}
  /\ us[j + 1].op = "incline" /\ us[j + 1].to = <<>>
AtCompare(line, us, j) ==
  /\ us[j].op = "compare" /\ us[j].to = <<>> /\ More(us, j)
  /\ line.cmd = "Cmpr" /\ us[j + 1].op = "jg" /\ ToUnit(us[j + 1])
Lands(us, j, d) ==
  d \in 1 .. Len(us) /\ d = j + us[j].to[2] /\ us[d].op \in {"flag", "incline"} /\ us[d].to = <<>>
AtSkip(line, us, j) ==
  /\ us[j].op \in {"jg", "jl", "jmp"} /\ ToUnit(us[j]) /\ us[j].to[2] \in Nat /\ More(us, j)
  /\ \/ us[j + 1].op = "jl" /\ ToUnit(us[j + 1])
     \/ us[j + 1].op = "flag" /\ us[j + 1].to = <<>>
  /\ \E d : Lands(us, j, d)
AtFlag(line, us, j) ==
  /\ us[j].op = "flag" /\ us[j].to = <<>> /\ us[j].arg \in Int /\ More(us, j)
  /\ \/ us[j + 1].op = "jmp" /\ ToUnit(us[j + 1])
     \/ us[j + 1].op = "incline" /\ us[j + 1].to = <<>>
AtTest(line, us, j) ==
  /\ us[j].op = "test" /\ us[j].to = <<>> /\ More(us, j) /\ line.cmd \in DOMAIN Conditional
  /\ us[j + 1].op = Conditional[line.cmd] /\ us[j + 1].to = <<"line", line.to>>
AtBranch(line, us, j) ==
  /\ line.cmd \in DOMAIN Conditional /\ us[j].op = Conditional[line.cmd]
  /\ us[j].to = <<"line", line.to>> /\ More(us, j)
  /\ us[j + 1].op = "incline" /\ us[j + 1].to = <<>>
AtJmp(line, us, j) == line.cmd = "Jmp" /\ us[j].op = "jmp" /\ us[j].to = <<"line", line.to>>
AtRetn(line, us, j) == line.cmd = "Ret" /\ us[j].op = "retn" /\ us[j].to = <<>>
AtBump(line, us, j) ==
  /\ line.cmd = "Call" /\ us[j].op = "bump" /\ us[j].to = <<>> /\ More(us, j)
  /\ us[j + 1].op = "call" /\ us[j + 1].to = <<"line", line.to + 1>>
AtCall(line, us, j) ==
  /\ line.cmd = "Call" /\ us[j].op = "call" /\ us[j].to = <<"line", line.to + 1>> /\ More(us, j)
  /\ us[j + 1].op = "pop" /\ us[j + 1].to = <<>> /\ j + 1 = Len(us)
AtPop(line, us, j) ==
  line.cmd = "Call" /\ us[j].op = "pop" /\ us[j].to = <<>> /\ j = Len(us)

Flow(line, us, j) ==
  \/ AtHandler(line, us, j) \/ AtIncline(line, us, j) \/ AtGetPtr(line, us, j)
  \/ AtSave(line, us, j) \/ AtAssign(line, us, j) \/ AtCompare(line, us, j)
  \/ AtSkip(line, us, j) \/ AtFlag(line, us, j) \/ AtTest(line, us, j)
  \/ AtBranch(line, us, j) \/ AtJmp(line, us, j) \/ AtRetn(line, us, j)
  \/ AtBump(line, us, j) \/ AtCall(line, us, j) \/ AtPop(line, us, j)

\* Unit j is one a command begins with.
OpensAt(line, us, j) ==
  /\ j <= Len(us) /\ us[j].to = <<>>
  /\ us[j].op \in {"handler", "getptr", "incline"}
  /\ us[j].op = "getptr" => j + 1 <= Len(us) /\ (Saving(line) => us[j + 1].op = "save")

Flows(line, us) ==
  IsSeq(us) /\ OpensAt(line, us, 1) /\ \A j \in 1 .. Len(us) : Flow(line, us, j)

\* What the makers of units give them.
LEMMA Made ==
  ASSUME NEW op, NEW n, NEW x
  PROVE  /\ Unit(op, n).op = op /\ Unit(op, n).to = <<>>
         /\ Given(op, n, x).op = op /\ Given(op, n, x).to = <<>> /\ Given(op, n, x).arg = x
         /\ JumpTo(op, n, x).op = op /\ JumpTo(op, n, x).to = x
  BY DEF Unit, Given, JumpTo

\* The units every command is made of have no target.
LEMMA MadeHere ==
  /\ Handler.op = "handler" /\ Handler.to = <<>>
  /\ GetPtr.op = "getptr" /\ GetPtr.to = <<>>
  /\ Save.op = "save" /\ Save.to = <<>>
  /\ IsSeq(CountLine) /\ Len(CountLine) = 1
  /\ CountLine[1].op = "incline" /\ CountLine[1].to = <<>>
  <1>1. PICK u : u = Unit("incline", IncLineSaved)
    OBVIOUS
  <1>2. CountLine = <<u>>
    BY <1>1 DEF CountLine
  <1>3. IsSeq(<<u>>) /\ Len(<<u>>) = 1 /\ <<u>>[1] = u
    BY <<u>> \in Seq({u}), OfRange
  <1>4. u.op = "incline" /\ u.to = <<>>
    BY <1>1, Made
  <1>5. /\ Handler.op = "handler" /\ Handler.to = <<>>
        /\ GetPtr.op = "getptr" /\ GetPtr.to = <<>>
        /\ Save.op = "save" /\ Save.to = <<>>
    BY DEF Handler, GetPtr, Save, Unit
  <1> QED
    BY <1>2, <1>3, <1>4, <1>5

\* The elements of short sequences.
LEMMA Two ==
  ASSUME NEW a, NEW b
  PROVE  IsSeq(<<a, b>>) /\ Len(<<a, b>>) = 2 /\ <<a, b>>[1] = a /\ <<a, b>>[2] = b
  BY <<a, b>> \in Seq({a, b}), OfRange

\* A sequence of three, by its places.
LEMMA Three ==
  ASSUME NEW a, NEW b, NEW c
  PROVE  /\ IsSeq(<<a, b, c>>) /\ Len(<<a, b, c>>) = 3
         /\ <<a, b, c>>[1] = a /\ <<a, b, c>>[2] = b /\ <<a, b, c>>[3] = c
  BY <<a, b, c>> \in Seq({a, b, c}), OfRange

\* A sequence of four, by its places.
LEMMA Four ==
  ASSUME NEW a, NEW b, NEW c, NEW d
  PROVE  /\ IsSeq(<<a, b, c, d>>) /\ Len(<<a, b, c, d>>) = 4
         /\ <<a, b, c, d>>[1] = a /\ <<a, b, c, d>>[2] = b
         /\ <<a, b, c, d>>[3] = c /\ <<a, b, c, d>>[4] = d
  BY <<a, b, c, d>> \in Seq({a, b, c, d}), OfRange

\* Units, and then run_line_ is counted up.
LEMMA Counted ==
  ASSUME NEW a, IsSeq(a), NEW c, c = a \o CountLine
  PROVE  /\ IsSeq(c) /\ Len(a) \in Nat /\ Len(c) = Len(a) + 1
         /\ \A k \in 1 .. Len(a) : c[k] = a[k]
         /\ c[Len(a) + 1].op = "incline" /\ c[Len(a) + 1].to = <<>>
  <1>1. PICK b : b = CountLine
    OBVIOUS
  <1>2. IsSeq(b) /\ Len(b) = 1 /\ b[1].op = "incline" /\ b[1].to = <<>>
    BY <1>1, MadeHere
  <1>3. IsSeq(b)
    BY <1>2
  <1>4. /\ IsSeq(a \o b)
        /\ Len(a) \in Nat /\ Len(b) \in Nat /\ Len(a \o b) = Len(a) + Len(b)
        /\ \A k \in 1 .. Len(a) : (a \o b)[k] = a[k]
        /\ \A k \in 1 .. Len(b) : (a \o b)[Len(a) + k] = b[k]
    BY <1>3, JoinIsSeq
  <1>8. c = a \o b
    BY <1>1
  <1>9. c[Len(a) + 1] = b[1]
    BY <1>2, <1>4, <1>8
  <1> QED
    BY <1>2, <1>4, <1>8, <1>9

\* A command whose code calls its handler and goes on.
LEMMA OpaqueFlows ==
  ASSUME NEW p, NEW l, l.cmd \in Opaque
  PROVE  Flows(l, Command(p, l))
  <1>1. PICK u : u = Unit("incline", IncLine)
    OBVIOUS
  <1>2. u.op = "incline" /\ u.to = <<>>
    BY <1>1, Made
  <1>3. PICK cs : cs = <<Handler, u>>
    OBVIOUS
  <1>4. Command(p, l) = cs
    BY <1>1, <1>3, OpaqueAssumption DEF Command, Conditional, Targeted
  <1>5. IsSeq(cs) /\ Len(cs) = 2 /\ cs[1] = Handler /\ cs[2] = u
    BY <1>3, Two
  <1>6. Flow(l, cs, 1)
    BY <1>2, <1>5, MadeHere DEF Flow, AtHandler, More
  <1>7. Flow(l, cs, 2)
    <2>1. l.cmd # "Call"
      BY OpaqueAssumption DEF Targeted
    <2> QED
      BY <2>1, <1>2, <1>5 DEF Flow, AtIncline
  <1>8. OpensAt(l, cs, 1)
    BY <1>5, MadeHere DEF OpensAt
  <1> QED
    BY <1>4, <1>5, <1>6, <1>7, <1>8 DEF Flows

\* A command without code of its own.
LEMMA NothingFlows ==
  ASSUME NEW l, l.cmd # "Call"
  PROVE  Flows(l, CountLine)
  <1>1. Flow(l, CountLine, 1)
    BY MadeHere DEF Flow, AtIncline
  <1>2. OpensAt(l, CountLine, 1)
    BY MadeHere DEF OpensAt
  <1> QED
    BY <1>1, <1>2, MadeHere DEF Flows

\* The units of a jmp.
LEMMA JmpFlows ==
  ASSUME NEW p, NEW l, l.cmd = "Jmp"
  PROVE  Flows(l, Command(p, l))
  <1>1. PICK u : u = JumpTo("jmp", JumpLength, <<"line", l.to>>)
    OBVIOUS
  <1>2. u.op = "jmp" /\ u.to = <<"line", l.to>>
    BY <1>1, Made
  <1>3. PICK cs : cs = <<Handler, u>>
    OBVIOUS
  <1>4. Command(p, l) = cs
    BY <1>1, <1>3, OpaqueAssumption DEF Command, Conditional, Targeted
  <1>5. IsSeq(cs) /\ Len(cs) = 2 /\ cs[1] = Handler /\ cs[2] = u
    BY <1>3, Two
  <1>6. Flow(l, cs, 1)
    BY <1>2, <1>5, MadeHere DEF Flow, AtHandler, More
  <1>7. Flow(l, cs, 2)
    BY <1>2, <1>5 DEF Flow, AtJmp
  <1>8. OpensAt(l, cs, 1)
    BY <1>5, MadeHere DEF OpensAt
  <1> QED
    BY <1>4, <1>5, <1>6, <1>7, <1>8 DEF Flows

\* The units of a ret.
LEMMA RetFlows ==
  ASSUME NEW p, NEW l, l.cmd = "Ret"
  PROVE  Flows(l, Command(p, l))
  <1>1. PICK u : u = Unit("retn", RetnLength)
    OBVIOUS
  <1>2. u.op = "retn" /\ u.to = <<>>
    BY <1>1, Made
  <1>3. PICK cs : cs = <<Handler, u>>
    OBVIOUS
  <1>4. Command(p, l) = cs
    BY <1>1, <1>3, OpaqueAssumption DEF Command, Conditional, Targeted
  <1>5. IsSeq(cs) /\ Len(cs) = 2 /\ cs[1] = Handler /\ cs[2] = u
    BY <1>3, Two
  <1>6. Flow(l, cs, 1)
    BY <1>2, <1>5, MadeHere DEF Flow, AtHandler, More
  <1>7. Flow(l, cs, 2)
    BY <1>2, <1>5 DEF Flow, AtRetn
  <1>8. OpensAt(l, cs, 1)
    BY <1>5, MadeHere DEF OpensAt
  <1> QED
    BY <1>4, <1>5, <1>6, <1>7, <1>8 DEF Flows

\* The units of a call of a script function.
LEMMA CallFlows ==
  ASSUME NEW p, NEW l, l.cmd = "Call"
  PROVE  Flows(l, Command(p, l))
  <1>1. PICK u, v, w : /\ u = Unit("bump", Plain(8) + IncLine)
                       /\ v = JumpTo("call", CallLength, <<"line", l.to + 1>>)
                       /\ w = Unit("pop", Plain(8))
    OBVIOUS
  <1>2. /\ u.op = "bump" /\ u.to = <<>> /\ v.op = "call" /\ v.to = <<"line", l.to + 1>>
        /\ w.op = "pop" /\ w.to = <<>>
    BY <1>1, Made
  <1>3. PICK cs : cs = <<Handler, u, v, w>>
    OBVIOUS
  <1>4. Command(p, l) = cs
    BY <1>1, <1>3, OpaqueAssumption DEF Command, Conditional, Targeted
  <1>5. IsSeq(cs) /\ Len(cs) = 4 /\ cs[1] = Handler /\ cs[2] = u /\ cs[3] = v /\ cs[4] = w
    BY <1>3, Four
  <1>6. Flow(l, cs, 1)
    BY <1>2, <1>5, MadeHere DEF Flow, AtHandler, More
  <1>7. Flow(l, cs, 2)
    BY <1>2, <1>5 DEF Flow, AtBump, More
  <1>8. Flow(l, cs, 3)
    BY <1>2, <1>5 DEF Flow, AtCall, More
  <1>9. Flow(l, cs, 4)
    BY <1>2, <1>5 DEF Flow, AtPop
  <1>10. OpensAt(l, cs, 1)
    BY <1>5, MadeHere DEF OpensAt
  <1> QED
    BY <1>4, <1>5, <1>6, <1>7, <1>8, <1>9, <1>10 DEF Flows

\* The units of a conditional jump.
LEMMA ConditionalFlows ==
  ASSUME NEW p, NEW l, l.cmd \in DOMAIN Conditional
  PROVE  Flows(l, Command(p, l))
  <1>0. DOMAIN Conditional = {"Je", "Jne", "Ja", "Jae", "Jb", "Jbe"}
    BY DEF Conditional
  <1>1. PICK u, v : /\ u = Unit("test", MovImm64 + WithImm(1))
                    /\ v = JumpTo(Conditional[l.cmd], JccLength, <<"line", l.to>>)
    OBVIOUS
  <1>2. u.op = "test" /\ u.to = <<>> /\ v.op = Conditional[l.cmd] /\ v.to = <<"line", l.to>>
    BY <1>1, Made
  <1>3. PICK first, cs : first = <<Handler, u, v>> /\ cs = first \o CountLine
    OBVIOUS
  <1>4. Command(p, l) = cs
    BY <1>0, <1>1, <1>3, OpaqueAssumption DEF Command, Targeted
  <1>5. IsSeq(first) /\ Len(first) = 3 /\ first[1] = Handler /\ first[2] = u /\ first[3] = v
    BY <1>3, Three
  <1>6. /\ IsSeq(cs) /\ Len(cs) = 4 /\ cs[1] = Handler /\ cs[2] = u /\ cs[3] = v
        /\ cs[4].op = "incline" /\ cs[4].to = <<>>
    <2>1. /\ IsSeq(cs) /\ Len(cs) = 3 + 1 /\ \A k \in 1 .. 3 : cs[k] = first[k]
          /\ cs[3 + 1].op = "incline" /\ cs[3 + 1].to = <<>>
      <3>1. IsSeq(first) /\ cs = first \o CountLine
        BY <1>3, <1>5
      <3>2. /\ IsSeq(cs) /\ Len(cs) = Len(first) + 1 /\ \A k \in 1 .. Len(first) : cs[k] = first[k]
            /\ cs[Len(first) + 1].op = "incline" /\ cs[Len(first) + 1].to = <<>>
        BY <3>1, Counted
      <3> QED
        BY <3>2, <1>5
    <2> QED
      BY <2>1, <1>5
  <1>7. Flow(l, cs, 1)
    BY <1>2, <1>6, MadeHere DEF Flow, AtHandler, More
  <1>8. Flow(l, cs, 2)
    BY <1>2, <1>6 DEF Flow, AtTest, More
  <1>9. Flow(l, cs, 3)
    BY <1>2, <1>6, MadeHere DEF Flow, AtBranch, More
  <1>10. Flow(l, cs, 4)
    BY <1>0, <1>6, MadeHere DEF Flow, AtIncline
  <1>11. OpensAt(l, cs, 1)
    BY <1>6, MadeHere DEF OpensAt
  <1> QED
    BY <1>4, <1>6, <1>7, <1>8, <1>9, <1>10, <1>11 DEF Flows

\* The units of mov, add and sub.
LEMMA AssignFlows ==
  ASSUME NEW p, NEW l, l.cmd \in {"Mov", "Add", "Sub"}
  PROVE  Flows(l, Command(p, l))
  <1>1. Command(p, l) = Assign(p, l) \o CountLine
    BY OpaqueAssumption DEF Command, Conditional, Targeted
  <1>2. CASE ~IsVar(l.src)
    <2>1. PICK u, cs : u.op = "assign" /\ u.to = <<>> /\ cs = <<GetPtr, u>> /\ Assign(p, l) = cs
      <3> DEFINE n == IF l.cmd = "Mov" THEN MovImm(SizeIn(p, l.dst))
                      ELSE IF SizeIn(p, l.dst) = 8 THEN MovImm64 + Plain(8)
                      ELSE WithImm(SizeIn(p, l.dst))
      <3>1. Assign(p, l) = <<GetPtr, Unit("assign", n)>>
        BY <1>2 DEF Assign
      <3> QED
        BY <3>1, Made
    <2>2. IsSeq(cs) /\ Len(cs) = 2 /\ cs[1] = GetPtr /\ cs[2] = u
      BY <2>1, Two
    <2>3. PICK c : c = cs \o CountLine
      OBVIOUS
    <2>4. /\ IsSeq(c) /\ Len(c) = 3 /\ c[1] = GetPtr /\ c[2] = u
          /\ c[3].op = "incline" /\ c[3].to = <<>>
      <3>1. /\ IsSeq(c) /\ Len(c) = 2 + 1 /\ \A k \in 1 .. 2 : c[k] = cs[k]
            /\ c[2 + 1].op = "incline" /\ c[2 + 1].to = <<>>
        <4>1. IsSeq(cs) /\ c = cs \o CountLine
          BY <2>2, <2>3
        <4>2. /\ IsSeq(c) /\ Len(c) = Len(cs) + 1 /\ \A k \in 1 .. Len(cs) : c[k] = cs[k]
              /\ c[Len(cs) + 1].op = "incline" /\ c[Len(cs) + 1].to = <<>>
          BY <4>1, Counted
        <4> QED
          BY <4>2, <2>2
      <3> QED
        BY <3>1, <2>2
    <2>5. Flow(l, c, 1)
      BY <2>1, <2>4, MadeHere DEF Flow, AtGetPtr, More
    <2>6. Flow(l, c, 2)
      BY <2>1, <2>4, MadeHere DEF Flow, AtAssign, More
    <2>7. Flow(l, c, 3)
      BY <2>4, MadeHere DEF Flow, AtIncline
    <2>8. Command(p, l) = c
      BY <1>1, <2>1, <2>3
    <2>10. ~Saving(l)
      BY <1>2 DEF Saving
    <2>11. OpensAt(l, c, 1)
      BY <2>4, <2>10, MadeHere DEF OpensAt
    <2>9. Flows(l, c)
      BY <2>4, <2>5, <2>6, <2>7, <2>11 DEF Flows
    <2> QED
      BY <2>8, <2>9
  <1>3. CASE IsVar(l.src)
    <2>1. PICK u, cs : u.op = "assign" /\ u.to = <<>> /\ cs = <<GetPtr, Save, GetPtr, u>> /\ Assign(p, l) = cs
      <3> DEFINE n == 2 * Plain(8) + (IF l.cmd = "Mov"
                            THEN (IF SizeIn(p, l.dst) >= SizeIn(p, l.src) THEN MovImm(SizeIn(p, l.dst)) ELSE 0) + Plain(8)
                            ELSE Plain(MinOf(SizeIn(p, l.dst), SizeIn(p, l.src))))
                         + Plain(MinOf(SizeIn(p, l.dst), SizeIn(p, l.src)))
      <3>1. Assign(p, l) = <<GetPtr, Save, GetPtr, Unit("assign", n)>>
        BY <1>3 DEF Assign
      <3> QED
        BY <3>1, Made
    <2>2. IsSeq(cs) /\ Len(cs) = 4 /\ cs[1] = GetPtr /\ cs[2] = Save /\ cs[3] = GetPtr /\ cs[4] = u
      BY <2>1, Four
    <2>3. PICK c : c = cs \o CountLine
      OBVIOUS
    <2>4. /\ IsSeq(c) /\ Len(c) = 5 /\ c[1] = GetPtr /\ c[2] = Save /\ c[3] = GetPtr /\ c[4] = u
          /\ c[5].op = "incline" /\ c[5].to = <<>>
      <3>1. /\ IsSeq(c) /\ Len(c) = 4 + 1 /\ \A k \in 1 .. 4 : c[k] = cs[k]
            /\ c[4 + 1].op = "incline" /\ c[4 + 1].to = <<>>
        <4>1. IsSeq(cs) /\ c = cs \o CountLine
          BY <2>2, <2>3
        <4>2. /\ IsSeq(c) /\ Len(c) = Len(cs) + 1 /\ \A k \in 1 .. Len(cs) : c[k] = cs[k]
              /\ c[Len(cs) + 1].op = "incline" /\ c[Len(cs) + 1].to = <<>>
          BY <4>1, Counted
        <4> QED
          BY <4>2, <2>2
      <3> QED
        BY <3>1, <2>2
    <2>5. Saving(l)
      BY <1>3 DEF Saving
    <2>6. Flow(l, c, 1)
      BY <2>4, <2>5, MadeHere DEF Flow, AtGetPtr, More
    <2>7. Flow(l, c, 2)
      BY <2>1, <2>4, <2>5, MadeHere DEF Flow, AtSave, More
    <2>8. Flow(l, c, 3)
      BY <2>1, <2>4, MadeHere DEF Flow, AtGetPtr, More
    <2>9. Flow(l, c, 4)
      BY <2>1, <2>4, MadeHere DEF Flow, AtAssign, More
    <2>10. Flow(l, c, 5)
      BY <2>4, MadeHere DEF Flow, AtIncline
    <2>11. Command(p, l) = c
      BY <1>1, <2>1, <2>3
    <2>13. OpensAt(l, c, 1)
      BY <2>4, MadeHere DEF OpensAt
    <2>12. Flows(l, c)
      BY <2>4, <2>6, <2>7, <2>8, <2>9, <2>10, <2>13 DEF Flows
    <2> QED
      BY <2>11, <2>12
  <1> QED
    BY <1>2, <1>3
\* The flags of a comparison.
LEMMA FlagsMade ==
  /\ IsSeq(FlagUnits) /\ Len(FlagUnits) = 7
  /\ FlagUnits[1].op = "jg" /\ FlagUnits[1].to = <<"unit", 4>>
  /\ FlagUnits[2].op = "jl" /\ FlagUnits[2].to = <<"unit", 5>>
  /\ FlagUnits[3].op = "flag" /\ FlagUnits[3].to = <<>> /\ FlagUnits[3].arg = 0
  /\ FlagUnits[4].op = "jmp" /\ FlagUnits[4].to = <<"unit", 4>>
  /\ FlagUnits[5].op = "flag" /\ FlagUnits[5].to = <<>> /\ FlagUnits[5].arg = 1
  /\ FlagUnits[6].op = "jmp" /\ FlagUnits[6].to = <<"unit", 2>>
  /\ FlagUnits[7].op = "flag" /\ FlagUnits[7].to = <<>> /\ FlagUnits[7].arg = -1
  <1> DEFINE Flag(f) == Given("flag", MovImm64 + WithImm(1), f)
  <1>1. PICK a, b, c, d, e, f, g :
          /\ a = JumpTo("jg", JccLength, <<"unit", 4>>) /\ b = JumpTo("jl", JccLength, <<"unit", 5>>)
          /\ c = Flag(0) /\ d = JumpTo("jmp", JumpLength, <<"unit", 4>>)
          /\ e = Flag(1) /\ f = JumpTo("jmp", JumpLength, <<"unit", 2>>)
          /\ g = Flag(-1)
    OBVIOUS
  <1>2. FlagUnits = <<a, b, c, d, e, f, g>>
    BY <1>1 DEF FlagUnits
  <1>3. a.op = "jg" /\ a.to = <<"unit", 4>> /\ b.op = "jl" /\ b.to = <<"unit", 5>>
    BY <1>1 DEF JumpTo, Unit
  <1>4. d.op = "jmp" /\ d.to = <<"unit", 4>> /\ f.op = "jmp" /\ f.to = <<"unit", 2>>
    BY <1>1 DEF JumpTo, Unit
  <1>5. /\ c.op = "flag" /\ c.to = <<>> /\ c.arg = 0
        /\ e.op = "flag" /\ e.to = <<>> /\ e.arg = 1
        /\ g.op = "flag" /\ g.to = <<>> /\ g.arg = -1
    BY <1>1 DEF Given, Unit
  <1> HIDE DEF Flag
  <1>6. PICK us : us = <<a, b, c, d, e, f, g>>
    OBVIOUS
  <1>7. us \in Seq({a, b, c, d, e, f, g}) /\ Len(us) = 7
    BY <1>6
  <1>8. us[1] = a /\ us[2] = b /\ us[3] = c /\ us[4] = d /\ us[5] = e /\ us[6] = f /\ us[7] = g
    BY <1>6
  <1>9. IsSeq(us)
    BY <1>7, OfRange
  <1>10. FlagUnits = us
    BY <1>2, <1>6
  <1> QED
    BY <1>3, <1>4, <1>5, <1>7, <1>8, <1>9, <1>10

\* After n units, those that store the flag a comparison leaves, and the line counted.
FlagsAfter(cs, n) ==
  /\ Len(cs) = n + 8
  /\ \A i \in 1 .. 7 : cs[n + i] = FlagUnits[i]
  /\ cs[n + 8].op = "incline" /\ cs[n + 8].to = <<>>

LEMMA FlagFlows ==
  ASSUME NEW l, l.cmd # "Call", NEW cs, NEW n \in Nat, FlagsAfter(cs, n)
  PROVE  \A i \in 1 .. 8 : Flow(l, cs, n + i)
  <1>1. PICK a, b, c, d, e, f, g, h : /\ a = cs[n + 1] /\ b = cs[n + 2] /\ c = cs[n + 3] /\ d = cs[n + 4]
                                      /\ e = cs[n + 5] /\ f = cs[n + 6] /\ g = cs[n + 7] /\ h = cs[n + 8]
    OBVIOUS
  <1>2. /\ a = FlagUnits[1] /\ b = FlagUnits[2] /\ c = FlagUnits[3] /\ d = FlagUnits[4]
        /\ e = FlagUnits[5] /\ f = FlagUnits[6] /\ g = FlagUnits[7]
    BY <1>1 DEF FlagsAfter
  <1>3. /\ a.op = "jg" /\ a.to = <<"unit", 4>> /\ b.op = "jl" /\ b.to = <<"unit", 5>>
        /\ d.op = "jmp" /\ d.to = <<"unit", 4>> /\ f.op = "jmp" /\ f.to = <<"unit", 2>>
        /\ c.op = "flag" /\ c.to = <<>> /\ c.arg \in Int
        /\ e.op = "flag" /\ e.to = <<>> /\ e.arg \in Int
        /\ g.op = "flag" /\ g.to = <<>> /\ g.arg \in Int
        /\ h.op = "incline" /\ h.to = <<>>
    <2>1. h.op = "incline" /\ h.to = <<>>
      BY <1>1 DEF FlagsAfter
    <2> QED
      BY <1>2, <2>1, FlagsMade
  <1>4. ToUnit(a) /\ ToUnit(b) /\ ToUnit(d) /\ ToUnit(f)
    BY <1>3 DEF ToUnit, Jumps
  <1>5. /\ (n + 1) + 1 = n + 2 /\ (n + 2) + 1 = n + 3 /\ (n + 3) + 1 = n + 4 /\ (n + 4) + 1 = n + 5
        /\ (n + 5) + 1 = n + 6 /\ (n + 6) + 1 = n + 7 /\ (n + 7) + 1 = n + 8
        /\ (n + 1) + 4 = n + 5 /\ (n + 2) + 5 = n + 7 /\ (n + 4) + 4 = n + 8 /\ (n + 6) + 2 = n + 8
        /\ \A i \in 1 .. 8 : n + i \in 1 .. n + 8
    OBVIOUS
  <1>20. Len(cs) = n + 8 /\ \A i \in 1 .. 8 : n + i \in 1 .. Len(cs) /\ n + i <= Len(cs)
    BY <1>5 DEF FlagsAfter
  <1>6. a.to[2] = 4 /\ b.to[2] = 5 /\ d.to[2] = 4 /\ f.to[2] = 2
    BY <1>3
  <1>7. Flow(l, cs, n + 1)
    <2>1. n + 5 \in 1 .. Len(cs) /\ n + 5 = (n + 1) + a.to[2]
      BY <1>5, <1>6, <1>20
    <2>2. Lands(cs, n + 1, n + 5)
      BY <2>1, <1>1, <1>3 DEF Lands
    <2> QED
      BY <2>2, <1>1, <1>3, <1>4, <1>5, <1>6, <1>20 DEF Flow, AtSkip, More
  <1>8. Flow(l, cs, n + 2)
    <2>1. n + 7 \in 1 .. Len(cs) /\ n + 7 = (n + 2) + b.to[2]
      BY <1>5, <1>6, <1>20
    <2>2. Lands(cs, n + 2, n + 7)
      BY <2>1, <1>1, <1>3 DEF Lands
    <2> QED
      BY <2>2, <1>1, <1>3, <1>4, <1>5, <1>6, <1>20 DEF Flow, AtSkip, More
  <1>9. Flow(l, cs, n + 3)
    BY <1>1, <1>3, <1>4, <1>5, <1>20 DEF Flow, AtFlag, More
  <1>10. Flow(l, cs, n + 4)
    <2>1. n + 8 \in 1 .. Len(cs) /\ n + 8 = (n + 4) + d.to[2]
      BY <1>5, <1>6, <1>20
    <2>2. Lands(cs, n + 4, n + 8)
      BY <2>1, <1>1, <1>3 DEF Lands
    <2> QED
      BY <2>2, <1>1, <1>3, <1>4, <1>5, <1>6, <1>20 DEF Flow, AtSkip, More
  <1>11. Flow(l, cs, n + 5)
    BY <1>1, <1>3, <1>4, <1>5, <1>20 DEF Flow, AtFlag, More
  <1>12. Flow(l, cs, n + 6)
    <2>1. n + 8 \in 1 .. Len(cs) /\ n + 8 = (n + 6) + f.to[2]
      BY <1>5, <1>6, <1>20
    <2>2. Lands(cs, n + 6, n + 8)
      BY <2>1, <1>1, <1>3 DEF Lands
    <2> QED
      BY <2>2, <1>1, <1>3, <1>4, <1>5, <1>6, <1>20 DEF Flow, AtSkip, More
  <1>13. Flow(l, cs, n + 7)
    BY <1>1, <1>3, <1>5, <1>20 DEF Flow, AtFlag, More
  <1>14. Flow(l, cs, n + 8)
    BY <1>1, <1>3, <1>20 DEF Flow, AtIncline
  <1>15. \A i \in 1 .. 8 : i = 1 \/ i = 2 \/ i = 3 \/ i = 4 \/ i = 5 \/ i = 6 \/ i = 7 \/ i = 8
    OBVIOUS
  <1> QED
    BY <1>7, <1>8, <1>9, <1>10, <1>11, <1>12, <1>13, <1>14, <1>15

\* The units of a cmpr.
LEMMA CompareFlows ==
  ASSUME NEW p, NEW l, l.cmd = "Cmpr"
  PROVE  Flows(l, Command(p, l))
  <1>1. Command(p, l) = Compare(p, l) \o CountLine
    BY OpaqueAssumption DEF Command, Conditional, Targeted
  <1>2. PICK n, first : /\ IsSeq(first) /\ Len(first) = n /\ n \in {2, 4}
                        /\ Compare(p, l) = first \o FlagUnits
                        /\ \A j \in 1 .. n : first[j].to = <<>>
                        /\ first[n].op = "compare"
                        /\ n = 2 => first[1].op = "getptr" /\ ~Saving(l)
                        /\ n = 4 => /\ first[1].op = "getptr" /\ first[2].op = "save"
                                    /\ first[3].op = "getptr" /\ Saving(l)
    <2> DEFINE Widened(s) == IF s = 8 THEN Plain(8) ELSE 3 * Plain(s) + MovImm64
               m == 2 * Plain(8) + Widened(SizeIn(p, l.dst)) + Widened(SizeIn(p, l.src)) + Plain(8)
    <2>1. CASE IsVar(l.dst) /\ ~IsVar(l.src)
      <3>1. PICK u, a : /\ u = Unit("compare", MovImm64 + Plain(SizeIn(p, l.dst)) + WithImm(8))
                        /\ a = <<GetPtr, u>>
        OBVIOUS
      <3>2. Compare(p, l) = a \o FlagUnits
        BY <2>1, <3>1 DEF Compare
      <3>3. u.op = "compare" /\ u.to = <<>>
        BY <3>1, Made
      <3>4. IsSeq(a) /\ Len(a) = 2 /\ a[1] = GetPtr /\ a[2] = u
        BY <3>1, Two
      <3>5. /\ \A j \in 1 .. 2 : a[j].to = <<>>
            /\ a[1].op = "getptr" /\ a[2].op = "compare"
        BY <3>3, <3>4, MadeHere
      <3>6. PICK n : n = 2
        OBVIOUS
      <3>8. ~Saving(l)
        BY <2>1 DEF Saving, IsVar
      <3>7. /\ IsSeq(a) /\ Len(a) = n /\ n \in {2, 4} /\ Compare(p, l) = a \o FlagUnits
            /\ \A j \in 1 .. n : a[j].to = <<>>
            /\ a[n].op = "compare" /\ a[1].op = "getptr" /\ n # 4
        BY <3>2, <3>4, <3>5, <3>6
      <3> QED
        BY <3>7, <3>8
    <2>2. CASE IsVar(l.src) /\ ~IsVar(l.dst)
      <3>1. PICK u, a : /\ u = Unit("compare", MovImm64 + Plain(SizeIn(p, l.src)) + WithImm(8))
                        /\ a = <<GetPtr, u>>
        OBVIOUS
      <3>2. Compare(p, l) = a \o FlagUnits
        BY <2>2, <3>1 DEF Compare
      <3>3. u.op = "compare" /\ u.to = <<>>
        BY <3>1, Made
      <3>4. IsSeq(a) /\ Len(a) = 2 /\ a[1] = GetPtr /\ a[2] = u
        BY <3>1, Two
      <3>5. /\ \A j \in 1 .. 2 : a[j].to = <<>>
            /\ a[1].op = "getptr" /\ a[2].op = "compare"
        BY <3>3, <3>4, MadeHere
      <3>6. PICK n : n = 2
        OBVIOUS
      <3>8. ~Saving(l)
        BY <2>2 DEF Saving, IsVar
      <3>7. /\ IsSeq(a) /\ Len(a) = n /\ n \in {2, 4} /\ Compare(p, l) = a \o FlagUnits
            /\ \A j \in 1 .. n : a[j].to = <<>>
            /\ a[n].op = "compare" /\ a[1].op = "getptr" /\ n # 4
        BY <3>2, <3>4, <3>5, <3>6
      <3> QED
        BY <3>7, <3>8
    <2>3. CASE ~(IsVar(l.dst) /\ ~IsVar(l.src)) /\ ~(IsVar(l.src) /\ ~IsVar(l.dst))
      <3>1. PICK u, a : u = Unit("compare", m) /\ a = <<GetPtr, Save, GetPtr, u>>
        OBVIOUS
      <3>2. Compare(p, l) = a \o FlagUnits
        BY <2>3, <3>1 DEF Compare
      <3>3. u.op = "compare" /\ u.to = <<>>
        BY <3>1, Made
      <3>4. IsSeq(a) /\ Len(a) = 4 /\ a[1] = GetPtr /\ a[2] = Save /\ a[3] = GetPtr /\ a[4] = u
        BY <3>1, Four
      <3>5. Saving(l)
        BY <2>3 DEF Saving, IsVar
      <3>6. \A j \in 1 .. 4 : a[j].to = <<>>
        BY <3>3, <3>4, MadeHere
      <3>7. a[1].op = "getptr" /\ a[2].op = "save" /\ a[3].op = "getptr" /\ a[4].op = "compare"
        BY <3>3, <3>4, MadeHere
      <3> QED
        BY <3>2, <3>4, <3>5, <3>6, <3>7
    <2> QED
      BY <2>1, <2>2, <2>3
  <1>3. PICK flags, body, cs : flags = FlagUnits /\ body = first \o flags /\ cs = body \o CountLine
    OBVIOUS
  <1>4. IsSeq(flags) /\ Len(flags) = 7 /\ flags[1].op = "jg" /\ flags[1].to = <<"unit", 4>>
    BY <1>3, FlagsMade
  <1>5. IsSeq(body) /\ Len(body) = n + 7 /\ (\A j \in 1 .. n : body[j] = first[j])
        /\ \A j \in 1 .. 7 : body[n + j] = flags[j]
    <2>1. IsSeq(first) /\ IsSeq(flags)
      BY <1>2, <1>4
    <2>2. /\ IsSeq(first \o flags) /\ Len(first \o flags) = Len(first) + Len(flags)
          /\ \A k \in 1 .. Len(first) : (first \o flags)[k] = first[k]
          /\ \A k \in 1 .. Len(flags) : (first \o flags)[Len(first) + k] = flags[k]
      BY <2>1, JoinIsSeq
    <2> QED
      BY <2>2, <1>2, <1>3, <1>4
  <1>6. /\ IsSeq(cs) /\ Len(cs) = Len(body) + 1
        /\ \A k \in 1 .. Len(body) : cs[k] = body[k]
        /\ cs[Len(body) + 1].op = "incline" /\ cs[Len(body) + 1].to = <<>>
    <2>1. IsSeq(body) /\ cs = body \o CountLine
      BY <1>3, <1>5
    <2> QED
      BY <2>1, Counted
  <1>7. n \in Nat /\ Len(cs) = n + 8 /\ (\A j \in 1 .. n : cs[j] = first[j]) /\ FlagsAfter(cs, n)
    <2>1. n \in Nat /\ (n + 7) + 1 = n + 8
      BY <1>2
    <2>2. Len(cs) = n + 8 /\ cs[n + 8].op = "incline" /\ cs[n + 8].to = <<>>
      BY <2>1, <1>5, <1>6
    <2>3. \A j \in 1 .. n : cs[j] = first[j]
      <3>1. \A j \in 1 .. n : j \in 1 .. n + 7
        BY <2>1
      <3> QED
        BY <3>1, <1>5, <1>6
    <2>4. \A i \in 1 .. 7 : cs[n + i] = FlagUnits[i]
      <3>1. \A i \in 1 .. 7 : n + i \in 1 .. n + 7
        BY <2>1
      <3>2. \A i \in 1 .. 7 : cs[n + i] = body[n + i]
        BY <3>1, <1>5, <1>6
      <3> QED
        BY <3>2, <1>3, <1>5
    <2> QED
      BY <2>1, <2>2, <2>3, <2>4 DEF FlagsAfter
  <1>8. \A i \in 1 .. 8 : Flow(l, cs, n + i)
    <2>1. l.cmd # "Call"
      OBVIOUS
    <2> QED
      BY <2>1, <1>7, FlagFlows
  <1>9. cs[n + 1].op = "jg" /\ ToUnit(cs[n + 1])
    <2>1. 1 \in 1 .. 7
      OBVIOUS
    <2>2. cs[n + 1] = flags[1]
      BY <2>1, <1>3, <1>7, Zenon DEF FlagsAfter
    <2> QED
      BY <2>2, <1>4 DEF ToUnit, Jumps
  <1>10. ASSUME NEW j \in 1 .. n PROVE Flow(l, cs, j)
    <2>1. CASE n = 2
      <3>1. cs[1].op = "getptr" /\ cs[1].to = <<>> /\ cs[2].op = "compare" /\ cs[2].to = <<>>
        BY <2>1, <1>2, <1>7
      <3>2. cs[3].op = "jg" /\ ToUnit(cs[3]) /\ Len(cs) = 10
        BY <2>1, <1>7, <1>9
      <3>3. Flow(l, cs, 1)
        BY <3>1, <3>2 DEF Flow, AtGetPtr, More
      <3>4. Flow(l, cs, 2)
        BY <3>1, <3>2 DEF Flow, AtCompare, More
      <3> QED
        BY <2>1, <3>3, <3>4
    <2>2. CASE n = 4
      <3>1. /\ cs[1].op = "getptr" /\ cs[1].to = <<>> /\ cs[2].op = "save" /\ cs[2].to = <<>>
            /\ cs[3].op = "getptr" /\ cs[3].to = <<>> /\ cs[4].op = "compare" /\ cs[4].to = <<>>
            /\ Saving(l)
        BY <2>2, <1>2, <1>7
      <3>2. cs[5].op = "jg" /\ ToUnit(cs[5]) /\ Len(cs) = 12
        BY <2>2, <1>7, <1>9
      <3>3. Flow(l, cs, 1)
        BY <3>1, <3>2 DEF Flow, AtGetPtr, More
      <3>4. Flow(l, cs, 2)
        BY <3>1, <3>2 DEF Flow, AtSave, More
      <3>5. Flow(l, cs, 3)
        BY <3>1, <3>2 DEF Flow, AtGetPtr, More
      <3>6. Flow(l, cs, 4)
        BY <3>1, <3>2 DEF Flow, AtCompare, More
      <3> QED
        BY <2>2, <3>3, <3>4, <3>5, <3>6
    <2> QED
      BY <1>2, <2>1, <2>2
  <1>13. OpensAt(l, cs, 1)
    <2>1. CASE n = 2
      <3>1. ~Saving(l)
        BY <2>1, <1>2 DEF Saving
      <3> QED
        BY <2>1, <3>1, <1>2, <1>7 DEF OpensAt
    <2>2. CASE n = 4
      BY <2>2, <1>2, <1>7 DEF OpensAt
    <2> QED
      BY <1>2, <2>1, <2>2
  <1>11. Flows(l, cs)
    <2>1. \A j \in 1 .. n + 8 : j \in 1 .. n \/ \E i \in 1 .. 8 : j = n + i
      <3> SUFFICES ASSUME NEW j \in 1 .. n + 8, ~(j \in 1 .. n) PROVE \E i \in 1 .. 8 : j = n + i
        OBVIOUS
      <3>1. j - n \in 1 .. 8 /\ j = n + (j - n)
        BY <1>7
      <3> QED
        BY <3>1
    <2> QED
      BY <2>1, <1>6, <1>7, <1>8, <1>10, <1>13 DEF Flows
  <1>12. Command(p, l) = cs
    BY <1>1, <1>2, <1>3
  <1> QED
    BY <1>11, <1>12

\* The units of a command flow one into the other.
LEMMA CommandFlows ==
  ASSUME NEW p, NEW l
  PROVE  Flows(l, Command(p, l))
  <1>1. CASE l.cmd \in Opaque
    BY <1>1, OpaqueFlows
  <1>2. CASE l.cmd \in {"Mov", "Add", "Sub"}
    BY <1>2, AssignFlows
  <1>3. CASE l.cmd = "Cmpr"
    BY <1>3, CompareFlows
  <1>4. CASE l.cmd = "Jmp"
    BY <1>4, JmpFlows
  <1>5. CASE l.cmd \in DOMAIN Conditional
    BY <1>5, ConditionalFlows
  <1>6. CASE l.cmd = "Ret"
    BY <1>6, RetFlows
  <1>7. CASE l.cmd = "Call"
    BY <1>7, CallFlows
  <1>8. CASE ~(l.cmd \in Opaque) /\ ~(l.cmd \in {"Mov", "Add", "Sub", "Cmpr", "Jmp", "Ret", "Call"}
                                                \cup DOMAIN Conditional)
    <2>1. Command(p, l) = CountLine
      BY <1>8, OpaqueAssumption DEF Command, Conditional, Targeted
    <2>2. l.cmd # "Call"
      BY <1>8
    <2>3. Flows(l, CountLine)
      BY <2>2, NothingFlows
    <2> QED
      BY <2>1, <2>3
  <1> QED
    BY <1>1, <1>2, <1>3, <1>4, <1>5, <1>6, <1>7, <1>8

\* The whole code starts with that of the first lines.
LEMMA FullStarts ==
  ASSUME NEW p, IsScript(p), NEW l \in 0 .. Len(p.lines)
  PROVE  \A k \in 1 .. Len(CodeOf(p, l)) : FullCode(p)[k] = CodeOf(p, l)[k]
  <1>0. PICK n : n = Len(p.lines)
    OBVIOUS
  <1>1. n \in Nat /\ n \in l .. n /\ n \in 0 .. n
    BY <1>0 DEF IsScript
  <1>2. PICK a, b, us, c : /\ a = CodeOf(p, n) /\ us = Epilogue /\ b = Placed(us, n, CodeSize(a))
                           /\ c = a \o b
    OBVIOUS
  <1>3. GoodUnits(us, 0)
    BY <1>2, GoodEpilogue
  <1>4. Sound(a, n)
    BY <1>0, <1>1, <1>2, LinesSound
  <1>5. Joined(a, n, us, b, c)
    BY <1>1, <1>2, <1>3, <1>4, SoundJoin
  <1>6. \A k \in 1 .. Len(a) : c[k] = a[k]
    BY <1>5 DEF Joined
  <1>7. c = FullCode(p)
    BY <1>0, <1>2 DEF FullCode
  <1>8. Len(CodeOf(p, l)) <= Len(a) /\ \A k \in 1 .. Len(CodeOf(p, l)) : a[k] = CodeOf(p, l)[k]
    BY <1>0, <1>1, <1>2, EarlierLines
  <1>9. Len(a) \in Nat /\ Len(CodeOf(p, l)) \in Nat
    BY <1>0, <1>4, LinesSound DEF Sound
  <1>10. \A k \in 1 .. Len(CodeOf(p, l)) : k \in 1 .. Len(a)
    BY <1>8, <1>9
  <1> QED
    BY <1>6, <1>7, <1>8, <1>10

\* The units of a line with a command: perhaps run_line_ is set first.
LEMMA FuncUnits ==
  ASSUME NEW p, NEW l, p.lines[l + 1].flag = "Func", NEW us, us = UnitsOf(p, l)
  PROVE  /\ IsSeq(us)
         /\ \/ ~Whole(p)[l].need /\ Flows(p.lines[l + 1], us)
            \/ \E cs : /\ Flows(p.lines[l + 1], cs) /\ Len(us) = 1 + Len(cs)
                       /\ us[1].op = "setline" /\ us[1].to = <<>> /\ us[1].arg = l
                       /\ \A k \in 1 .. Len(cs) : us[k + 1] = cs[k]
  <1>1. PICK line, cs, u : /\ line = p.lines[l + 1] /\ cs = Command(p, line) /\ u = SetLine(l)
    OBVIOUS
  <1>2. Flows(line, cs) /\ IsSeq(cs)
    BY <1>1, CommandFlows DEF Flows
  <1>3. CASE Whole(p)[l].need
    <2>1. us = <<u>> \o cs
      BY <1>1, <1>3 DEF UnitsOf, LineUnits
    <2>2. IsSeq(<<u>>) /\ Len(<<u>>) = 1 /\ <<u>>[1] = u
      BY <<u>> \in Seq({u}), OfRange
    <2>3. PICK a : a = <<u>>
      OBVIOUS
    <2>4. /\ IsSeq(a \o cs) /\ Len(cs) \in Nat /\ Len(a \o cs) = Len(a) + Len(cs)
          /\ \A k \in 1 .. Len(a) : (a \o cs)[k] = a[k]
          /\ \A k \in 1 .. Len(cs) : (a \o cs)[Len(a) + k] = cs[k]
      <3>1. IsSeq(a)
        BY <2>2, <2>3
      <3> QED
        BY <3>1, <1>2, JoinIsSeq
    <2>5. IsSeq(us) /\ Len(us) = 1 + Len(cs) /\ us[1] = u /\ \A k \in 1 .. Len(cs) : us[k + 1] = cs[k]
      <3>1. Len(a) = 1 /\ us = a \o cs /\ a[1] = u
        BY <2>1, <2>2, <2>3
      <3>2. \A k \in 1 .. Len(cs) : 1 + k = k + 1
        OBVIOUS
      <3> QED
        BY <3>1, <3>2, <2>4
    <2>6. u.op = "setline" /\ u.to = <<>> /\ u.arg = l
      BY <1>1 DEF SetLine, Given, Unit
    <2> QED
      BY <1>1, <1>2, <2>5, <2>6
  <1>4. CASE ~Whole(p)[l].need
    <2>1. us = <<>> \o cs
      BY <1>1, <1>4 DEF UnitsOf, LineUnits
    <2>2. us = cs
      <3>1. \A V : \A s \in Seq(V) : <<>> \o s = s
        OBVIOUS
      <3> QED
        BY <2>1, <3>1, <1>2 DEF IsSeq
    <2> QED
      BY <1>1, <1>2, <1>4, <2>2
  <1> QED
    BY <1>3, <1>4

\* The units of a line that calls a function of the embedder.
LEMMA UFuncUnits ==
  ASSUME NEW p, NEW l, p.lines[l + 1].flag = "UFunc", NEW us, us = UnitsOf(p, l)
  PROVE  /\ IsSeq(us) /\ Len(us) = 3
         /\ us[1].op = "pushargs" /\ us[1].to = <<>>
         /\ us[2].op = "foreign" /\ us[2].to = <<>>
         /\ us[3].op = "incline" /\ us[3].to = <<>>
  <1>1. PICK u, v, a : /\ u = Unit("pushargs", 2 * PushImm64) /\ v = Unit("foreign", MovImm64 + Plain(4))
                       /\ a = <<u, v>>
    OBVIOUS
  <1>2. us = a \o CountLine
    BY <1>1 DEF UnitsOf, LineUnits
  <1>3. IsSeq(a) /\ Len(a) = 2 /\ a[1] = u /\ a[2] = v
    BY <1>1, Two
  <1>4. u.op = "pushargs" /\ u.to = <<>> /\ v.op = "foreign" /\ v.to = <<>>
    BY <1>1, Made
  <1>5. /\ IsSeq(us) /\ Len(us) = Len(a) + 1 /\ \A k \in 1 .. Len(a) : us[k] = a[k]
        /\ us[Len(a) + 1].op = "incline" /\ us[Len(a) + 1].to = <<>>
    <2>1. IsSeq(a)
      BY <1>3
    <2> QED
      BY <2>1, <1>2, Counted
  <1> QED
    BY <1>3, <1>4, <1>5

\* The units of a declaration.
LEMMA CFuncUnits ==
  ASSUME NEW p, NEW l, p.lines[l + 1].flag = "CFunc", NEW us, us = UnitsOf(p, l)
  PROVE  /\ IsSeq(us) /\ Len(us) = 2
         /\ us[1].op = "setline" /\ us[1].to = <<>> /\ us[1].arg = AfterRet(p, l)
         /\ us[2].op = "jmp" /\ us[2].to = <<"line", AfterRet(p, l)>>
  <1>1. PICK u, v : /\ u = SetLine(AfterRet(p, l))
                    /\ v = JumpTo("jmp", JumpLength, <<"line", AfterRet(p, l)>>)
    OBVIOUS
  <1>2. us = <<u, v>>
    BY <1>1 DEF UnitsOf, LineUnits
  <1>3. u.op = "setline" /\ u.to = <<>> /\ u.arg = AfterRet(p, l)
    BY <1>1 DEF SetLine, Given, Unit
  <1>4. v.op = "jmp" /\ v.to = <<"line", AfterRet(p, l)>>
    BY <1>1, Made
  <1>5. IsSeq(<<u, v>>) /\ Len(<<u, v>>) = 2 /\ <<u, v>>[1] = u /\ <<u, v>>[2] = v
    BY Two
  <1> QED
    BY <1>2, <1>3, <1>4, <1>5

\* Other lines have no code.
LEMMA NoUnits ==
  ASSUME NEW p, NEW l, p.lines[l + 1].flag \notin {"Func", "UFunc", "CFunc"}
  PROVE  UnitsOf(p, l) = <<>>
  BY DEF UnitsOf, LineUnits

\* Where a unit of a line is in the whole code, and what follows it.
Spot(p, l, j) == Len(CodeOf(p, l)) + j

IsSpot(p, l, us, j, c, k) ==
  /\ Len(us) \in Nat /\ Len(CodeOf(p, l)) \in Nat /\ k \in 2 .. Len(c)
  /\ Len(CodeOf(p, l + 1)) = Len(CodeOf(p, l)) + Len(us)
  /\ c[k].op = us[j].op /\ c[k].arg = us[j].arg /\ c[k].to = us[j].to
  /\ c[k].length = us[j].length /\ c[k].line = l /\ c[k].at \in Nat /\ c[k].length \in Nat
  /\ c[k].at + c[k].length = IF j < Len(us) THEN c[k + 1].at ELSE CodeSize(CodeOf(p, l + 1))

\* The j-th unit of a line, in the whole code.
LEMMA UnitInCode ==
  ASSUME NEW p, IsScript(p), NEW l \in 0 .. Len(p.lines) - 1, NEW us, us = UnitsOf(p, l),
         NEW j \in 1 .. Len(us), NEW k, k = Spot(p, l, j), NEW c, c = FullCode(p)
  PROVE  IsSpot(p, l, us, j, c, k)
  <1>0. Len(p.lines) \in Nat /\ l + 1 \in 0 .. Len(p.lines) /\ l \in 0 .. Len(p.lines) /\ l \in Nat
    BY DEF IsScript
  <1>1. PICK a, b, d : /\ a = CodeOf(p, l) /\ b = Placed(us, l, CodeSize(a)) /\ d = CodeOf(p, l + 1)
    OBVIOUS
  <1>2. GoodUnits(us, 0)
    BY GoodLine DEF UnitsOf
  <1>3. Sound(a, l) /\ Sound(c, Len(p.lines) + 1)
    BY <1>0, <1>1, LinesSound, FullSound
  <1>4. d = a \o b
    BY <1>1, NextLine DEF UnitsOf
  <1>5. CodeSize(a) \in Nat /\ Len(a) \in Nat
    BY <1>3 DEF Sound
  <1>6. LaidOut(b, us, l, CodeSize(a))
    BY <1>1, <1>2, <1>5, PlacedUnits
  <1>7. Joined(a, l, us, b, d)
    <2>1. Sound(a, l) /\ b = Placed(us, l, CodeSize(a)) /\ l \in Nat
      BY <1>0, <1>1, <1>3
    <2> QED
      BY <2>1, <1>2, <1>4, SoundJoin
  <1>8. /\ Len(us) \in Nat /\ Len(b) = Len(us) /\ Len(d) = Len(a) + Len(us)
        /\ \A i \in 1 .. Len(us) : d[Len(a) + i] = b[i]
    <2>1. Len(us) \in Nat
      BY <1>2 DEF GoodUnits, IsSeq
    <2> QED
      BY <2>1, <1>7 DEF Joined
  <1>9. BeginsAt(c, l + 1, Len(d), CodeSize(d))
    BY <1>0, <1>1, FullSound
  <1>10. \A i \in 1 .. Len(d) : c[i] = d[i]
    BY <1>0, <1>1, FullStarts
  <1>11. k \in 2 .. Len(c) /\ k \in 1 .. Len(d) /\ k = Len(a) + j
    <2>1. Len(a) >= 1 /\ Len(c) \in Nat
      BY <1>3 DEF Sound
    <2>2. k = Len(a) + j /\ Len(d) + 1 <= Len(c)
      BY <1>1, <1>9 DEF Spot, BeginsAt
    <2> QED
      BY <2>1, <2>2, <1>5, <1>8
  <1>12. c[k] = b[j] /\ (j < Len(us) => k + 1 = Len(a) + (j + 1) /\ k + 1 \in 1 .. Len(d) /\ c[k + 1] = b[j + 1])
    <2>1. c[k] = b[j]
      BY <1>8, <1>10, <1>11
    <2>2. ASSUME j < Len(us) PROVE k + 1 = Len(a) + (j + 1) /\ k + 1 \in 1 .. Len(d) /\ c[k + 1] = b[j + 1]
      <3>1. k + 1 = Len(a) + (j + 1) /\ k + 1 \in 1 .. Len(d) /\ j + 1 \in 1 .. Len(us)
        BY <2>2, <1>5, <1>8, <1>11
      <3> QED
        BY <3>1, <1>8, <1>10
    <2> QED
      BY <2>1, <2>2
  <1>13. /\ \A i \in 1 .. Len(b) : /\ IsPlaced(b[i])
                                   /\ b[i].op = us[i].op /\ b[i].arg = us[i].arg /\ b[i].to = us[i].to
                                   /\ b[i].line = l /\ b[i].length = us[i].length
         /\ \A i \in 1 .. Len(b) - 1 : b[i + 1].at = b[i].at + b[i].length
    BY <1>6 DEF LaidOut
  <1>14. us[j].length \in Nat
    BY <1>2 DEF GoodUnits, IsUnit
  <1>15. c[k].at \in Nat
    BY <1>8, <1>12, <1>13 DEF IsPlaced
  <1>16. c[k].at + c[k].length = IF j < Len(us) THEN c[k + 1].at ELSE CodeSize(d)
    <2>1. CASE j < Len(us)
      <3>1. c[k] = b[j] /\ c[k + 1] = b[j + 1]
        BY <2>1, <1>12
      <3>2. j \in 1 .. Len(b) - 1
        BY <2>1, <1>5, <1>8
      <3>3. b[j + 1].at = b[j].at + b[j].length
        BY <3>2, <1>13
      <3> QED
        BY <2>1, <3>1, <3>3
    <2>2. CASE ~(j < Len(us))
      <3>1. j = Len(us) /\ k = Len(d)
        BY <2>2, <1>8, <1>11
      <3>2. d[Len(d)] = c[k]
        BY <3>1, <1>10, <1>11
      <3>3. CodeSize(d) = d[Len(d)].at + d[Len(d)].length
        <4>1. PICK n : n = Len(d)
          OBVIOUS
        <4>2. Last(d) = d[n]
          BY <4>1 DEF Last
        <4> QED
          BY <4>1, <4>2 DEF CodeSize
      <3> QED
        BY <2>2, <3>2, <3>3
    <2> QED
      BY <2>1, <2>2
  <1>17. /\ c[k].op = us[j].op /\ c[k].arg = us[j].arg /\ c[k].to = us[j].to
         /\ c[k].length = us[j].length /\ c[k].line = l
    BY <1>8, <1>12, <1>13
  <1>18. Len(CodeOf(p, l)) \in Nat /\ Len(CodeOf(p, l + 1)) = Len(CodeOf(p, l)) + Len(us)
    BY <1>1, <1>5, <1>8
  <1>19. c[k].length \in Nat
    BY <1>14, <1>17
  <1> QED
    BY <1>1, <1>8, <1>11, <1>15, <1>16, <1>17, <1>18, <1>19 DEF IsSpot

-----------------------------------------------------------------------------
\* A line with a command may begin by setting run_line_.
Sets(line, us, l) ==
  us[1].op = "setline" /\ us[1].to = <<>> /\ us[1].arg = l /\ OpensAt(line, us, 2)

\* Units behind another one flow as before.
LEMMA FlowShift ==
  ASSUME NEW line, NEW cs, Len(cs) \in Nat, NEW us, Len(us) = 1 + Len(cs),
         \A k \in 1 .. Len(cs) : us[k + 1] = cs[k], NEW j \in 1 .. Len(cs), Flow(line, cs, j)
  PROVE  Flow(line, us, j + 1)
  <1>1. PICK i, m, n : i = j + 1 /\ m = Len(cs) /\ n = Len(us)
    OBVIOUS
  <1>2. /\ us[i] = cs[j] /\ (j + 1 <= m <=> i + 1 <= n) /\ (j = m <=> i = n)
        /\ (j + 2 <= m <=> i + 2 <= n) /\ (j + 1 = m <=> i + 1 = n)
    BY <1>1
  <1>3. More(cs, j) => More(us, i) /\ us[i + 1] = cs[j + 1]
    <2>1. j + 1 <= m => j + 1 \in 1 .. Len(cs)
      BY <1>1
    <2> QED
      BY <2>1, <1>1, <1>2 DEF More
  <1>4. j + 2 <= m => us[i + 2] = cs[j + 2]
    <2>1. j + 2 <= m => j + 2 \in 1 .. Len(cs) /\ (j + 2) + 1 = i + 2
      BY <1>1
    <2> QED
      BY <2>1, <1>1
  <1>5. ASSUME AtSkip(line, cs, j) PROVE AtSkip(line, us, i)
    <2>1. PICK d : Lands(cs, j, d)
      BY <1>5 DEF AtSkip
    <2>2. d \in 1 .. Len(cs) /\ d = j + cs[j].to[2] /\ cs[j].to[2] \in Nat
          /\ cs[d].op \in {"flag", "incline"} /\ cs[d].to = <<>>
      BY <2>1, <1>5 DEF Lands, AtSkip
    <2>3. d + 1 \in 1 .. Len(us) /\ us[d + 1] = cs[d]
      <3>1. d \in 1 .. Len(cs)
        BY <2>2
      <3>2. d + 1 \in 1 .. 1 + Len(cs)
        BY <3>1
      <3> QED
        BY <3>1, <3>2
    <2>4. PICK x \in Nat : x = cs[j].to[2]
      BY <2>2
    <2>5. d + 1 = i + us[i].to[2]
      <3>1. us[i].to[2] = x /\ d = j + x
        BY <1>2, <2>2, <2>4
      <3>2. \A y \in Nat : (j + y) + 1 = (j + 1) + y
        OBVIOUS
      <3> QED
        BY <1>1, <2>4, <3>1, <3>2
    <2>6. Lands(us, i, d + 1)
      BY <2>2, <2>3, <2>5 DEF Lands
    <2> QED
      BY <2>6, <1>2, <1>3, <1>5 DEF AtSkip
  <1>6. CASE AtHandler(line, cs, j)
    BY <1>1, <1>2, <1>3, <1>6 DEF AtHandler, Flow
  <1>7. CASE AtIncline(line, cs, j)
    BY <1>1, <1>2, <1>7 DEF AtIncline, Flow
  <1>8. CASE AtGetPtr(line, cs, j)
    BY <1>1, <1>2, <1>3, <1>8 DEF AtGetPtr, Flow
  <1>9. CASE AtSave(line, cs, j)
    BY <1>1, <1>2, <1>3, <1>4, <1>9 DEF AtSave, Flow
  <1>10. CASE AtAssign(line, cs, j)
    BY <1>1, <1>2, <1>3, <1>10 DEF AtAssign, Flow
  <1>11. CASE AtCompare(line, cs, j)
    BY <1>1, <1>2, <1>3, <1>11 DEF AtCompare, Flow
  <1>12. CASE AtSkip(line, cs, j)
    BY <1>1, <1>5, <1>12 DEF Flow
  <1>13. CASE AtFlag(line, cs, j)
    BY <1>1, <1>2, <1>3, <1>13 DEF AtFlag, Flow
  <1>14. CASE AtTest(line, cs, j)
    BY <1>1, <1>2, <1>3, <1>14 DEF AtTest, Flow
  <1>15. CASE AtBranch(line, cs, j)
    BY <1>1, <1>2, <1>3, <1>15 DEF AtBranch, Flow
  <1>16. CASE AtJmp(line, cs, j)
    BY <1>1, <1>2, <1>16 DEF AtJmp, Flow
  <1>17. CASE AtRetn(line, cs, j)
    BY <1>1, <1>2, <1>17 DEF AtRetn, Flow
  <1>18. CASE AtBump(line, cs, j)
    BY <1>1, <1>2, <1>3, <1>18 DEF AtBump, Flow
  <1>19. CASE AtCall(line, cs, j)
    BY <1>1, <1>2, <1>3, <1>19 DEF AtCall, Flow
  <1>20. CASE AtPop(line, cs, j)
    BY <1>1, <1>2, <1>20 DEF AtPop, Flow
  <1> QED
    BY <1>6, <1>7, <1>8, <1>9, <1>10, <1>11, <1>12, <1>13, <1>14, <1>15, <1>16, <1>17, <1>18,
       <1>19, <1>20 DEF Flow

\* The units of a line with a command, each with what follows it.
LEMMA FuncFlow ==
  ASSUME NEW p, NEW l, NEW line, line = p.lines[l + 1], line.flag = "Func", NEW us, us = UnitsOf(p, l)
  PROVE  /\ IsSeq(us) /\ Len(us) \in Nat
         /\ Sets(line, us, l) \/ (~Whole(p)[l].need /\ OpensAt(line, us, 1))
         /\ \A j \in 1 .. Len(us) : (j = 1 /\ Sets(line, us, l)) \/ Flow(line, us, j)
  <1>1. /\ IsSeq(us)
        /\ \/ ~Whole(p)[l].need /\ Flows(line, us)
           \/ \E cs : /\ Flows(line, cs) /\ Len(us) = 1 + Len(cs)
                      /\ us[1].op = "setline" /\ us[1].to = <<>> /\ us[1].arg = l
                      /\ \A k \in 1 .. Len(cs) : us[k + 1] = cs[k]
    BY FuncUnits
  <1>2. Len(us) \in Nat
    BY <1>1 DEF IsSeq
  <1>3. CASE ~Whole(p)[l].need /\ Flows(line, us)
    BY <1>1, <1>2, <1>3 DEF Flows
  <1>4. CASE ~(~Whole(p)[l].need /\ Flows(line, us))
    <2>1. PICK cs : /\ Flows(line, cs) /\ Len(us) = 1 + Len(cs)
                    /\ us[1].op = "setline" /\ us[1].to = <<>> /\ us[1].arg = l
                    /\ \A k \in 1 .. Len(cs) : us[k + 1] = cs[k]
      BY <1>1, <1>4
    <2>2. Len(cs) \in Nat /\ OpensAt(line, cs, 1) /\ \A k \in 1 .. Len(cs) : Flow(line, cs, k)
      BY <2>1 DEF Flows, IsSeq
    <2>3. OpensAt(line, us, 2)
      <3>1. 1 \in 1 .. Len(cs) /\ us[2] = cs[1]
        BY <2>1, <2>2 DEF OpensAt
      <3>2. ASSUME us[2].op = "getptr" PROVE 3 <= Len(us) /\ us[3] = cs[2]
        <4>1. 1 + 1 <= Len(cs)
          BY <2>2, <3>1, <3>2 DEF OpensAt
        <4>2. 2 \in 1 .. Len(cs)
          BY <4>1, <2>2
        <4> QED
          BY <4>2, <2>1, <2>2
      <3>3. 2 <= Len(us)
        BY <2>1, <2>2, <3>1
      <3> QED
        BY <2>2, <3>1, <3>2, <3>3 DEF OpensAt
    <2>4. Sets(line, us, l)
      BY <2>1, <2>3 DEF Sets
    <2>5. ASSUME NEW j \in 1 .. Len(us), j # 1 PROVE Flow(line, us, j)
      <3>1. j - 1 \in 1 .. Len(cs) /\ (j - 1) + 1 = j
        BY <2>1, <2>2, <2>5
      <3>2. PICK i \in 1 .. Len(cs) : i + 1 = j
        BY <3>1
      <3>3. Flow(line, us, i + 1)
        BY <2>1, <2>2, FlowShift
      <3> QED
        BY <3>2, <3>3
    <2> QED
      BY <1>1, <1>2, <2>4, <2>5
  <1> QED
    BY <1>3, <1>4

-----------------------------------------------------------------------------
\* Where the processor may be.  How many words unit j of a line or those after it
\* have yet to pop.
Pending(line, us, j) ==
  IF us[j].op \in {"call", "pop"} THEN 1
  ELSE IF /\ Saving(line)
          /\ \/ us[j].op \in {"assign", "compare"}
             \/ us[j].op = "getptr" /\ us[j + 1].op \in {"assign", "compare"}
       THEN 2 ELSE 0

\* TakenBy, of a flag.
Takes(cmd, flag) ==
  CASE cmd = "Jmp" -> TRUE
    [] cmd = "Je"  -> flag = 0
    [] cmd = "Jne" -> flag # 0
    [] cmd = "Ja"  -> flag = 1
    [] cmd = "Jb"  -> flag = -1
    [] cmd = "Jae" -> flag \in {0, 1}
    [] cmd = "Jbe" -> flag \in {0, -1}

\* What is known of run_line_ when unit j of line l is next.
RunFits(p, l, us, j, run, flag, ord) ==
  LET line == p.lines[l + 1]
      u == us[j]
  IN  /\ line.flag = "UFunc" => Whole(p)[l].need \/ run = l
      /\ line.flag = "CFunc" /\ u.op = "jmp" => run = AfterRet(p, l)
      /\ line.flag = "Func" =>
           /\ u.op \in {"handler", "getptr", "save", "assign", "compare", "flag", "incline"} => run = l
           /\ ToUnit(u) => run = l
           /\ u.op = "test" => run = l \/ Takes(line.cmd, flag)
           /\ ToLine(u) /\ line.cmd \in DOMAIN Conditional =>
                (run = l \/ Takes(line.cmd, flag)) /\ ord = SignOf(flag)
           /\ u.op = "bump" => run = line.to
           /\ u.op = "call" => run = line.to + 1
           /\ u.op = "pop" => run = l + 1

\* The calls that are open on the native stack: a handler is one ahead or behind.
FramesFit(l, u, cs, run, f) ==
  /\ u.op \in {"bump", "call"} => cs = Append(f, l)
  /\ u.op = "retn" => f = Append(cs, run - 1)
  /\ u.op \notin {"bump", "call", "retn"} => f = cs

InLine(p, l, j, r, s, cs, run, flag, ord) ==
  /\ l \in 0 .. Len(p.lines) - 1 /\ j \in 1 .. Len(UnitsOf(p, l))
  /\ r = FullCode(p)[Spot(p, l, j)].at
  /\ RunFits(p, l, UnitsOf(p, l), j, run, flag, ord)
  /\ \E f : /\ FramesFit(l, UnitsOf(p, l)[j], cs, run, f)
            /\ Holding(p, s, f, Pending(p.lines[l + 1], UnitsOf(p, l), j))

Entering(r, s, cs, run) == r = 0 /\ s = <<Home>> /\ cs = <<>> /\ run = 0
Leaving(p, r, s, cs) == r = CodeSize(CodeOf(p, Len(p.lines))) /\ Holding(p, s, cs, 0)
Left(p, r, s) ==
  r = FullCode(p)[Len(FullCode(p))].at /\ s \in Seq(Int) /\ Len(s) = 1 /\ s[1] < 0

\* r = -1 is nowhere: the script jumped to a line that does not exist.
Standing(p, r, s, cs, run, flag, ord) ==
  /\ cs \in Seq(Int) /\ run \in Int /\ flag \in Int
  /\ \/ r = -1
     \/ Entering(r, s, cs, run)
     \/ Leaving(p, r, s, cs)
     \/ Left(p, r, s)
     \/ \E l, j : InLine(p, l, j, r, s, cs, run, flag, ord)

\* The first unit of a line.
LEMMA LineStart ==
  ASSUME NEW p, IsScript(p), NEW l \in 0 .. Len(p.lines) - 1, NEW us, us = UnitsOf(p, l), us # <<>>,
         NEW s, NEW cs, NEW run, NEW flag, NEW ord, Holding(p, s, cs, 0), Whole(p)[l].need \/ run = l
  PROVE  InLine(p, l, 1, CodeSize(CodeOf(p, l)), s, cs, run, flag, ord)
  <1>0. PICK line : line = p.lines[l + 1]
    OBVIOUS
  <1>1. /\ 1 \in 1 .. Len(us)
        /\ \/ line.flag = "Func" /\ Sets(line, us, l)
           \/ line.flag = "Func" /\ ~Whole(p)[l].need /\ OpensAt(line, us, 1)
           \/ line.flag = "UFunc" /\ us[1].op = "pushargs" /\ us[1].to = <<>>
           \/ line.flag = "CFunc" /\ us[1].op = "setline" /\ us[1].to = <<>>
    <2>1. CASE line.flag = "Func"
      <3>1. /\ Len(us) \in Nat /\ IsSeq(us)
            /\ Sets(line, us, l) \/ (~Whole(p)[l].need /\ OpensAt(line, us, 1))
        BY <1>0, <2>1, FuncFlow
      <3>2. 1 <= Len(us)
        BY <3>1 DEF Sets, OpensAt
      <3> QED
        BY <2>1, <3>1, <3>2
    <2>2. CASE line.flag = "UFunc"
      BY <1>0, <2>2, UFuncUnits
    <2>3. CASE line.flag = "CFunc"
      BY <1>0, <2>3, CFuncUnits
    <2>4. CASE line.flag \notin {"Func", "UFunc", "CFunc"}
      BY <1>0, <2>4, NoUnits
    <2> QED
      BY <2>1, <2>2, <2>3, <2>4
  <1>2. us[1].to = <<>> /\ us[1].op \in {"setline", "pushargs", "handler", "getptr", "incline"}
    BY <1>1 DEF Sets, OpensAt
  <1>3. RunFits(p, l, us, 1, run, flag, ord)
    BY <1>0, <1>1, <1>2 DEF RunFits, Sets, ToUnit, ToLine, Jumps
  <1>4. FramesFit(l, us[1], cs, run, cs)
    BY <1>2 DEF FramesFit
  <1>5. Pending(line, us, 1) = 0
    BY <1>1, <1>2 DEF Pending, OpensAt, Sets
  <1>6. FullCode(p)[Spot(p, l, 1)].at = CodeSize(CodeOf(p, l))
    <2>1. l \in 0 .. Len(p.lines)
      BY DEF IsScript
    <2>2. BeginsAt(FullCode(p), l, Len(CodeOf(p, l)), CodeSize(CodeOf(p, l)))
      BY <2>1, FullSound
    <2> QED
      BY <2>2 DEF BeginsAt, Spot
  <1> QED
    BY <1>0, <1>1, <1>3, <1>4, <1>5, <1>6 DEF InLine

\* A line without code leaves the code as it is.
LEMMA SameSize ==
  ASSUME NEW p, IsScript(p), NEW x \in 0 .. Len(p.lines) - 1, UnitsOf(p, x) = <<>>
  PROVE  CodeSize(CodeOf(p, x + 1)) = CodeSize(CodeOf(p, x))
  <1>1. GoodUnits(UnitsOf(p, x), 0) /\ x \in Nat /\ x \in 0 .. Len(p.lines)
    BY GoodLine DEF UnitsOf, IsScript
  <1>2. PICK a, us, b, c : /\ a = CodeOf(p, x) /\ us = UnitsOf(p, x)
                           /\ b = Placed(us, x, CodeSize(a)) /\ c = a \o b
    OBVIOUS
  <1>3. Sound(a, x)
    BY <1>1, <1>2, LinesSound
  <1>4. Joined(a, x, us, b, c)
    <2>1. GoodUnits(us, 0) /\ x \in Nat
      BY <1>1, <1>2
    <2> QED
      BY <1>2, <1>3, <2>1, SoundJoin
  <1>5. c = CodeOf(p, x + 1)
    BY <1>2, NextLine DEF UnitsOf
  <1>6. Len(us) = 0
    BY <1>2
  <1>7. Len(a) \in Nat /\ Len(a) >= 1 /\ Len(c) = Len(a) /\ \A k \in 1 .. Len(a) : c[k] = a[k]
    BY <1>3, <1>4, <1>6 DEF Sound, Joined
  <1>8. PICK m \in Nat : m = Len(a)
    BY <1>7
  <1>9. c[m] = a[m] /\ Len(c) = m
    BY <1>7, <1>8
  <1>10. CodeSize(c) = CodeSize(a)
    BY <1>8, <1>9 DEF CodeSize, Last
  <1> QED
    BY <1>2, <1>5, <1>10

\* Arriving at a line: lines without code are passed over.
LEMMA Arrive ==
  ASSUME NEW p, IsScript(p), NEW s, NEW cs, NEW run \in Int, NEW flag \in Int, NEW ord,
         Holding(p, s, cs, 0), NEW t \in 0 .. Len(p.lines), Whole(p)[t].need \/ run = t
  PROVE  Standing(p, CodeSize(CodeOf(p, t)), s, cs, run, flag, ord)
  <1> DEFINE n == Len(p.lines)
             Fine(x) == (Whole(p)[x].need \/ run = x) =>
                          Standing(p, CodeSize(CodeOf(p, x)), s, cs, run, flag, ord)
             T == {d \in Nat : d <= n => Fine(n - d)}
  <1>0. n \in Nat /\ cs \in Seq(Int)
    BY DEF IsScript, Holding
  <1>1. 0 \in T
    <2>1. Leaving(p, CodeSize(CodeOf(p, n)), s, cs)
      BY DEF Leaving
    <2>2. Standing(p, CodeSize(CodeOf(p, n)), s, cs, run, flag, ord)
      BY <1>0, <2>1 DEF Standing
    <2>3. n - 0 = n
      BY <1>0
    <2> QED
      BY <2>2, <2>3
  <1>2. ASSUME NEW d \in Nat, d \in T PROVE d + 1 \in T
    <2> SUFFICES ASSUME d + 1 <= n, Whole(p)[n - (d + 1)].need \/ run = n - (d + 1)
                 PROVE  Standing(p, CodeSize(CodeOf(p, n - (d + 1))), s, cs, run, flag, ord)
      OBVIOUS
    <2>1. PICK x : x = n - (d + 1)
      OBVIOUS
    <2>2. x \in 0 .. n - 1 /\ x + 1 = n - d /\ d <= n /\ x + 1 \in 0 .. n /\ x \in 0 .. n /\ x + 1 \in x .. n
      BY <1>0, <2>1
    <2>3. Fine(x + 1)
      BY <1>2, <2>2
    <2> HIDE DEF Fine
    <2>4. CASE UnitsOf(p, x) = <<>>
      <3>1. PICK line : line = p.lines[x + 1]
        OBVIOUS
      <3>2. line.flag \notin {"Func", "UFunc", "CFunc"}
        <4>1. CASE line.flag = "Func"
          <5>1. PICK us : us = UnitsOf(p, x)
            OBVIOUS
          <5>2. Sets(line, us, x) \/ OpensAt(line, us, 1)
            BY <3>1, <4>1, <5>1, FuncFlow
          <5>3. 1 <= Len(us)
            <6>1. Len(us) \in Nat
              BY <3>1, <4>1, <5>1, FuncFlow
            <6> QED
              BY <5>2, <6>1 DEF Sets, OpensAt
          <5> QED
            BY <2>4, <5>1, <5>3
        <4>2. CASE line.flag = "UFunc"
          <5>1. Len(UnitsOf(p, x)) = 3
            BY <3>1, <4>2, UFuncUnits
          <5> QED
            BY <2>4, <5>1
        <4>3. CASE line.flag = "CFunc"
          <5>1. Len(UnitsOf(p, x)) = 2
            BY <3>1, <4>3, CFuncUnits
          <5> QED
            BY <2>4, <5>1
        <4> QED
          BY <4>1, <4>2, <4>3
      <3>3. Whole(p)[x + 1].need
        BY <2>2, <3>1, <3>2, NextLine
      <3>4. CodeSize(CodeOf(p, x + 1)) = CodeSize(CodeOf(p, x))
        BY <2>2, <2>4, SameSize
      <3> QED
        BY <2>1, <2>3, <3>3, <3>4 DEF Fine
    <2>5. CASE UnitsOf(p, x) # <<>>
      <3>1. InLine(p, x, 1, CodeSize(CodeOf(p, x)), s, cs, run, flag, ord)
        BY <2>1, <2>2, <2>5, LineStart
      <3> QED
        BY <1>0, <2>1, <3>1 DEF Standing
    <2> QED
      BY <2>4, <2>5
  <1> HIDE DEF T
  <1>3. \A d \in Nat : d \in T
    BY <1>1, <1>2, Induction
  <1>4. PICK e : e = n - t
    OBVIOUS
  <1>5. e \in Nat /\ e <= n /\ t = n - e
    BY <1>0, <1>4
  <1>6. Fine(t)
    BY <1>3, <1>5 DEF T
  <1> QED
    BY <1>6

\* Arriving by a jump: run_line_ is set where the label was.
LEMMA ArriveLabel ==
  ASSUME NEW p, IsScript(p), NEW s, NEW cs, NEW run \in Int, NEW flag \in Int, NEW ord,
         Holding(p, s, cs, 0), NEW t \in 0 .. Len(p.lines) - 1, p.lines[t + 1].flag = "Null"
  PROVE  Standing(p, CodeSize(CodeOf(p, t)), s, cs, run, flag, ord)
  <1>0. Len(p.lines) \in Nat /\ t + 1 \in 0 .. Len(p.lines) /\ t \in Nat
    BY DEF IsScript
  <1>1. UnitsOf(p, t) = <<>>
    BY NoUnits
  <1>2. Whole(p)[t + 1].need
    BY NextLine
  <1>3. Standing(p, CodeSize(CodeOf(p, t + 1)), s, cs, run, flag, ord)
    BY <1>0, <1>2, Arrive
  <1>4. CodeSize(CodeOf(p, t + 1)) = CodeSize(CodeOf(p, t))
    BY <1>1, SameSize
  <1> QED
    BY <1>3, <1>4

-----------------------------------------------------------------------------
\* The steps of the processor.  It is at unit j of the line l.
Here(p, l, line, us, j, r, s, cs, run, flag, ord) ==
  /\ IsScript(p) /\ line = p.lines[l + 1] /\ us = UnitsOf(p, l)
  /\ cs \in Seq(Int) /\ run \in Int /\ flag \in Int
  /\ InLine(p, l, j, r, s, cs, run, flag, ord)

\* Where the processor goes on from a unit.
LEMMA UnitGoes ==
  ASSUME NEW p, IsScript(p), NEW l \in 0 .. Len(p.lines) - 1, NEW us, us = UnitsOf(p, l),
         NEW j \in 1 .. Len(us)
  PROVE  /\ Len(us) \in Nat
         /\ j < Len(us) =>
              FullCode(p)[Spot(p, l, j)].at + us[j].length = FullCode(p)[Spot(p, l, j + 1)].at
         /\ j = Len(us) =>
              FullCode(p)[Spot(p, l, j)].at + us[j].length = CodeSize(CodeOf(p, l + 1))
  <1>1. PICK k : k = Spot(p, l, j)
    OBVIOUS
  <1>2. PICK c : c = FullCode(p)
    OBVIOUS
  <1>3. IsSpot(p, l, us, j, c, k)
    BY <1>1, <1>2, UnitInCode
  <1>4. Len(us) \in Nat /\ Len(CodeOf(p, l)) \in Nat
    BY <1>3 DEF IsSpot
  <1>5. k + 1 = Spot(p, l, j + 1)
    BY <1>1, <1>4 DEF Spot
  <1>6. c[k].at + us[j].length = IF j < Len(us) THEN c[k + 1].at ELSE CodeSize(CodeOf(p, l + 1))
    BY <1>3 DEF IsSpot
  <1>7. j < Len(us) => c[k].at + us[j].length = c[k + 1].at
    BY <1>6
  <1>8. j = Len(us) => c[k].at + us[j].length = CodeSize(CodeOf(p, l + 1))
    BY <1>4, <1>6
  <1> QED
    BY <1>1, <1>2, <1>4, <1>5, <1>7, <1>8

\* On to the next unit of the line.
LEMMA GoOn ==
  ASSUME NEW p, IsScript(p), NEW l \in 0 .. Len(p.lines) - 1, NEW us, us = UnitsOf(p, l),
         NEW j \in 1 .. Len(us), More(us, j), NEW s, NEW cs \in Seq(Int), NEW run \in Int,
         NEW flag \in Int, NEW ord, RunFits(p, l, us, j + 1, run, flag, ord),
         NEW f, FramesFit(l, us[j + 1], cs, run, f),
         Holding(p, s, f, Pending(p.lines[l + 1], us, j + 1)),
         NEW r, r = FullCode(p)[Spot(p, l, j)].at
  PROVE  Standing(p, r + us[j].length, s, cs, run, flag, ord)
  <1>1. Len(us) \in Nat
    BY UnitGoes
  <1>2. j + 1 \in 1 .. Len(us) /\ j < Len(us)
    BY <1>1 DEF More
  <1>3. r + us[j].length = FullCode(p)[Spot(p, l, j + 1)].at
    BY <1>2, UnitGoes
  <1>4. InLine(p, l, j + 1, r + us[j].length, s, cs, run, flag, ord)
    BY <1>2, <1>3 DEF InLine
  <1> QED
    BY <1>4 DEF Standing

\* To another unit of the line.
LEMMA GoWithin ==
  ASSUME NEW p, IsScript(p), NEW l \in 0 .. Len(p.lines) - 1, NEW us, us = UnitsOf(p, l),
         NEW d \in 1 .. Len(us), NEW s, NEW cs \in Seq(Int), NEW run \in Int,
         NEW flag \in Int, NEW ord, RunFits(p, l, us, d, run, flag, ord),
         NEW f, FramesFit(l, us[d], cs, run, f), Holding(p, s, f, Pending(p.lines[l + 1], us, d))
  PROVE  Standing(p, FullCode(p)[Spot(p, l, d)].at, s, cs, run, flag, ord)
  <1>1. InLine(p, l, d, FullCode(p)[Spot(p, l, d)].at, s, cs, run, flag, ord)
    BY DEF InLine
  <1> QED
    BY <1>1 DEF Standing

\* On from the last unit of the line.
LEMMA GoPast ==
  ASSUME NEW p, IsScript(p), NEW l \in 0 .. Len(p.lines) - 1, NEW us, us = UnitsOf(p, l),
         NEW j, j \in 1 .. Len(us), j = Len(us), NEW s, NEW cs, Holding(p, s, cs, 0), NEW run \in Int,
         NEW flag \in Int, NEW ord, Whole(p)[l + 1].need \/ run = l + 1,
         NEW r, r = FullCode(p)[Spot(p, l, j)].at
  PROVE  Standing(p, r + us[j].length, s, cs, run, flag, ord)
  <1>3. r + us[j].length = CodeSize(CodeOf(p, l + 1))
    BY UnitGoes
  <1>4. l + 1 \in 0 .. Len(p.lines)
    BY DEF IsScript
  <1> QED
    BY <1>3, <1>4, Arrive

\* Which units there are.
LEMMA Kinds ==
  ASSUME NEW p, NEW l, NEW line, NEW us, NEW j, NEW r, NEW s, NEW cs, NEW run, NEW flag, NEW ord,
         Here(p, l, line, us, j, r, s, cs, run, flag, ord)
  PROVE  /\ l \in 0 .. Len(p.lines) - 1 /\ j \in 1 .. Len(us) /\ Len(us) \in Nat
         /\ \/ line.flag = "Func" /\ j = 1 /\ Sets(line, us, l)
            \/ line.flag = "Func" /\ Flow(line, us, j)
            \/ /\ line.flag = "UFunc" /\ Len(us) = 3 /\ Embeds(p)
               /\ us[1].op = "pushargs" /\ us[1].to = <<>>
               /\ us[2].op = "foreign" /\ us[2].to = <<>>
               /\ us[3].op = "incline" /\ us[3].to = <<>>
            \/ /\ line.flag = "CFunc" /\ Len(us) = 2
               /\ us[1].op = "setline" /\ us[1].to = <<>> /\ us[1].arg = AfterRet(p, l)
               /\ us[2].op = "jmp" /\ us[2].to = <<"line", AfterRet(p, l)>>
               /\ AfterRet(p, l) \in Nat
  <1>1. l \in 0 .. Len(p.lines) - 1 /\ j \in 1 .. Len(us) /\ IsScript(p)
        /\ line = p.lines[l + 1] /\ us = UnitsOf(p, l)
    BY DEF Here, InLine
  <1>2. GoodUnits(us, 0)
    BY <1>1, GoodLine DEF UnitsOf
  <1>3. Len(us) \in Nat
    BY <1>2 DEF GoodUnits, IsSeq
  <1>4. CASE line.flag = "Func"
    BY <1>1, <1>3, <1>4, FuncFlow
  <1>5. CASE line.flag = "UFunc"
    <2>1. l + 1 \in 1 .. Len(p.lines)
      BY <1>1 DEF IsScript
    <2>2. Embeds(p)
      BY <1>1, <1>5, <2>1 DEF Embeds
    <2> QED
      BY <1>1, <1>3, <1>5, <2>2, UFuncUnits
  <1>6. CASE line.flag = "CFunc"
    <2>1. /\ Len(us) = 2
          /\ us[1].op = "setline" /\ us[1].to = <<>> /\ us[1].arg = AfterRet(p, l)
          /\ us[2].op = "jmp" /\ us[2].to = <<"line", AfterRet(p, l)>>
      BY <1>1, <1>6, CFuncUnits
    <2>2. IsUnit(us[2])
      <3>1. 2 \in 1 .. Len(us)
        BY <2>1
      <3> QED
        BY <1>2, <3>1 DEF GoodUnits
    <2>3. us[2].to[2] \in Nat
      BY <2>1, <2>2 DEF IsUnit, ToLine, Jumps
    <2>4. AfterRet(p, l) \in Nat
      BY <2>1, <2>3
    <2> QED
      BY <1>1, <1>3, <1>6, <2>1, <2>4
  <1>7. CASE line.flag \notin {"Func", "UFunc", "CFunc"}
    BY <1>1, <1>7, NoUnits
  <1> QED
    BY <1>4, <1>5, <1>6, <1>7

\* The instructions of the conditional jumps.
LEMMA ConditionalOps ==
  /\ DOMAIN Conditional = {"Je", "Jne", "Ja", "Jae", "Jb", "Jbe"}
  /\ Conditional["Je"] = "je" /\ Conditional["Jne"] = "jne" /\ Conditional["Ja"] = "jg"
  /\ Conditional["Jae"] = "jge" /\ Conditional["Jb"] = "jl" /\ Conditional["Jbe"] = "jle"
  BY DEF Conditional

\* What a unit of a line with a command is, by its operation.
LEMMA Ops ==
  ASSUME NEW line, NEW us, NEW j, Flow(line, us, j)
  PROVE  /\ us[j].op = "handler" => AtHandler(line, us, j)
         /\ us[j].op = "incline" => AtIncline(line, us, j)
         /\ us[j].op = "getptr" => AtGetPtr(line, us, j)
         /\ us[j].op = "save" => AtSave(line, us, j)
         /\ us[j].op = "assign" => AtAssign(line, us, j)
         /\ us[j].op = "compare" => AtCompare(line, us, j)
         /\ us[j].op = "flag" => AtFlag(line, us, j)
         /\ us[j].op = "test" => AtTest(line, us, j)
         /\ us[j].op = "retn" => AtRetn(line, us, j)
         /\ us[j].op = "bump" => AtBump(line, us, j)
         /\ us[j].op = "call" => AtCall(line, us, j)
         /\ us[j].op = "pop" => AtPop(line, us, j)
         /\ us[j].op \in {"jmp", "je", "jne", "jg", "jge", "jl", "jle"} =>
              AtSkip(line, us, j) \/ AtBranch(line, us, j) \/ AtJmp(line, us, j)
         /\ us[j].op \in {"handler", "incline", "getptr", "save", "assign", "compare", "flag", "test",
                          "retn", "bump", "call", "pop", "jmp", "je", "jne", "jg", "jge", "jl", "jle"}
  <1>1. line.cmd \in DOMAIN Conditional => Conditional[line.cmd] \in {"je", "jne", "jg", "jge", "jl", "jle"}
    BY ConditionalOps
  <1>10. CASE AtHandler(line, us, j)
    <2>1. us[j].op = "handler"
      BY <1>10 DEF AtHandler
    <2> QED
      BY <1>10, <2>1
  <1>11. CASE AtIncline(line, us, j)
    <2>1. us[j].op = "incline"
      BY <1>11 DEF AtIncline
    <2> QED
      BY <1>11, <2>1
  <1>12. CASE AtGetPtr(line, us, j)
    <2>1. us[j].op = "getptr"
      BY <1>12 DEF AtGetPtr
    <2> QED
      BY <1>12, <2>1
  <1>13. CASE AtSave(line, us, j)
    <2>1. us[j].op = "save"
      BY <1>13 DEF AtSave
    <2> QED
      BY <1>13, <2>1
  <1>14. CASE AtAssign(line, us, j)
    <2>1. us[j].op = "assign"
      BY <1>14 DEF AtAssign
    <2> QED
      BY <1>14, <2>1
  <1>15. CASE AtCompare(line, us, j)
    <2>1. us[j].op = "compare"
      BY <1>15 DEF AtCompare
    <2> QED
      BY <1>15, <2>1
  <1>16. CASE AtFlag(line, us, j)
    <2>1. us[j].op = "flag"
      BY <1>16 DEF AtFlag
    <2> QED
      BY <1>16, <2>1
  <1>17. CASE AtTest(line, us, j)
    <2>1. us[j].op = "test"
      BY <1>17 DEF AtTest
    <2> QED
      BY <1>17, <2>1
  <1>18. CASE AtRetn(line, us, j)
    <2>1. us[j].op = "retn"
      BY <1>18 DEF AtRetn
    <2> QED
      BY <1>18, <2>1
  <1>19. CASE AtBump(line, us, j)
    <2>1. us[j].op = "bump"
      BY <1>19 DEF AtBump
    <2> QED
      BY <1>19, <2>1
  <1>20. CASE AtCall(line, us, j)
    <2>1. us[j].op = "call"
      BY <1>20 DEF AtCall
    <2> QED
      BY <1>20, <2>1
  <1>21. CASE AtPop(line, us, j)
    <2>1. us[j].op = "pop"
      BY <1>21 DEF AtPop
    <2> QED
      BY <1>21, <2>1
  <1>5. CASE AtSkip(line, us, j) \/ AtBranch(line, us, j) \/ AtJmp(line, us, j)
    <2>1. us[j].op \in {"jmp", "je", "jne", "jg", "jge", "jl", "jle"}
      BY <1>1, <1>5 DEF AtSkip, AtBranch, AtJmp
    <2> QED
      BY <1>5, <2>1
  <1> QED
    BY <1>5, <1>10, <1>11, <1>12, <1>13, <1>14, <1>15, <1>16, <1>17, <1>18, <1>19, <1>20, <1>21 DEF Flow

\* What being there means.
LEMMA Parts ==
  ASSUME NEW p, NEW l, NEW line, NEW us, NEW j, NEW r, NEW s, NEW cs, NEW run, NEW flag, NEW ord,
         Here(p, l, line, us, j, r, s, cs, run, flag, ord)
  PROVE  /\ IsScript(p) /\ l \in 0 .. Len(p.lines) - 1 /\ line = p.lines[l + 1]
         /\ us = UnitsOf(p, l) /\ j \in 1 .. Len(us)
         /\ cs \in Seq(Int) /\ run \in Int /\ flag \in Int
         /\ r = FullCode(p)[Spot(p, l, j)].at
         /\ RunFits(p, l, us, j, run, flag, ord)
         /\ \E f : FramesFit(l, us[j], cs, run, f) /\ Holding(p, s, f, Pending(line, us, j))
         /\ us[j].op \notin {"bump", "call", "retn"} => Holding(p, s, cs, Pending(line, us, j))
  <1>1. /\ IsScript(p) /\ l \in 0 .. Len(p.lines) - 1 /\ line = p.lines[l + 1]
        /\ us = UnitsOf(p, l) /\ j \in 1 .. Len(us)
        /\ cs \in Seq(Int) /\ run \in Int /\ flag \in Int
        /\ r = FullCode(p)[Spot(p, l, j)].at
        /\ RunFits(p, l, us, j, run, flag, ord)
    BY DEF Here, InLine
  <1>2. PICK f : FramesFit(l, us[j], cs, run, f) /\ Holding(p, s, f, Pending(line, us, j))
    BY <1>1 DEF Here, InLine
  <1>3. us[j].op \notin {"bump", "call", "retn"} => Holding(p, s, cs, Pending(line, us, j))
    BY <1>2 DEF FramesFit
  <1> QED
    BY <1>1, <1>2, <1>3

\* Most units of a line are run with run_line_ at the line.
LEMMA OnLine ==
  ASSUME NEW p, NEW l, NEW us, NEW d, NEW cs, NEW flag, NEW ord, p.lines[l + 1].flag = "Func",
         us[d].op \in {"handler", "getptr", "save", "assign", "compare", "flag", "incline",
                       "jg", "jl", "jmp"},
         us[d].to = <<>> \/ ToUnit(us[d])
  PROVE  RunFits(p, l, us, d, l, flag, ord) /\ FramesFit(l, us[d], cs, l, cs)
  <1>1. ~ToLine(us[d])
    BY DEF ToLine, ToUnit, Jumps
  <1>2. RunFits(p, l, us, d, l, flag, ord)
    BY <1>1 DEF RunFits
  <1>3. FramesFit(l, us[d], cs, l, cs)
    BY DEF FramesFit
  <1> QED
    BY <1>2, <1>3

\* mov [run_line_], line.
LEMMA StepSetLine ==
  ASSUME NEW p, NEW l, NEW line, NEW us, NEW j, NEW r, NEW s, NEW cs, NEW run, NEW flag, NEW ord,
         Here(p, l, line, us, j, r, s, cs, run, flag, ord), us[j].op = "setline"
  PROVE  Standing(p, r + us[j].length, s, cs, us[j].arg, flag, ord)
  <1>1. /\ IsScript(p) /\ l \in 0 .. Len(p.lines) - 1 /\ line = p.lines[l + 1]
        /\ us = UnitsOf(p, l) /\ j \in 1 .. Len(us)
        /\ cs \in Seq(Int) /\ flag \in Int /\ r = FullCode(p)[Spot(p, l, j)].at
        /\ Holding(p, s, cs, Pending(line, us, j))
    BY Parts
  <1>2. Holding(p, s, cs, 0)
    BY <1>1 DEF Pending
  <1>3. CASE line.flag = "Func" /\ j = 1 /\ Sets(line, us, l)
    <2>1. us[j].arg = l /\ OpensAt(line, us, 2)
      BY <1>3 DEF Sets
    <2>2. More(us, j) /\ j + 1 = 2
      BY <1>3, <2>1 DEF More, OpensAt
    <2>3. RunFits(p, l, us, 2, l, flag, ord) /\ FramesFit(l, us[2], cs, l, cs)
      BY <1>1, <1>3, <2>1, OnLine DEF OpensAt
    <2>4. Pending(line, us, 2) = 0
      BY <2>1 DEF Pending, OpensAt
    <2>5. l \in Int
      BY <1>1
    <2>6. Standing(p, r + us[j].length, s, cs, l, flag, ord)
      BY <1>1, <1>2, <2>2, <2>3, <2>4, <2>5, GoOn
    <2> QED
      BY <2>1, <2>6
  <1>4. CASE line.flag = "Func" /\ Flow(line, us, j)
    BY <1>4, Ops
  <1>5. CASE /\ line.flag = "UFunc" /\ Len(us) = 3
             /\ us[1].op = "pushargs" /\ us[2].op = "foreign" /\ us[3].op = "incline"
    BY <1>1, <1>5
  <1>6. CASE /\ line.flag = "CFunc" /\ Len(us) = 2
             /\ us[1].arg = AfterRet(p, l) /\ us[2].op = "jmp" /\ us[2].to = <<"line", AfterRet(p, l)>>
             /\ AfterRet(p, l) \in Nat
    <2>1. j = 1 /\ More(us, j) /\ j + 1 = 2
      BY <1>1, <1>6 DEF More
    <2>2. RunFits(p, l, us, 2, AfterRet(p, l), flag, ord)
      BY <1>1, <1>6 DEF RunFits
    <2>3. FramesFit(l, us[2], cs, AfterRet(p, l), cs) /\ Pending(line, us, 2) = 0
      BY <1>6 DEF FramesFit, Pending
    <2>4. AfterRet(p, l) \in Int
      BY <1>6
    <2> QED
      BY <1>1, <1>2, <1>6, <2>1, <2>2, <2>3, <2>4, GoOn
  <1> QED
    BY <1>3, <1>4, <1>5, <1>6, Kinds

\* inc [run_line_], always the last of a line.
LEMMA StepIncline ==
  ASSUME NEW p, NEW l, NEW line, NEW us, NEW j, NEW r, NEW s, NEW cs, NEW run, NEW flag, NEW ord,
         Here(p, l, line, us, j, r, s, cs, run, flag, ord), us[j].op = "incline"
  PROVE  Standing(p, r + us[j].length, s, cs, run + 1, flag, ord)
  <1>1. /\ IsScript(p) /\ l \in 0 .. Len(p.lines) - 1 /\ line = p.lines[l + 1]
        /\ us = UnitsOf(p, l) /\ j \in 1 .. Len(us)
        /\ cs \in Seq(Int) /\ run \in Int /\ flag \in Int /\ r = FullCode(p)[Spot(p, l, j)].at
        /\ RunFits(p, l, us, j, run, flag, ord) /\ Holding(p, s, cs, Pending(line, us, j))
    BY Parts
  <1>2. Holding(p, s, cs, 0) /\ run + 1 \in Int
    BY <1>1 DEF Pending
  <1>3. j = Len(us) /\ (Whole(p)[l + 1].need \/ run + 1 = l + 1)
    <2>1. CASE line.flag = "Func" /\ j = 1 /\ Sets(line, us, l)
      BY <2>1 DEF Sets
    <2>2. CASE line.flag = "Func" /\ Flow(line, us, j)
      <3>1. AtIncline(line, us, j)
        BY <2>2, Ops
      <3>2. run = l
        BY <1>1, <2>2 DEF RunFits
      <3> QED
        BY <3>1, <3>2 DEF AtIncline
    <2>3. CASE /\ line.flag = "UFunc" /\ Len(us) = 3
               /\ us[1].op = "pushargs" /\ us[2].op = "foreign" /\ us[3].op = "incline"
      <3>1. j = Len(us)
        BY <1>1, <2>3
      <3>2. Whole(p)[l].need \/ run = l
        BY <1>1, <2>3 DEF RunFits
      <3>3. Whole(p)[l + 1].need = (Whole(p)[l].need \/ FALSE)
        BY <1>1, <2>3, NextLine
      <3> QED
        BY <3>1, <3>2, <3>3
    <2>4. CASE line.flag = "CFunc" /\ Len(us) = 2 /\ us[1].op = "setline" /\ us[2].op = "jmp"
      BY <1>1, <2>4
    <2> QED
      BY <2>1, <2>2, <2>3, <2>4, Kinds
  <1> QED
    BY <1>1, <1>2, <1>3, GoPast

\* Commands with a place.
LEMMA PlaceOf ==
  ASSUME NEW p, IsScript(p), NEW l \in 0 .. Len(p.lines) - 1, NEW line, line = p.lines[l + 1],
         line.cmd \in Targeted
  PROVE  /\ line.to \in Nat
         /\ line.cmd # "Call" /\ line.to < Len(p.lines) =>
              line.to \in 0 .. Len(p.lines) - 1 /\ p.lines[line.to + 1].flag = "Null"
  <1>1. p.lines \in Seq(ToSet(p.lines)) /\ Len(p.lines) \in Nat
    BY DEF IsScript
  <1>2. l + 1 \in DOMAIN p.lines
    BY <1>1
  <1>3. line \in ToSet(p.lines)
    BY <1>2 DEF ToSet
  <1>4. /\ line.to \in Nat
        /\ line.cmd \in Targeted \ {"Call"} /\ line.to < Len(p.lines) =>
             p.lines[line.to + 1].flag = "Null"
    BY <1>3 DEF IsScript
  <1> QED
    BY <1>1, <1>4

\* A handler works with run_line_ at its line, and nothing is left to pop.
LEMMA AtHandlers ==
  ASSUME NEW p, NEW l, NEW line, NEW us, NEW j, NEW r, NEW s, NEW cs, NEW run, NEW flag, NEW ord,
         Here(p, l, line, us, j, r, s, cs, run, flag, ord), us[j].op = "handler"
  PROVE  /\ run = l /\ line.flag = "Func" /\ AtHandler(line, us, j) /\ Holding(p, s, cs, 0)
         /\ us[j + 1].op \notin {"call", "pop"} => Pending(line, us, j + 1) = 0
  <1>1. j \in 1 .. Len(us) /\ RunFits(p, l, us, j, run, flag, ord)
        /\ Holding(p, s, cs, Pending(line, us, j)) /\ line = p.lines[l + 1]
    BY Parts
  <1>2. Holding(p, s, cs, 0)
    BY <1>1 DEF Pending
  <1>3. line.flag = "Func" /\ Flow(line, us, j)
    <2>1. CASE line.flag = "Func" /\ j = 1 /\ Sets(line, us, l)
      BY <2>1 DEF Sets
    <2>2. CASE /\ line.flag = "UFunc" /\ Len(us) = 3
               /\ us[1].op = "pushargs" /\ us[2].op = "foreign" /\ us[3].op = "incline"
      BY <1>1, <2>2
    <2>3. CASE line.flag = "CFunc" /\ Len(us) = 2 /\ us[1].op = "setline" /\ us[2].op = "jmp"
      BY <1>1, <2>3
    <2> QED
      BY <2>1, <2>2, <2>3, Kinds
  <1>4. AtHandler(line, us, j)
    BY <1>3, Ops
  <1>5. run = l
    BY <1>1, <1>3 DEF RunFits
  <1>6. us[j + 1].op \in {"incline", "jmp", "test", "retn", "bump"}
    BY <1>4 DEF AtHandler
  <1>7. Pending(line, us, j + 1) = 0
    BY <1>6 DEF Pending
  <1> QED
    BY <1>2, <1>3, <1>4, <1>5, <1>7

\* The handler of a command that only goes on.
LEMMA StepOpaque ==
  ASSUME NEW p, NEW l, NEW line, NEW us, NEW j, NEW r, NEW s, NEW cs, NEW run, NEW flag, NEW ord,
         Here(p, l, line, us, j, r, s, cs, run, flag, ord), us[j].op = "handler", line.cmd \in Opaque
  PROVE  Standing(p, r + us[j].length, s, cs, run, flag, ord)
  <1>1. /\ IsScript(p) /\ l \in 0 .. Len(p.lines) - 1 /\ line = p.lines[l + 1]
        /\ us = UnitsOf(p, l) /\ j \in 1 .. Len(us)
        /\ cs \in Seq(Int) /\ run \in Int /\ flag \in Int /\ r = FullCode(p)[Spot(p, l, j)].at
    BY Parts
  <1>2. run = l /\ line.flag = "Func" /\ AtHandler(line, us, j) /\ Holding(p, s, cs, 0)
    BY AtHandlers
  <1>3. More(us, j) /\ us[j + 1].op = "incline" /\ us[j + 1].to = <<>>
    BY <1>2, OpaqueAssumption, ConditionalOps DEF AtHandler, Targeted
  <1>4. RunFits(p, l, us, j + 1, l, flag, ord) /\ FramesFit(l, us[j + 1], cs, l, cs)
    BY <1>1, <1>2, <1>3, OnLine
  <1>5. Pending(line, us, j + 1) = 0
    BY <1>3 DEF Pending
  <1> QED
    BY <1>1, <1>2, <1>3, <1>4, <1>5, GoOn

\* The handler of a jump.
LEMMA StepJump ==
  ASSUME NEW p, NEW l, NEW line, NEW us, NEW j, NEW r, NEW s, NEW cs, NEW run, NEW flag, NEW ord,
         Here(p, l, line, us, j, r, s, cs, run, flag, ord), us[j].op = "handler",
         line.cmd \in {"Jmp"} \cup DOMAIN Conditional,
         NEW run2, run2 = IF Takes(line.cmd, flag) THEN line.to ELSE run
  PROVE  Standing(p, r + us[j].length, s, cs, run2, flag, ord)
  <1>1. /\ IsScript(p) /\ l \in 0 .. Len(p.lines) - 1 /\ line = p.lines[l + 1]
        /\ us = UnitsOf(p, l) /\ j \in 1 .. Len(us)
        /\ cs \in Seq(Int) /\ run \in Int /\ flag \in Int /\ r = FullCode(p)[Spot(p, l, j)].at
    BY Parts
  <1>2. run = l /\ line.flag = "Func" /\ AtHandler(line, us, j) /\ Holding(p, s, cs, 0)
    BY AtHandlers
  <1>3. line.cmd \in Targeted /\ line.cmd \notin {"Ret", "Call"} /\ line.cmd \notin Opaque
    BY OpaqueAssumption, ConditionalOps DEF Targeted
  <1>4. /\ More(us, j)
        /\ \/ line.cmd = "Jmp" /\ us[j + 1].op = "jmp" /\ us[j + 1].to = <<"line", line.to>>
           \/ line.cmd \in DOMAIN Conditional /\ us[j + 1].op = "test" /\ us[j + 1].to = <<>>
    BY <1>2, <1>3 DEF AtHandler
  <1>5. run2 \in Int
    <2>1. line.to \in Nat
      BY <1>1, <1>3, PlaceOf
    <2>2. run2 = line.to \/ run2 = run
      OBVIOUS
    <2> QED
      BY <1>1, <2>1, <2>2
  <1>6. RunFits(p, l, us, j + 1, run2, flag, ord)
    <2>1. CASE line.cmd = "Jmp" /\ us[j + 1].op = "jmp" /\ us[j + 1].to = <<"line", line.to>>
      <3>1. ~ToUnit(us[j + 1]) /\ line.cmd \notin DOMAIN Conditional
        BY <2>1, ConditionalOps DEF ToUnit, Jumps
      <3> QED
        BY <1>1, <1>2, <2>1, <3>1 DEF RunFits
    <2>2. CASE line.cmd \in DOMAIN Conditional /\ us[j + 1].op = "test" /\ us[j + 1].to = <<>>
      <3>1. ~ToUnit(us[j + 1]) /\ ~ToLine(us[j + 1])
        BY <2>2 DEF ToUnit, ToLine, Jumps
      <3>2. run2 = l \/ Takes(line.cmd, flag)
        BY <1>2
      <3> QED
        BY <1>1, <1>2, <2>2, <3>1, <3>2 DEF RunFits
    <2> QED
      BY <1>4, <2>1, <2>2
  <1>7. FramesFit(l, us[j + 1], cs, run2, cs) /\ Pending(line, us, j + 1) = 0
    BY <1>4 DEF FramesFit, Pending
  <1> QED
    BY <1>1, <1>2, <1>4, <1>5, <1>6, <1>7, GoOn

\* The handler of ret.
LEMMA StepRet ==
  ASSUME NEW p, NEW l, NEW line, NEW us, NEW j, NEW r, NEW s, NEW cs, NEW run, NEW flag, NEW ord,
         Here(p, l, line, us, j, r, s, cs, run, flag, ord), us[j].op = "handler",
         line.cmd = "Ret", cs # <<>>
  PROVE  Standing(p, r + us[j].length, s, Front(cs), Last(cs) + 1, flag, ord)
  <1>1. /\ IsScript(p) /\ l \in 0 .. Len(p.lines) - 1 /\ line = p.lines[l + 1]
        /\ us = UnitsOf(p, l) /\ j \in 1 .. Len(us)
        /\ cs \in Seq(Int) /\ run \in Int /\ flag \in Int /\ r = FullCode(p)[Spot(p, l, j)].at
    BY Parts
  <1>2. run = l /\ line.flag = "Func" /\ AtHandler(line, us, j) /\ Holding(p, s, cs, 0)
    BY AtHandlers
  <1>3. More(us, j) /\ us[j + 1].op = "retn" /\ us[j + 1].to = <<>>
    BY <1>2, OpaqueAssumption, ConditionalOps DEF AtHandler
  <1>4. PICK c, x : c = Front(cs) /\ x = Last(cs)
    OBVIOUS
  <1>5. c \in Seq(Int) /\ x \in Int /\ cs = Append(c, x) /\ (x + 1) - 1 = x
    <2>1. PICK m : m = Len(cs)
      OBVIOUS
    <2>2. m \in Nat /\ m >= 1 /\ m \in 1 .. Len(cs)
      BY <1>1, <2>1
    <2>3. c = SubSeq(cs, 1, m - 1) /\ x = cs[m]
      BY <1>4, <2>1 DEF Front, Last
    <2>4. c \in Seq(Int) /\ x \in Int
      BY <1>1, <2>1, <2>2, <2>3
    <2>5. cs = Append(c, x)
      BY <1>1, <2>1, <2>2, <2>3, <2>4, SMTT(30)
    <2> QED
      BY <2>4, <2>5
  <1>6. RunFits(p, l, us, j + 1, x + 1, flag, ord)
    BY <1>1, <1>2, <1>3 DEF RunFits, ToUnit, ToLine, Jumps
  <1>7. FramesFit(l, us[j + 1], c, x + 1, cs) /\ Pending(line, us, j + 1) = 0
    BY <1>3, <1>5 DEF FramesFit, Pending
  <1>8. x + 1 \in Int
    BY <1>5
  <1>9. Standing(p, r + us[j].length, s, c, x + 1, flag, ord)
    BY <1>1, <1>2, <1>3, <1>5, <1>6, <1>7, <1>8, GoOn
  <1> QED
    BY <1>4, <1>9

\* The handler of call.
LEMMA StepCall ==
  ASSUME NEW p, NEW l, NEW line, NEW us, NEW j, NEW r, NEW s, NEW cs, NEW run, NEW flag, NEW ord,
         Here(p, l, line, us, j, r, s, cs, run, flag, ord), us[j].op = "handler", line.cmd = "Call"
  PROVE  Standing(p, r + us[j].length, s, Append(cs, run), line.to, flag, ord)
  <1>1. /\ IsScript(p) /\ l \in 0 .. Len(p.lines) - 1 /\ line = p.lines[l + 1]
        /\ us = UnitsOf(p, l) /\ j \in 1 .. Len(us)
        /\ cs \in Seq(Int) /\ run \in Int /\ flag \in Int /\ r = FullCode(p)[Spot(p, l, j)].at
    BY Parts
  <1>2. run = l /\ line.flag = "Func" /\ AtHandler(line, us, j) /\ Holding(p, s, cs, 0)
    BY AtHandlers
  <1>3. More(us, j) /\ us[j + 1].op = "bump" /\ us[j + 1].to = <<>>
    BY <1>2, OpaqueAssumption, ConditionalOps DEF AtHandler, Targeted
  <1>4. line.to \in Int
    BY <1>1, PlaceOf DEF Targeted
  <1>5. PICK c : c = Append(cs, run)
    OBVIOUS
  <1>6. c \in Seq(Int)
    BY <1>1, <1>5
  <1>7. RunFits(p, l, us, j + 1, line.to, flag, ord)
    BY <1>1, <1>2, <1>3 DEF RunFits, ToUnit, ToLine, Jumps
  <1>8. FramesFit(l, us[j + 1], c, line.to, cs) /\ Pending(line, us, j + 1) = 0
    BY <1>2, <1>3, <1>5 DEF FramesFit, Pending
  <1>9. Standing(p, r + us[j].length, s, c, line.to, flag, ord)
    BY <1>1, <1>2, <1>3, <1>4, <1>6, <1>7, <1>8, GoOn
  <1> QED
    BY <1>5, <1>9

\* A command's units other than its handler work with run_line_ at the line.
LEMMA AtFlow ==
  ASSUME NEW p, NEW l, NEW line, NEW us, NEW j, NEW r, NEW s, NEW cs, NEW run, NEW flag, NEW ord,
         Here(p, l, line, us, j, r, s, cs, run, flag, ord),
         us[j].op \notin {"setline", "pushargs", "foreign", "incline"},
         us[j].op = "jmp" => us[j].to # <<"line", AfterRet(p, l)>> \/ line.flag # "CFunc"
  PROVE  line.flag = "Func" /\ Flow(line, us, j)
  <1>1. j \in 1 .. Len(us)
    BY Parts
  <1>2. CASE line.flag = "Func" /\ j = 1 /\ Sets(line, us, l)
    BY <1>2 DEF Sets
  <1>3. CASE /\ line.flag = "UFunc" /\ Len(us) = 3
             /\ us[1].op = "pushargs" /\ us[2].op = "foreign" /\ us[3].op = "incline"
    BY <1>1, <1>3
  <1>4. CASE /\ line.flag = "CFunc" /\ Len(us) = 2 /\ us[1].op = "setline"
             /\ us[2].op = "jmp" /\ us[2].to = <<"line", AfterRet(p, l)>>
    BY <1>1, <1>4
  <1> QED
    BY <1>2, <1>3, <1>4, Kinds

\* call GetPtr.
LEMMA StepGetPtr ==
  ASSUME NEW p, NEW l, NEW line, NEW us, NEW j, NEW r, NEW s, NEW cs, NEW run, NEW flag, NEW ord,
         Here(p, l, line, us, j, r, s, cs, run, flag, ord), us[j].op = "getptr"
  PROVE  Standing(p, r + us[j].length, s, cs, run, flag, ord)
  <1>1. /\ IsScript(p) /\ l \in 0 .. Len(p.lines) - 1 /\ line = p.lines[l + 1]
        /\ us = UnitsOf(p, l) /\ j \in 1 .. Len(us)
        /\ cs \in Seq(Int) /\ run \in Int /\ flag \in Int /\ r = FullCode(p)[Spot(p, l, j)].at
        /\ RunFits(p, l, us, j, run, flag, ord) /\ Holding(p, s, cs, Pending(line, us, j))
    BY Parts
  <1>2. line.flag = "Func" /\ AtGetPtr(line, us, j)
    BY AtFlow, Ops
  <1>3. /\ More(us, j) /\ us[j + 1].op \in {"save", "assign", "compare"} /\ us[j + 1].to = <<>>
        /\ run = l
    BY <1>1, <1>2 DEF AtGetPtr, RunFits
  <1>4. RunFits(p, l, us, j + 1, l, flag, ord) /\ FramesFit(l, us[j + 1], cs, l, cs)
    BY <1>1, <1>2, <1>3, OnLine
  <1>5. Pending(line, us, j + 1) = Pending(line, us, j)
    BY <1>3 DEF Pending
  <1>6. Holding(p, s, cs, Pending(line, us, j + 1))
    BY <1>1, <1>5
  <1> QED
    BY <1>1, <1>3, <1>4, <1>6, GoOn

\* Two sequences one after the other.
LEMMA Longer ==
  ASSUME NEW a \in Seq(Int), NEW b \in Seq(Int)
  PROVE  /\ a \o b \in Seq(Int) /\ Len(a \o b) = Len(a) + Len(b)
         /\ \A k \in 1 .. Len(a) : (a \o b)[k] = a[k]
         /\ \A k \in 1 .. Len(b) : (a \o b)[Len(a) + k] = b[k]
  OBVIOUS

\* Words that are no addresses are pushed.
LEMMA Pushed ==
  ASSUME NEW s \in Seq(Int)
  PROVE  /\ s \o <<Filler, Filler>> \in Seq(Int) /\ Len(s \o <<Filler, Filler>>) = Len(s) + 2
         /\ \A k \in 1 .. Len(s) : (s \o <<Filler, Filler>>)[k] = s[k]
         /\ \A k \in Len(s) + 1 .. Len(s \o <<Filler, Filler>>) : (s \o <<Filler, Filler>>)[k] < 0
         /\ Append(s, Filler) \in Seq(Int) /\ Len(Append(s, Filler)) = Len(s) + 1
         /\ \A k \in 1 .. Len(s) : Append(s, Filler)[k] = s[k]
         /\ \A k \in Len(s) + 1 .. Len(Append(s, Filler)) : Append(s, Filler)[k] < 0
  <1>1. PICK t : t = <<Filler, Filler>>
    OBVIOUS
  <1>2. t \in Seq(Int) /\ Len(t) = 2 /\ t[1] < 0 /\ t[2] < 0
    BY <1>1 DEF Filler
  <1>3. /\ s \o t \in Seq(Int) /\ Len(s \o t) = Len(s) + 2
        /\ \A k \in 1 .. Len(s) : (s \o t)[k] = s[k]
        /\ \A k \in Len(s) + 1 .. Len(s \o t) : (s \o t)[k] < 0
    <2>1. s \o t \in Seq(Int) /\ Len(s \o t) = Len(s) + 2
      <3>1. t \in Seq(Int) /\ Len(t) = 2
        BY <1>2
      <3>2. s \o t \in Seq(Int)
        BY <3>1, Longer
      <3>3. Len(s \o t) = Len(s) + Len(t)
        BY <3>1, Longer
      <3> QED
        BY <3>1, <3>2, <3>3
    <2>2. \A k \in 1 .. Len(s) : (s \o t)[k] = s[k]
      BY <1>2
    <2>3. ASSUME NEW k \in Len(s) + 1 .. Len(s) + 2 PROVE (s \o t)[k] < 0
      <3>1. k - Len(s) \in {1, 2} /\ k \in Len(s) + 1 .. Len(s) + Len(t)
        <4>1. \A h \in Nat : \A i \in h + 1 .. h + 2 : i - h \in {1, 2}
          OBVIOUS
        <4>2. Len(s) \in Nat /\ Len(t) = 2
          BY <1>2
        <4>3. k \in Len(s) + 1 .. Len(s) + Len(t)
          BY <4>2
        <4> QED
          BY <4>1, <4>2, <4>3
      <3>2. (s \o t)[k] = t[k - Len(s)]
        <4>1. \A i \in 1 .. Len(t) : (s \o t)[Len(s) + i] = t[i]
          BY <1>2, Longer
        <4>2. PICK i \in {1, 2} : i = k - Len(s)
          BY <3>1
        <4>3. i \in 1 .. Len(t) /\ Len(s) + i = k
          <5>1. Len(s) \in Nat /\ Len(t) = 2
            BY <1>2
          <5>2. \A h \in Nat : \A x \in h + 1 .. h + 2 : h + (x - h) = x
            OBVIOUS
          <5> QED
            BY <4>2, <5>1, <5>2
        <4> QED
          BY <4>1, <4>2, <4>3
      <3> QED
        BY <1>2, <3>1, <3>2
    <2> QED
      BY <2>1, <2>2, <2>3
  <1>4. /\ Append(s, Filler) \in Seq(Int) /\ Len(Append(s, Filler)) = Len(s) + 1
        /\ \A k \in 1 .. Len(s) : Append(s, Filler)[k] = s[k]
        /\ \A k \in Len(s) + 1 .. Len(Append(s, Filler)) : Append(s, Filler)[k] < 0
    BY DEF Filler
  <1> QED
    BY <1>1, <1>3, <1>4

\* push rax and zeros.
LEMMA StepSave ==
  ASSUME NEW p, NEW l, NEW line, NEW us, NEW j, NEW r, NEW s, NEW cs, NEW run, NEW flag, NEW ord,
         Here(p, l, line, us, j, r, s, cs, run, flag, ord), us[j].op = "save"
  PROVE  Standing(p, r + us[j].length, s \o <<Filler, Filler>>, cs, run, flag, ord)
  <1>1. /\ IsScript(p) /\ l \in 0 .. Len(p.lines) - 1 /\ line = p.lines[l + 1]
        /\ us = UnitsOf(p, l) /\ j \in 1 .. Len(us)
        /\ cs \in Seq(Int) /\ run \in Int /\ flag \in Int /\ r = FullCode(p)[Spot(p, l, j)].at
        /\ RunFits(p, l, us, j, run, flag, ord) /\ Holding(p, s, cs, Pending(line, us, j))
    BY Parts
  <1>2. line.flag = "Func" /\ AtSave(line, us, j)
    BY AtFlow, Ops
  <1>3. /\ More(us, j) /\ us[j + 1].op = "getptr" /\ us[j + 1].to = <<>> /\ Saving(line)
        /\ us[j + 2].op \in {"assign", "compare"} /\ run = l
    BY <1>1, <1>2 DEF AtSave, RunFits
  <1>4. RunFits(p, l, us, j + 1, l, flag, ord) /\ FramesFit(l, us[j + 1], cs, l, cs)
    BY <1>1, <1>2, <1>3, OnLine
  <1>5. Pending(line, us, j + 1) = 2
    <2>1. (j + 1) + 1 = j + 2
      BY <1>1
    <2> QED
      BY <1>3, <2>1 DEF Pending
  <1>6. Holding(p, s, cs, 0)
    BY <1>1 DEF Pending
  <1>7. s \in Seq(Int) /\ Len(s) \in Nat /\ Len(s) % 2 = 0
    <2>1. s \in Seq(Int) /\ Len(s) \in Nat /\ (Len(s) - 0) % 2 = 0
      BY <1>6, HoldEven
    <2> QED
      BY <2>1
  <1>8. PICK t : t = s \o <<Filler, Filler>>
    OBVIOUS
  <1>9. /\ t \in Seq(Int) /\ Len(t) = Len(s) + 2 /\ \A k \in 1 .. Len(s) : t[k] = s[k]
        /\ \A k \in Len(s) + 1 .. Len(t) : t[k] < 0
    BY <1>7, <1>8, Pushed
  <1>10. Len(t) >= Len(s) /\ Len(t) - 2 >= Len(s) - 0 /\ (Len(t) - 2) % 2 = 0
    BY <1>7, <1>9
  <1>11. Holding(p, t, cs, 2)
    BY <1>6, <1>9, <1>10, HoldMore
  <1>12. Standing(p, r + us[j].length, t, cs, l, flag, ord)
    <2>1. Holding(p, t, cs, Pending(line, us, j + 1)) /\ l \in Int
      BY <1>1, <1>3, <1>5, <1>11
    <2> QED
      BY <1>1, <1>3, <1>4, <2>1, GoOn
  <1> QED
    BY <1>3, <1>8, <1>12

\* Two words less on the stack, if an address waited there.
LEMMA Unwaited ==
  ASSUME NEW p, NEW s, NEW cs, NEW line, NEW e, e = IF Saving(line) THEN 2 ELSE 0,
         Holding(p, s, cs, e), NEW t, t = IF Saving(line) THEN SubSeq(s, 1, Len(s) - 2) ELSE s
  PROVE  Holding(p, t, cs, 0)
  <1>1. CASE Saving(line)
    <2>1. Holding(p, s, cs, 2) /\ 2 \in Nat /\ 2 \in 0 .. 2 /\ 2 - 2 = 0
      BY <1>1
    <2>2. Holding(p, SubSeq(s, 1, Len(s) - 2), cs, 2 - 2)
      BY <2>1, HoldLess
    <2> QED
      BY <1>1, <2>1, <2>2
  <1>2. CASE ~Saving(line)
    BY <1>2
  <1> QED
    BY <1>1, <1>2

\* mov, add and sub.
LEMMA StepAssign ==
  ASSUME NEW p, NEW l, NEW line, NEW us, NEW j, NEW r, NEW s, NEW cs, NEW run, NEW flag, NEW ord,
         Here(p, l, line, us, j, r, s, cs, run, flag, ord), us[j].op = "assign",
         NEW t, t = IF IsVar(line.src) THEN SubSeq(s, 1, Len(s) - 2) ELSE s
  PROVE  Standing(p, r + us[j].length, t, cs, run, flag, ord)
  <1>1. /\ IsScript(p) /\ l \in 0 .. Len(p.lines) - 1 /\ line = p.lines[l + 1]
        /\ us = UnitsOf(p, l) /\ j \in 1 .. Len(us)
        /\ cs \in Seq(Int) /\ run \in Int /\ flag \in Int /\ r = FullCode(p)[Spot(p, l, j)].at
        /\ RunFits(p, l, us, j, run, flag, ord) /\ Holding(p, s, cs, Pending(line, us, j))
    BY Parts
  <1>2. line.flag = "Func" /\ AtAssign(line, us, j)
    BY AtFlow, Ops
  <1>3. /\ More(us, j) /\ us[j + 1].op = "incline" /\ us[j + 1].to = <<>> /\ run = l
        /\ line.cmd \in {"Mov", "Add", "Sub"}
    BY <1>1, <1>2 DEF AtAssign, RunFits
  <1>4. RunFits(p, l, us, j + 1, l, flag, ord) /\ FramesFit(l, us[j + 1], cs, l, cs)
    BY <1>1, <1>2, <1>3, OnLine
  <1>5. Saving(line) <=> IsVar(line.src)
    BY <1>3 DEF Saving
  <1>6. Pending(line, us, j) = IF Saving(line) THEN 2 ELSE 0
    BY DEF Pending
  <1>7. t = IF Saving(line) THEN SubSeq(s, 1, Len(s) - 2) ELSE s
    BY <1>5
  <1>8. Holding(p, t, cs, 0)
    BY <1>1, <1>6, <1>7, Unwaited
  <1>9. Pending(line, us, j + 1) = 0 /\ l \in Int
    BY <1>1, <1>3 DEF Pending
  <1>10. Standing(p, r + us[j].length, t, cs, l, flag, ord)
    BY <1>1, <1>3, <1>4, <1>8, <1>9, GoOn
  <1> QED
    BY <1>3, <1>10

\* cmpr.
LEMMA StepCompare ==
  ASSUME NEW p, NEW l, NEW line, NEW us, NEW j, NEW r, NEW s, NEW cs, NEW run, NEW flag, NEW ord,
         Here(p, l, line, us, j, r, s, cs, run, flag, ord), us[j].op = "compare",
         IsVar(line.dst) \/ IsVar(line.src), NEW ord2,
         NEW t, t = IF IsVar(line.dst) /\ IsVar(line.src) THEN SubSeq(s, 1, Len(s) - 2) ELSE s
  PROVE  Standing(p, r + us[j].length, t, cs, run, flag, ord2)
  <1>1. /\ IsScript(p) /\ l \in 0 .. Len(p.lines) - 1 /\ line = p.lines[l + 1]
        /\ us = UnitsOf(p, l) /\ j \in 1 .. Len(us)
        /\ cs \in Seq(Int) /\ run \in Int /\ flag \in Int /\ r = FullCode(p)[Spot(p, l, j)].at
        /\ RunFits(p, l, us, j, run, flag, ord) /\ Holding(p, s, cs, Pending(line, us, j))
    BY Parts
  <1>2. line.flag = "Func" /\ AtCompare(line, us, j)
    BY AtFlow, Ops
  <1>3. /\ More(us, j) /\ us[j + 1].op = "jg" /\ ToUnit(us[j + 1]) /\ run = l /\ line.cmd = "Cmpr"
    BY <1>1, <1>2 DEF AtCompare, RunFits
  <1>4. RunFits(p, l, us, j + 1, l, flag, ord2) /\ FramesFit(l, us[j + 1], cs, l, cs)
    BY <1>1, <1>2, <1>3, OnLine
  <1>5. Saving(line) <=> IsVar(line.dst) /\ IsVar(line.src)
    BY <1>3 DEF Saving, IsVar
  <1>6. Pending(line, us, j) = IF Saving(line) THEN 2 ELSE 0
    BY DEF Pending
  <1>7. t = IF Saving(line) THEN SubSeq(s, 1, Len(s) - 2) ELSE s
    BY <1>5
  <1>8. Holding(p, t, cs, 0)
    BY <1>1, <1>6, <1>7, Unwaited
  <1>9. Pending(line, us, j + 1) = 0 /\ l \in Int
    BY <1>1, <1>3 DEF Pending
  <1>10. Standing(p, r + us[j].length, t, cs, l, flag, ord2)
    BY <1>1, <1>3, <1>4, <1>8, <1>9, GoOn
  <1> QED
    BY <1>3, <1>10

\* mov byte [cmpr_flag_], flag.
LEMMA StepFlag ==
  ASSUME NEW p, NEW l, NEW line, NEW us, NEW j, NEW r, NEW s, NEW cs, NEW run, NEW flag, NEW ord,
         Here(p, l, line, us, j, r, s, cs, run, flag, ord), us[j].op = "flag"
  PROVE  Standing(p, r + us[j].length, s, cs, run, us[j].arg, ord)
  <1>1. /\ IsScript(p) /\ l \in 0 .. Len(p.lines) - 1 /\ line = p.lines[l + 1]
        /\ us = UnitsOf(p, l) /\ j \in 1 .. Len(us)
        /\ cs \in Seq(Int) /\ run \in Int /\ flag \in Int /\ r = FullCode(p)[Spot(p, l, j)].at
        /\ RunFits(p, l, us, j, run, flag, ord) /\ Holding(p, s, cs, Pending(line, us, j))
    BY Parts
  <1>2. line.flag = "Func" /\ AtFlag(line, us, j)
    BY AtFlow, Ops
  <1>3. /\ More(us, j) /\ run = l
        /\ \/ us[j + 1].op = "jmp" /\ ToUnit(us[j + 1])
           \/ us[j + 1].op = "incline" /\ us[j + 1].to = <<>>
    BY <1>1, <1>2 DEF AtFlag, RunFits
  <1>4. PICK x : x = us[j].arg
    OBVIOUS
  <1>5. x \in Int
    BY <1>2, <1>4 DEF AtFlag
  <1>6. RunFits(p, l, us, j + 1, l, x, ord) /\ FramesFit(l, us[j + 1], cs, l, cs)
    BY <1>1, <1>2, <1>3, OnLine
  <1>7. Pending(line, us, j) = 0 /\ Pending(line, us, j + 1) = 0 /\ l \in Int
    BY <1>1, <1>3 DEF Pending
  <1>8. Standing(p, r + us[j].length, s, cs, l, x, ord)
    BY <1>1, <1>3, <1>5, <1>6, <1>7, GoOn
  <1> QED
    BY <1>3, <1>4, <1>8

\* cmp byte [cmpr_flag_], 0.
LEMMA StepTest ==
  ASSUME NEW p, NEW l, NEW line, NEW us, NEW j, NEW r, NEW s, NEW cs, NEW run, NEW flag, NEW ord,
         Here(p, l, line, us, j, r, s, cs, run, flag, ord), us[j].op = "test"
  PROVE  Standing(p, r + us[j].length, s, cs, run, flag, SignOf(flag))
  <1>1. /\ IsScript(p) /\ l \in 0 .. Len(p.lines) - 1 /\ line = p.lines[l + 1]
        /\ us = UnitsOf(p, l) /\ j \in 1 .. Len(us)
        /\ cs \in Seq(Int) /\ run \in Int /\ flag \in Int /\ r = FullCode(p)[Spot(p, l, j)].at
        /\ RunFits(p, l, us, j, run, flag, ord) /\ Holding(p, s, cs, Pending(line, us, j))
    BY Parts
  <1>2. line.flag = "Func" /\ AtTest(line, us, j)
    BY AtFlow, Ops
  <1>3. /\ More(us, j) /\ line.cmd \in DOMAIN Conditional
        /\ us[j + 1].op = Conditional[line.cmd] /\ us[j + 1].to = <<"line", line.to>>
        /\ run = l \/ Takes(line.cmd, flag)
    BY <1>1, <1>2 DEF AtTest, RunFits
  <1>4. us[j + 1].op \in {"je", "jne", "jg", "jge", "jl", "jle"}
    BY <1>3, ConditionalOps
  <1>5. ~ToUnit(us[j + 1])
    BY <1>3 DEF ToUnit, Jumps
  <1>6. RunFits(p, l, us, j + 1, run, flag, SignOf(flag))
    BY <1>1, <1>2, <1>3, <1>4, <1>5 DEF RunFits
  <1>7. FramesFit(l, us[j + 1], cs, run, cs)
    BY <1>4 DEF FramesFit
  <1>8. Pending(line, us, j) = 0 /\ Pending(line, us, j + 1) = 0
    BY <1>4 DEF Pending
  <1> QED
    BY <1>1, <1>3, <1>6, <1>7, <1>8, GoOn


\* Holds, of an outcome of the last comparison.
Goes(op, ord) ==
  CASE op = "jmp" -> TRUE
    [] op = "je"  -> ord = 0
    [] op = "jne" -> ord # 0
    [] op = "jg"  -> ord > 0
    [] op = "jge" -> ord >= 0
    [] op = "jl"  -> ord < 0
    [] op = "jle" -> ord <= 0

\* Where the instruction does not jump, the handler has not either.
LEMMA StayMeans ==
  ASSUME NEW cmd \in DOMAIN Conditional, NEW flag \in Int, NEW ord, ord = SignOf(flag),
         ~Goes(Conditional[cmd], ord)
  PROVE  ~Takes(cmd, flag)
  <1>1. cmd \in {"Je", "Jne", "Ja", "Jae", "Jb", "Jbe"}
    BY ConditionalOps
  <1>2. ord \in {-1, 0, 1} /\ (ord = 1 <=> flag > 0) /\ (ord = -1 <=> flag < 0) /\ (ord = 0 <=> flag = 0)
    BY DEF SignOf
  <1>3. CASE cmd = "Je"
    <2>1. ~Goes("je", ord)
      BY <1>3, ConditionalOps
    <2> QED
      BY <1>2, <1>3, <2>1 DEF Goes, Takes
  <1>4. CASE cmd = "Jne"
    <2>1. ~Goes("jne", ord)
      BY <1>4, ConditionalOps
    <2> QED
      BY <1>2, <1>4, <2>1 DEF Goes, Takes
  <1>5. CASE cmd = "Ja"
    <2>1. ~Goes("jg", ord)
      BY <1>5, ConditionalOps
    <2> QED
      BY <1>2, <1>5, <2>1 DEF Goes, Takes
  <1>6. CASE cmd = "Jae"
    <2>1. ~Goes("jge", ord)
      BY <1>6, ConditionalOps
    <2> QED
      BY <1>2, <1>6, <2>1 DEF Goes, Takes
  <1>7. CASE cmd = "Jb"
    <2>1. ~Goes("jl", ord)
      BY <1>7, ConditionalOps
    <2> QED
      BY <1>2, <1>7, <2>1 DEF Goes, Takes
  <1>8. CASE cmd = "Jbe"
    <2>1. ~Goes("jle", ord)
      BY <1>8, ConditionalOps
    <2> QED
      BY <1>2, <1>8, <2>1 DEF Goes, Takes
  <1> QED
    BY <1>1, <1>3, <1>4, <1>5, <1>6, <1>7, <1>8

\* A jump that is not taken.
LEMMA StepStay ==
  ASSUME NEW p, NEW l, NEW line, NEW us, NEW j, NEW r, NEW s, NEW cs, NEW run, NEW flag, NEW ord,
         Here(p, l, line, us, j, r, s, cs, run, flag, ord),
         us[j].op \in {"je", "jne", "jg", "jge", "jl", "jle"}, ~Goes(us[j].op, ord)
  PROVE  Standing(p, r + us[j].length, s, cs, run, flag, ord)
  <1>1. /\ IsScript(p) /\ l \in 0 .. Len(p.lines) - 1 /\ line = p.lines[l + 1]
        /\ us = UnitsOf(p, l) /\ j \in 1 .. Len(us)
        /\ cs \in Seq(Int) /\ run \in Int /\ flag \in Int /\ r = FullCode(p)[Spot(p, l, j)].at
        /\ RunFits(p, l, us, j, run, flag, ord) /\ Holding(p, s, cs, Pending(line, us, j))
    BY Parts
  <1>2. line.flag = "Func" /\ Flow(line, us, j)
    BY AtFlow
  <1>3. AtSkip(line, us, j) \/ AtBranch(line, us, j)
    <2>1. AtSkip(line, us, j) \/ AtBranch(line, us, j) \/ AtJmp(line, us, j)
      BY <1>2, Ops
    <2> QED
      BY <2>1 DEF AtJmp
  <1>4. /\ More(us, j) /\ run = l
        /\ \/ us[j + 1].op = "jl" /\ ToUnit(us[j + 1])
           \/ us[j + 1].op \in {"flag", "incline"} /\ us[j + 1].to = <<>>
    <2>1. CASE AtSkip(line, us, j)
      BY <1>1, <1>2, <2>1 DEF AtSkip, RunFits
    <2>2. CASE AtBranch(line, us, j)
      <3>1. ToLine(us[j]) /\ line.cmd \in DOMAIN Conditional /\ us[j].op = Conditional[line.cmd]
        BY <2>2 DEF AtBranch, ToLine, Jumps
      <3>2. (run = l \/ Takes(line.cmd, flag)) /\ ord = SignOf(flag)
        BY <1>1, <1>2, <3>1 DEF RunFits
      <3>3. ~Takes(line.cmd, flag)
        BY <1>1, <3>1, <3>2, StayMeans
      <3> QED
        BY <2>2, <3>2, <3>3 DEF AtBranch
    <2> QED
      BY <1>3, <2>1, <2>2
  <1>5. RunFits(p, l, us, j + 1, l, flag, ord) /\ FramesFit(l, us[j + 1], cs, l, cs)
    BY <1>1, <1>2, <1>4, OnLine
  <1>6. Pending(line, us, j) = 0 /\ Pending(line, us, j + 1) = 0 /\ l \in Int
    BY <1>1, <1>4 DEF Pending
  <1>7. Standing(p, r + us[j].length, s, cs, l, flag, ord)
    BY <1>1, <1>4, <1>5, <1>6, GoOn
  <1> QED
    BY <1>4, <1>7

\* A jump to a line that does not exist.
LEMMA OffTheEnd ==
  ASSUME NEW p, NEW s, NEW cs \in Seq(Int), NEW run \in Int, NEW flag \in Int, NEW ord
  PROVE  Standing(p, -1, s, cs, run, flag, ord)
  BY DEF Standing

\* Where a jump at unit j goes.
IsTarget(p, l, us, j, x) ==
  /\ ToUnit(us[j]) => x = FullCode(p)[Spot(p, l, j + us[j].to[2])].at
  /\ ToLine(us[j]) => x = IF us[j].to[2] < Len(p.lines) THEN CodeSize(CodeOf(p, us[j].to[2])) ELSE -1

\* A jump that is taken.
LEMMA StepBranch ==
  ASSUME NEW p, NEW l, NEW line, NEW us, NEW j, NEW r, NEW s, NEW cs, NEW run, NEW flag, NEW ord,
         Here(p, l, line, us, j, r, s, cs, run, flag, ord),
         us[j].op \in {"jmp", "je", "jne", "jg", "jge", "jl", "jle"},
         NEW x, IsTarget(p, l, us, j, x)
  PROVE  Standing(p, x, s, cs, run, flag, ord)
  <1>1. /\ IsScript(p) /\ l \in 0 .. Len(p.lines) - 1 /\ line = p.lines[l + 1]
        /\ us = UnitsOf(p, l) /\ j \in 1 .. Len(us)
        /\ cs \in Seq(Int) /\ run \in Int /\ flag \in Int
        /\ RunFits(p, l, us, j, run, flag, ord) /\ Holding(p, s, cs, Pending(line, us, j))
    BY Parts
  <1>2. Holding(p, s, cs, 0)
    BY <1>1 DEF Pending
  <1>3. CASE line.flag = "CFunc" /\ us[j].op = "jmp" /\ us[j].to = <<"line", AfterRet(p, l)>>
    <2>1. AfterRet(p, l) \in Nat /\ run = AfterRet(p, l)
      BY <1>1, <1>3, Kinds DEF RunFits
    <2>2. x = IF run < Len(p.lines) THEN CodeSize(CodeOf(p, run)) ELSE -1
      BY <1>3, <2>1 DEF IsTarget, ToLine, Jumps
    <2>3. CASE run < Len(p.lines)
      <3>1. run \in 0 .. Len(p.lines)
        BY <1>1, <2>1, <2>3 DEF IsScript
      <3>2. Standing(p, CodeSize(CodeOf(p, run)), s, cs, run, flag, ord)
        BY <1>1, <1>2, <3>1, Arrive
      <3> QED
        BY <2>2, <2>3, <3>2
    <2>4. CASE ~(run < Len(p.lines))
      BY <1>1, <2>2, <2>4, OffTheEnd
    <2> QED
      BY <2>3, <2>4
  <1>4. CASE ~(us[j].op = "jmp" /\ us[j].to = <<"line", AfterRet(p, l)>> /\ line.flag = "CFunc")
    <2>1. line.flag = "Func" /\ Flow(line, us, j)
      BY <1>4, AtFlow
    <2>2. CASE AtSkip(line, us, j)
      <3>1. PICK d : Lands(us, j, d)
        BY <2>2 DEF AtSkip
      <3>2. d \in 1 .. Len(us) /\ us[d].op \in {"flag", "incline"} /\ us[d].to = <<>>
        BY <3>1 DEF Lands
      <3>3. ToUnit(us[j]) /\ d = j + us[j].to[2]
        BY <2>2, <3>1 DEF AtSkip, Lands
      <3>4. x = FullCode(p)[Spot(p, l, d)].at
        BY <3>3 DEF IsTarget
      <3>5. run = l /\ l \in Int
        BY <1>1, <2>1, <3>3 DEF RunFits
      <3>6. RunFits(p, l, us, d, l, flag, ord) /\ FramesFit(l, us[d], cs, l, cs)
        BY <1>1, <2>1, <3>2, OnLine
      <3>7. Pending(line, us, d) = 0
        BY <3>2 DEF Pending
      <3>8. Standing(p, FullCode(p)[Spot(p, l, d)].at, s, cs, l, flag, ord)
        BY <1>1, <1>2, <3>2, <3>5, <3>6, <3>7, GoWithin
      <3> QED
        BY <3>4, <3>5, <3>8
    <2>3. CASE AtBranch(line, us, j) \/ AtJmp(line, us, j)
      <3>1. line.cmd \in Targeted /\ line.cmd # "Call" /\ us[j].to = <<"line", line.to>>
        BY <2>3, ConditionalOps DEF AtBranch, AtJmp, Targeted
      <3>2. PICK t : t = line.to
        OBVIOUS
      <3>3. t \in Nat /\ (t < Len(p.lines) => t \in 0 .. Len(p.lines) - 1 /\ p.lines[t + 1].flag = "Null")
        BY <1>1, <3>1, <3>2, PlaceOf
      <3>4. x = IF t < Len(p.lines) THEN CodeSize(CodeOf(p, t)) ELSE -1
        BY <3>1, <3>2 DEF IsTarget, ToLine, Jumps
      <3>5. CASE t < Len(p.lines)
        <4>1. Standing(p, CodeSize(CodeOf(p, t)), s, cs, run, flag, ord)
          BY <1>1, <1>2, <3>3, <3>5, ArriveLabel
        <4> QED
          BY <3>4, <3>5, <4>1
      <3>6. CASE ~(t < Len(p.lines))
        BY <1>1, <3>4, <3>6, OffTheEnd
      <3> QED
        BY <3>5, <3>6
    <2> QED
      BY <2>1, <2>2, <2>3, Ops
  <1> QED
    BY <1>3, <1>4

\* push rax, and run_line_ goes on to the line of the function's first line.
LEMMA StepBump ==
  ASSUME NEW p, NEW l, NEW line, NEW us, NEW j, NEW r, NEW s, NEW cs, NEW run, NEW flag, NEW ord,
         Here(p, l, line, us, j, r, s, cs, run, flag, ord), us[j].op = "bump"
  PROVE  Standing(p, r + us[j].length, Append(s, Filler), cs, run + 1, flag, ord)
  <1>1. /\ IsScript(p) /\ l \in 0 .. Len(p.lines) - 1 /\ line = p.lines[l + 1]
        /\ us = UnitsOf(p, l) /\ j \in 1 .. Len(us)
        /\ cs \in Seq(Int) /\ run \in Int /\ flag \in Int /\ r = FullCode(p)[Spot(p, l, j)].at
        /\ RunFits(p, l, us, j, run, flag, ord)
    BY Parts
  <1>2. PICK f : FramesFit(l, us[j], cs, run, f) /\ Holding(p, s, f, Pending(line, us, j))
    BY Parts
  <1>3. line.flag = "Func" /\ AtBump(line, us, j)
    BY AtFlow, Ops
  <1>4. /\ More(us, j) /\ us[j + 1].op = "call" /\ us[j + 1].to = <<"line", line.to + 1>>
        /\ run = line.to
    BY <1>1, <1>3 DEF AtBump, RunFits
  <1>5. PICK x : x = run + 1
    OBVIOUS
  <1>6. x \in Int /\ x = line.to + 1 /\ ~ToUnit(us[j + 1]) /\ line.cmd \notin DOMAIN Conditional
    BY <1>1, <1>3, <1>4, <1>5, ConditionalOps DEF ToUnit, Jumps, AtBump
  <1>7. RunFits(p, l, us, j + 1, x, flag, ord)
    BY <1>1, <1>3, <1>4, <1>6 DEF RunFits
  <1>8. FramesFit(l, us[j + 1], cs, x, f)
    BY <1>2, <1>3, <1>4 DEF FramesFit, AtBump
  <1>9. Holding(p, s, f, 0) /\ Pending(line, us, j + 1) = 1
    BY <1>2, <1>3, <1>4 DEF Pending, AtBump, Saving
  <1>10. s \in Seq(Int) /\ Len(s) \in Nat /\ Len(s) % 2 = 0
    <2>1. s \in Seq(Int) /\ Len(s) \in Nat /\ (Len(s) - 0) % 2 = 0
      BY <1>9, HoldEven
    <2> QED
      BY <2>1
  <1>11. PICK t : t = Append(s, Filler)
    OBVIOUS
  <1>12. /\ t \in Seq(Int) /\ Len(t) = Len(s) + 1 /\ \A k \in 1 .. Len(s) : t[k] = s[k]
         /\ \A k \in Len(s) + 1 .. Len(t) : t[k] < 0
    BY <1>10, <1>11, Pushed
  <1>13. Len(t) >= Len(s) /\ Len(t) - 1 >= Len(s) - 0 /\ (Len(t) - 1) % 2 = 0
    BY <1>10, <1>12
  <1>14. Holding(p, t, f, 1)
    BY <1>9, <1>12, <1>13, HoldMore
  <1>15. Standing(p, r + us[j].length, t, cs, x, flag, ord)
    BY <1>1, <1>4, <1>6, <1>7, <1>8, <1>9, <1>14, GoOn
  <1> QED
    BY <1>5, <1>11, <1>15

\* The code of a call ends by popping rax, where the function returns to.
LEMMA CallEnds ==
  ASSUME NEW p, IsScript(p), NEW l, Calling(p, l), NEW us, us = UnitsOf(p, l)
  PROVE  /\ Len(us) \in Nat /\ Len(us) \in 1 .. Len(us)
         /\ us[Len(us)].op = "pop" /\ us[Len(us)].to = <<>>
         /\ RetPlace(p, l) = FullCode(p)[Spot(p, l, Len(us))].at /\ RetPlace(p, l) \in Int
  <1>1. PICK line, n : line = p.lines[l + 1] /\ n = Len(us)
    OBVIOUS
  <1>2. l \in 0 .. Len(p.lines) - 1 /\ line.flag = "Func" /\ line.cmd = "Call"
    BY <1>1 DEF Calling
  <1>3. /\ n \in Nat
        /\ Sets(line, us, l) \/ OpensAt(line, us, 1)
        /\ \A j \in 1 .. n : (j = 1 /\ Sets(line, us, l)) \/ Flow(line, us, j)
    BY <1>1, <1>2, FuncFlow
  <1>4. n >= 1 /\ n \in 1 .. n /\ ~(n = 1 /\ Sets(line, us, l)) /\ ~(n + 1 <= n)
    BY <1>1, <1>3 DEF Sets, OpensAt
  <1>5. Flow(line, us, n)
    BY <1>3, <1>4
  <1>6. ~More(us, n)
    BY <1>1, <1>4 DEF More
  <1>7. line.cmd \notin {"Jmp", "Ret"} /\ line.cmd \notin DOMAIN Conditional
    BY <1>2, ConditionalOps
  <1>8. AtPop(line, us, n)
    <2>1. ~AtHandler(line, us, n) /\ ~AtIncline(line, us, n) /\ ~AtGetPtr(line, us, n)
      BY <1>2, <1>6 DEF AtHandler, AtIncline, AtGetPtr
    <2>2. ~AtSave(line, us, n) /\ ~AtAssign(line, us, n) /\ ~AtCompare(line, us, n)
      BY <1>6 DEF AtSave, AtAssign, AtCompare
    <2>3. ~AtSkip(line, us, n) /\ ~AtFlag(line, us, n) /\ ~AtTest(line, us, n) /\ ~AtBranch(line, us, n)
      BY <1>6 DEF AtSkip, AtFlag, AtTest, AtBranch
    <2>4. ~AtJmp(line, us, n) /\ ~AtRetn(line, us, n) /\ ~AtBump(line, us, n) /\ ~AtCall(line, us, n)
      BY <1>6, <1>7 DEF AtJmp, AtRetn, AtBump, AtCall
    <2> QED
      BY <1>5, <2>1, <2>2, <2>3, <2>4 DEF Flow
  <1>9. PICK c, k : c = FullCode(p) /\ k = Spot(p, l, n)
    OBVIOUS
  <1>10. IsSpot(p, l, us, n, c, k)
    BY <1>1, <1>2, <1>4, <1>9, UnitInCode
  <1>11. Len(CodeOf(p, l + 1)) = k /\ c[k].at \in Nat
    BY <1>1, <1>9, <1>10 DEF IsSpot, Spot
  <1>12. RetPlace(p, l) = c[k].at
    BY <1>9, <1>11 DEF RetPlace
  <1> QED
    BY <1>1, <1>4, <1>8, <1>9, <1>11, <1>12 DEF AtPop

\* call: the place after it is pushed.
LEMMA StepCallFunction ==
  ASSUME NEW p, NEW l, NEW line, NEW us, NEW j, NEW r, NEW s, NEW cs, NEW run, NEW flag, NEW ord,
         Here(p, l, line, us, j, r, s, cs, run, flag, ord), us[j].op = "call",
         NEW x, IsTarget(p, l, us, j, x)
  PROVE  Standing(p, x, Append(s, r + us[j].length), cs, run, flag, ord)
  <1>1. /\ IsScript(p) /\ l \in 0 .. Len(p.lines) - 1 /\ line = p.lines[l + 1]
        /\ us = UnitsOf(p, l) /\ j \in 1 .. Len(us)
        /\ cs \in Seq(Int) /\ run \in Int /\ flag \in Int /\ r = FullCode(p)[Spot(p, l, j)].at
        /\ RunFits(p, l, us, j, run, flag, ord)
    BY Parts
  <1>2. PICK f : FramesFit(l, us[j], cs, run, f) /\ Holding(p, s, f, Pending(line, us, j))
    BY Parts
  <1>3. line.flag = "Func" /\ AtCall(line, us, j)
    BY AtFlow, Ops
  <1>4. /\ line.cmd = "Call" /\ us[j].to = <<"line", line.to + 1>> /\ j + 1 = Len(us)
        /\ run = line.to + 1
    BY <1>1, <1>3 DEF AtCall, RunFits
  <1>5. Calling(p, l) /\ l \in Int
    BY <1>1, <1>3, <1>4 DEF Calling
  <1>6. PICK w : w = r + us[j].length
    OBVIOUS
  <1>7. w = RetPlace(p, l) /\ w \in Int
    <2>1. RetPlace(p, l) = FullCode(p)[Spot(p, l, Len(us))].at /\ RetPlace(p, l) \in Int
      BY <1>1, <1>5, CallEnds
    <2>2. j < Len(us)
      BY <1>1, <1>4
    <2>3. r + us[j].length = FullCode(p)[Spot(p, l, j + 1)].at
      BY <1>1, <2>2, UnitGoes
    <2> QED
      BY <1>4, <1>6, <2>1, <2>3
  <1>8. Holding(p, s, f, 1) /\ cs = Append(f, l)
    BY <1>2 DEF FramesFit, Pending
  <1>9. PICK t : t = Append(s, w)
    OBVIOUS
  <1>10. Holding(p, t, cs, 0)
    <2>1. Holding(p, Append(s, RetPlace(p, l)), Append(f, l), 0)
      BY <1>5, <1>7, <1>8, HoldCall
    <2> QED
      BY <1>7, <1>8, <1>9, <2>1
  <1>11. run \in Nat
    <2>1. line.to \in Nat
      BY <1>1, <1>4, PlaceOf DEF Targeted
    <2> QED
      BY <1>4, <2>1
  <1>12. x = IF run < Len(p.lines) THEN CodeSize(CodeOf(p, run)) ELSE -1
    BY <1>4 DEF IsTarget, ToLine, Jumps
  <1>13. CASE run < Len(p.lines)
    <2>1. run \in 0 .. Len(p.lines)
      BY <1>1, <1>11, <1>13 DEF IsScript
    <2>2. Standing(p, CodeSize(CodeOf(p, run)), t, cs, run, flag, ord)
      BY <1>1, <1>10, <2>1, Arrive
    <2> QED
      BY <1>6, <1>9, <1>12, <1>13, <2>2
  <1>14. CASE ~(run < Len(p.lines))
    <2>1. Standing(p, -1, t, cs, run, flag, ord)
      BY <1>1, OffTheEnd
    <2> QED
      BY <1>6, <1>9, <1>12, <1>14, <2>1
  <1> QED
    BY <1>13, <1>14

\* pop rax.
LEMMA StepPop ==
  ASSUME NEW p, NEW l, NEW line, NEW us, NEW j, NEW r, NEW s, NEW cs, NEW run, NEW flag, NEW ord,
         Here(p, l, line, us, j, r, s, cs, run, flag, ord), us[j].op = "pop"
  PROVE  Standing(p, r + us[j].length, SubSeq(s, 1, Len(s) - 1), cs, run, flag, ord)
  <1>1. /\ IsScript(p) /\ l \in 0 .. Len(p.lines) - 1 /\ line = p.lines[l + 1]
        /\ us = UnitsOf(p, l) /\ j \in 1 .. Len(us)
        /\ cs \in Seq(Int) /\ run \in Int /\ flag \in Int /\ r = FullCode(p)[Spot(p, l, j)].at
        /\ RunFits(p, l, us, j, run, flag, ord) /\ Holding(p, s, cs, Pending(line, us, j))
    BY Parts
  <1>2. line.flag = "Func" /\ AtPop(line, us, j)
    BY AtFlow, Ops
  <1>3. j = Len(us) /\ run = l + 1
    BY <1>1, <1>2 DEF AtPop, RunFits
  <1>4. Holding(p, s, cs, 1)
    BY <1>1 DEF Pending
  <1>5. PICK t : t = SubSeq(s, 1, Len(s) - 1)
    OBVIOUS
  <1>6. Holding(p, t, cs, 0)
    <2>1. 1 \in Nat /\ 1 \in 0 .. 1 /\ 1 - 1 = 0
      OBVIOUS
    <2>2. Holding(p, SubSeq(s, 1, Len(s) - 1), cs, 1 - 1)
      BY <1>4, <2>1, HoldLess
    <2> QED
      BY <1>5, <2>1, <2>2
  <1>7. Standing(p, r + us[j].length, t, cs, run, flag, ord)
    BY <1>1, <1>3, <1>6, GoPast
  <1> QED
    BY <1>5, <1>7

\* retn, to a place in the code: that after the call of the frame ret took.
LEMMA StepReturn ==
  ASSUME NEW p, NEW l, NEW line, NEW us, NEW j, NEW r, NEW s, NEW cs, NEW run, NEW flag, NEW ord,
         Here(p, l, line, us, j, r, s, cs, run, flag, ord), us[j].op = "retn", s[Len(s)] >= 0
  PROVE  Standing(p, s[Len(s)], SubSeq(s, 1, Len(s) - 1), cs, run, flag, ord)
  <1>1. /\ IsScript(p) /\ cs \in Seq(Int) /\ run \in Int /\ flag \in Int
    BY Parts
  <1>2. PICK f : FramesFit(l, us[j], cs, run, f) /\ Holding(p, s, f, Pending(line, us, j))
    BY Parts
  <1>3. PICK m, t : m = run - 1 /\ t = SubSeq(s, 1, Len(s) - 1)
    OBVIOUS
  <1>4. Holding(p, s, Append(cs, m), 0)
    BY <1>2, <1>3 DEF FramesFit, Pending
  <1>5. /\ Calling(p, m) /\ s[Len(s)] = RetPlace(p, m) /\ Holding(p, t, cs, 1)
    BY <1>1, <1>3, <1>4, HoldReturn
  <1>6. PICK vs : vs = UnitsOf(p, m)
    OBVIOUS
  <1>7. PICK d : d = Len(vs)
    OBVIOUS
  <1>8. /\ d \in 1 .. Len(vs) /\ vs[d].op = "pop" /\ vs[d].to = <<>>
        /\ RetPlace(p, m) = FullCode(p)[Spot(p, m, d)].at
    BY <1>1, <1>5, <1>6, <1>7, CallEnds
  <1>9. m \in 0 .. Len(p.lines) - 1 /\ p.lines[m + 1].flag = "Func" /\ m + 1 = run
    BY <1>1, <1>3, <1>5 DEF Calling
  <1>10. RunFits(p, m, vs, d, run, flag, ord)
    BY <1>8, <1>9 DEF RunFits, ToUnit, ToLine, Jumps
  <1>11. FramesFit(m, vs[d], cs, run, cs) /\ Pending(p.lines[m + 1], vs, d) = 1
    BY <1>8 DEF FramesFit, Pending
  <1>12. Standing(p, FullCode(p)[Spot(p, m, d)].at, t, cs, run, flag, ord)
    BY <1>1, <1>5, <1>6, <1>8, <1>9, <1>10, <1>11, GoWithin
  <1> QED
    BY <1>3, <1>5, <1>8, <1>12

\* The arguments of a function of the embedder, which nobody pops.
LEMMA StepPushArguments ==
  ASSUME NEW p, NEW l, NEW line, NEW us, NEW j, NEW r, NEW s, NEW cs, NEW run, NEW flag, NEW ord,
         Here(p, l, line, us, j, r, s, cs, run, flag, ord), us[j].op = "pushargs"
  PROVE  Standing(p, r + us[j].length, s \o <<Filler, Filler>>, cs, run, flag, ord)
  <1>1. /\ IsScript(p) /\ l \in 0 .. Len(p.lines) - 1 /\ line = p.lines[l + 1]
        /\ us = UnitsOf(p, l) /\ j \in 1 .. Len(us)
        /\ cs \in Seq(Int) /\ run \in Int /\ flag \in Int /\ r = FullCode(p)[Spot(p, l, j)].at
        /\ RunFits(p, l, us, j, run, flag, ord) /\ Holding(p, s, cs, Pending(line, us, j))
    BY Parts
  <1>2. Holding(p, s, cs, 0)
    BY <1>1 DEF Pending
  <1>3. line.flag = "UFunc" /\ j = 1 /\ Len(us) = 3 /\ us[2].op = "foreign" /\ us[2].to = <<>>
    <2>1. CASE line.flag = "Func" /\ j = 1 /\ Sets(line, us, l)
      BY <2>1 DEF Sets
    <2>2. CASE line.flag = "Func" /\ Flow(line, us, j)
      BY <2>2, Ops
    <2>3. CASE /\ line.flag = "UFunc" /\ Len(us) = 3
               /\ us[1].op = "pushargs" /\ us[2].op = "foreign" /\ us[2].to = <<>>
               /\ us[3].op = "incline"
      BY <1>1, <2>3
    <2>4. CASE line.flag = "CFunc" /\ Len(us) = 2 /\ us[1].op = "setline" /\ us[2].op = "jmp"
      BY <1>1, <2>4
    <2> QED
      BY <2>1, <2>2, <2>3, <2>4, Kinds
  <1>4. More(us, j) /\ j + 1 = 2
    BY <1>3 DEF More
  <1>5. RunFits(p, l, us, 2, run, flag, ord)
    BY <1>1, <1>3 DEF RunFits
  <1>6. FramesFit(l, us[2], cs, run, cs) /\ Pending(line, us, 2) = 0
    BY <1>3 DEF FramesFit, Pending
  <1>7. s \in Seq(Int) /\ Len(s) \in Nat /\ Len(s) % 2 = 0
    <2>1. s \in Seq(Int) /\ Len(s) \in Nat /\ (Len(s) - 0) % 2 = 0
      BY <1>2, HoldEven
    <2> QED
      BY <2>1
  <1>8. PICK t : t = s \o <<Filler, Filler>>
    OBVIOUS
  <1>9. /\ t \in Seq(Int) /\ Len(t) = Len(s) + 2 /\ \A k \in 1 .. Len(s) : t[k] = s[k]
        /\ \A k \in Len(s) + 1 .. Len(t) : t[k] < 0
    BY <1>7, <1>8, Pushed
  <1>10. Len(t) >= Len(s) /\ Len(t) - 0 >= Len(s) - 0 /\ (Len(t) - 0) % 2 = 0
    BY <1>7, <1>9
  <1>11. Holding(p, t, cs, 0)
    BY <1>2, <1>9, <1>10, HoldMore
  <1>12. Standing(p, r + us[j].length, t, cs, run, flag, ord)
    BY <1>1, <1>4, <1>5, <1>6, <1>11, GoOn
  <1> QED
    BY <1>8, <1>12

\* A function of the embedder comes back.
LEMMA StepForeign ==
  ASSUME NEW p, NEW l, NEW line, NEW us, NEW j, NEW r, NEW s, NEW cs, NEW run, NEW flag, NEW ord,
         Here(p, l, line, us, j, r, s, cs, run, flag, ord), us[j].op = "foreign",
         NEW t \in Seq(Int), Len(t) = Len(s), \A k \in 1 .. Len(s) : t[k] = s[k] \/ t[k] = Spoilt
  PROVE  Standing(p, r + us[j].length, t, cs, run, flag, ord)
  <1>1. /\ IsScript(p) /\ l \in 0 .. Len(p.lines) - 1 /\ line = p.lines[l + 1]
        /\ us = UnitsOf(p, l) /\ j \in 1 .. Len(us)
        /\ cs \in Seq(Int) /\ run \in Int /\ flag \in Int /\ r = FullCode(p)[Spot(p, l, j)].at
        /\ RunFits(p, l, us, j, run, flag, ord) /\ Holding(p, s, cs, Pending(line, us, j))
    BY Parts, ZenonT(60)
  <1>2. Holding(p, s, cs, 0)
    BY <1>1 DEF Pending
  <1>3. /\ line.flag = "UFunc" /\ j = 2 /\ Len(us) = 3 /\ us[3].op = "incline" /\ us[3].to = <<>>
        /\ Embeds(p)
    <2>1. CASE line.flag = "Func" /\ j = 1 /\ Sets(line, us, l)
      BY <2>1 DEF Sets
    <2>2. CASE line.flag = "Func" /\ Flow(line, us, j)
      BY <2>2, Ops
    <2>3. CASE /\ line.flag = "UFunc" /\ Len(us) = 3 /\ Embeds(p)
               /\ us[1].op = "pushargs" /\ us[2].op = "foreign"
               /\ us[3].op = "incline" /\ us[3].to = <<>>
      BY <1>1, <2>3
    <2>4. CASE line.flag = "CFunc" /\ Len(us) = 2 /\ us[1].op = "setline" /\ us[2].op = "jmp"
      BY <1>1, <2>4
    <2> QED
      BY <2>1, <2>2, <2>3, <2>4, Kinds
  <1>4. More(us, j) /\ j + 1 = 3
    BY <1>3 DEF More
  <1>5. RunFits(p, l, us, 3, run, flag, ord)
    BY <1>1, <1>3 DEF RunFits
  <1>6. FramesFit(l, us[3], cs, run, cs) /\ Pending(line, us, 3) = 0
    BY <1>3 DEF FramesFit, Pending
  <1>7. Holding(p, t, cs, 0)
    BY <1>2, <1>3, HoldSpoilt
  <1> QED
    BY <1>1, <1>4, <1>5, <1>6, <1>7, GoOn

\* The first unit of the code, and the last two.
LEMMA Ends ==
  ASSUME NEW p, IsScript(p), NEW c, c = FullCode(p)
  PROVE  /\ Len(c) \in Nat /\ 1 \in 1 .. Len(c) /\ Len(c) \in 1 .. Len(c) /\ Len(c) - 1 \in 1 .. Len(c)
         /\ c[1].op = "enter" /\ c[1].at = 0
         /\ c[1].at + c[1].length = CodeSize(CodeOf(p, 0))
         /\ c[Len(c) - 1].op = "leave"
         /\ c[Len(c) - 1].at = CodeSize(CodeOf(p, Len(p.lines)))
         /\ c[Len(c) - 1].at + c[Len(c) - 1].length = c[Len(c)].at
         /\ c[Len(c)].op = "retn"
  <1>0. PICK n : n = Len(p.lines)
    OBVIOUS
  <1>1. n \in Nat /\ 0 \in 0 .. n /\ n \in 0 .. n
    BY <1>0 DEF IsScript
  <1>2. PICK a, us, b : a = CodeOf(p, n) /\ us = Epilogue /\ b = Placed(us, n, CodeSize(a))
    OBVIOUS
  <1>3. c = a \o b
    BY <1>0, <1>2 DEF FullCode
  <1>4. GoodUnits(us, 0) /\ Len(us) = 2
    BY <1>2, GoodEpilogue
  <1>5. Sound(a, n) /\ Sound(c, n + 1)
    BY <1>0, <1>1, <1>2, LinesSound, FullSound
  <1>6. CodeSize(a) \in Nat /\ Len(a) \in Nat /\ Len(a) >= 1
    BY <1>5 DEF Sound
  <1>7. LaidOut(b, us, n, CodeSize(a))
    BY <1>2, <1>4, <1>6, PlacedUnits
  <1>8. Joined(a, n, us, b, c)
    BY <1>1, <1>2, <1>3, <1>4, <1>5, SoundJoin
  <1>9. Len(c) = Len(a) + 2 /\ c[Len(a) + 1] = b[1] /\ c[Len(a) + 2] = b[2]
    BY <1>4, <1>8 DEF Joined
  <1>10. /\ Len(b) = 2 /\ b[1].op = us[1].op /\ b[2].op = us[2].op
         /\ b[1].at = CodeSize(a) /\ b[2].at = b[1].at + b[1].length
    <2>1. Len(b) = 2 /\ 1 \in 1 .. Len(b) /\ 2 \in 1 .. Len(b) /\ 1 \in 1 .. Len(b) - 1 /\ 1 + 1 = 2
      BY <1>4, <1>7 DEF LaidOut
    <2> QED
      BY <2>1, <1>7 DEF LaidOut
  <1>11. us[1].op = "leave" /\ us[2].op = "retn"
    <2>1. PICK u, v : u = Unit("leave", Plain(4) + Plain(4)) /\ v = Unit("retn", RetnLength)
      OBVIOUS
    <2>2. us = <<u, v>>
      BY <1>2, <2>1 DEF Epilogue
    <2>3. us[1] = u /\ us[2] = v
      BY <2>2, Two
    <2>4. u.op = "leave" /\ v.op = "retn"
      BY <2>1, Made
    <2> QED
      BY <2>3, <2>4
  <1>12. Len(c) - 1 = Len(a) + 1
    BY <1>6, <1>9
  <1>13. /\ c[Len(c) - 1].op = "leave" /\ c[Len(c) - 1].at = CodeSize(a) /\ c[Len(c)].op = "retn"
         /\ c[Len(c) - 1].at + c[Len(c) - 1].length = c[Len(c)].at
    BY <1>9, <1>10, <1>11, <1>12
  <1>14. PICK vs, d : vs = <<Prologue>> /\ d = CodeOf(p, 0)
    OBVIOUS
  <1>15. GoodUnits(vs, 0) /\ vs[1] = Prologue /\ Len(vs) = 1
    <2>1. Plain(4) + Plain(4) \in Nat /\ Plain(4) + Plain(4) >= 1
      BY DEF Plain, Prefix
    <2>2. IsUnit(Prologue) /\ ~ToUnit(Prologue)
      BY <2>1, PlainUnit DEF Prologue
    <2> QED
      BY <1>14, <2>2, Good1
  <1>16. d = Placed(vs, -1, 0)
    <2>1. Whole(p)[0] = Begun
      BY WholeSteps
    <2> QED
      BY <1>14, <2>1 DEF CodeOf, Begun
  <1>17. LaidOut(d, vs, -1, 0)
    BY <1>15, <1>16, PlacedUnits
  <1>18. Len(d) = 1 /\ d[1].op = Prologue.op /\ d[1].at = 0
    BY <1>15, <1>17 DEF LaidOut
  <1>19. Prologue.op = "enter"
    BY DEF Prologue, Unit
  <1>20. c[1] = d[1]
    <2>1. \A k \in 1 .. Len(d) : c[k] = d[k]
      BY <1>0, <1>1, <1>14, FullStarts
    <2> QED
      BY <1>18, <2>1
  <1>21. c[1].at + c[1].length = CodeSize(d)
    <2>1. Last(d) = d[1]
      BY <1>18 DEF Last
    <2> QED
      BY <1>20, <2>1 DEF CodeSize
  <1> QED
    BY <1>0, <1>2, <1>6, <1>9, <1>13, <1>14, <1>18, <1>19, <1>20, <1>21

\* push ebp; mov ebp, esp.
LEMMA StepEnter ==
  ASSUME NEW p, IsScript(p), NEW r, NEW s, NEW cs, NEW run, NEW flag \in Int, NEW ord,
         Entering(r, s, cs, run)
  PROVE  Standing(p, r + FullCode(p)[1].length, Append(s, Rbp), cs, run, flag, ord)
  <1>1. r = 0 /\ s = <<Home>> /\ cs = <<>> /\ run = 0
    BY DEF Entering
  <1>2. PICK a, b, t : a = Home /\ b = Rbp /\ t = <<a, b>>
    OBVIOUS
  <1>3. a \in Int /\ b \in Int /\ a < 0 /\ b < 0
    BY <1>2 DEF Home, Rbp
  <1>4. Append(s, Rbp) = t
    <2>1. s \in Seq(Int) /\ Len(s) = 1 /\ s[1] = a
      <3>1. s = <<a>>
        BY <1>1, <1>2
      <3>2. <<a>> \in Seq(Int) /\ Len(<<a>>) = 1 /\ <<a>>[1] = a
        BY <1>3
      <3> QED
        BY <3>1, <3>2
    <2>2. Append(s, b) \in Seq(Int) /\ Len(Append(s, b)) = 2 /\ Append(s, b)[1] = a /\ Append(s, b)[2] = b
      <3>1. IsSeq(s)
        BY <2>1, OfRange
      <3>2. /\ Len(Append(s, b)) = Len(s) + 1 /\ \A i \in 1 .. Len(s) : Append(s, b)[i] = s[i]
            /\ Append(s, b)[Len(s) + 1] = b
        BY <3>1, AppendIsSeq
      <3>3. Append(s, b) \in Seq(Int)
        BY <1>3, <2>1
      <3> QED
        BY <2>1, <3>2, <3>3
    <2>3. t \in Seq(Int) /\ Len(t) = 2 /\ t[1] = a /\ t[2] = b
      BY <1>2, <1>3
    <2>4. IsSeq(Append(s, b)) /\ IsSeq(t)
      BY <2>2, <2>3, OfRange
    <2>5. \A i \in 1 .. 2 : i = 1 \/ i = 2
      OBVIOUS
    <2>6. Append(s, b) = t
      BY <2>2, <2>3, <2>4, <2>5, SameSeq
    <2> QED
      BY <1>2, <2>6
  <1>5. t \in Seq(Int) /\ Len(t) = 2 /\ t[1] < 0 /\ t[2] < 0
    BY <1>2, <1>3
  <1>6. cs \in Seq(Int) /\ Len(cs) = 0
    BY <1>1
  <1>7. Holding(p, t, cs, 0)
    <2>1. PICK place : place \in [1 .. Len(cs) -> Int]
      <3>1. [n \in 1 .. Len(cs) |-> 0] \in [1 .. Len(cs) -> Int]
        OBVIOUS
      <3> QED
        BY <3>1
    <2>2. Returns(p, t, cs, Len(t) - 0, place)
      BY <1>5, <1>6 DEF Returns
    <2>3. \A n \in 1 .. Len(cs) : Calling(p, cs[n])
      BY <1>6
    <2>4. \E q \in [1 .. Len(cs) -> Int] : Returns(p, t, cs, Len(t) - 0, q)
      BY <2>1, <2>2
    <2>5. Len(t) - 0 >= 2 /\ (Len(t) - 0) % 2 = 0
      BY <1>5
    <2> QED
      BY <1>5, <1>6, <2>3, <2>4, <2>5 DEF Holding
  <1>8. 0 \in 0 .. Len(p.lines) /\ run \in Int
    BY <1>1 DEF IsScript
  <1>9. Standing(p, CodeSize(CodeOf(p, 0)), t, cs, run, flag, ord)
    BY <1>1, <1>7, <1>8, Arrive
  <1>10. r + FullCode(p)[1].length = CodeSize(CodeOf(p, 0))
    BY <1>1, Ends
  <1> QED
    BY <1>4, <1>9, <1>10

\* mov esp, ebp; pop ebp.
LEMMA StepLeave ==
  ASSUME NEW p, IsScript(p), NEW r, NEW s, NEW cs \in Seq(Int), NEW run \in Int, NEW flag \in Int,
         NEW ord, Leaving(p, r, s, cs)
  PROVE  Standing(p, r + FullCode(p)[Len(FullCode(p)) - 1].length, SubSeq(s, 1, 1), cs, run, flag, ord)
  <1>1. r = CodeSize(CodeOf(p, Len(p.lines))) /\ Holding(p, s, cs, 0)
    BY DEF Leaving
  <1>2. s \in Seq(Int) /\ Len(s) \in Nat /\ Len(s) - 0 >= 2 /\ s[1] < 0
    BY <1>1, HoldEven
  <1>3. PICK t : t = SubSeq(s, 1, 1)
    OBVIOUS
  <1>4. t \in Seq(Int) /\ Len(t) = 1 /\ t[1] < 0
    BY <1>2, <1>3
  <1>5. r + FullCode(p)[Len(FullCode(p)) - 1].length = FullCode(p)[Len(FullCode(p))].at
    BY <1>1, Ends
  <1>6. Left(p, r + FullCode(p)[Len(FullCode(p)) - 1].length, t)
    BY <1>4, <1>5 DEF Left
  <1> QED
    BY <1>3, <1>6 DEF Standing

-----------------------------------------------------------------------------
\* The processor's invariant.
Posture == Standing(Program, rip, stack, callStack_, run_line_, cmpr_flag_, order)

ProcInv ==
  /\ status = "running" /\ Fresh => Posture /\ was.line \in -1 .. Len(Lines)
  /\ status = "translating" => run_line_ = 0 /\ callStack_ = <<>> /\ cmpr_flag_ = 2
  /\ status \in {"idle", "translating"} => was.line = -1
  /\ "line" \in DOMAIN was

\* No two units are at the same place.
LEMMA OnlyOne ==
  ASSUME TransInv, status = "running", Fresh, NEW k \in 1 .. Len(mcode_), mcode_[k].at = rip
  PROVE  At = {k} /\ U = mcode_[k]
  <1>1. /\ Len(mcode_) \in Nat /\ DOMAIN mcode_ = 1 .. Len(mcode_)
        /\ Sound(FullCode(Program), Len(Program.lines) + 1)
        /\ Len(mcode_) = Len(FullCode(Program))
        /\ \A i \in 1 .. Len(mcode_) : /\ IsPlaced(FullCode(Program)[i]) /\ IsUnit(FullCode(Program)[i])
                                       /\ mcode_[i].at = FullCode(Program)[i].at
    BY RunningUnits
  <1>2. PICK c : c = FullCode(Program)
    OBVIOUS
  <1>3. PICK size : IsCode(c, 0, size)
    BY <1>1, <1>2 DEF Sound
  <1>4. \A i \in 1 .. Len(c) : c[i].at \in Nat /\ c[i].length \in Nat /\ c[i].length >= 1
    BY <1>1, <1>2 DEF IsPlaced, IsUnit
  <1>5. ASSUME NEW i \in 1 .. Len(c), NEW j \in 1 .. Len(c), i < j PROVE c[i].at # c[j].at
    <2>1. c[i].at + c[i].length <= c[j].at
      BY <1>3, <1>5, CodeInOrder
    <2>2. c[i].at \in Nat /\ c[j].at \in Nat /\ c[i].length \in Nat /\ c[i].length >= 1
      BY <1>4
    <2> QED
      BY <2>1, <2>2
  <1>6. ASSUME NEW i \in 1 .. Len(mcode_), mcode_[i].at = rip PROVE i = k
    <2>1. c[i].at = c[k].at /\ i \in 1 .. Len(c) /\ k \in 1 .. Len(c)
      BY <1>1, <1>2, <1>6
    <2>2. ~(i < k) /\ ~(k < i)
      BY <1>5, <2>1
    <2> QED
      BY <1>1, <2>2
  <1>7. At = {k}
    BY <1>1, <1>6 DEF At
  <1> QED
    BY <1>7 DEF U

\* What is fetched is unit j of the units us of line l.
Reads(us, j, l) ==
  /\ U.op = us[j].op /\ U.arg = us[j].arg /\ U.to = us[j].to /\ U.length = us[j].length
  /\ U.line = l /\ IsTarget(Program, l, us, j, U.target)

\* The processor at a unit of a line reads that unit.
LEMMA ReadsUnit ==
  ASSUME TransInv, status = "running", Fresh, NEW l \in 0 .. Len(Lines) - 1,
         NEW us, us = UnitsOf(Program, l), NEW j \in 1 .. Len(us),
         rip = FullCode(Program)[Spot(Program, l, j)].at
  PROVE  Reads(us, j, l)
  <1>1. PICK p, c, k : p = Program /\ c = FullCode(p) /\ k = Spot(p, l, j)
    OBVIOUS
  <1>2. IsScript(p) /\ SameButTarget(mcode_, c) /\ p.lines = Lines
    BY <1>1, RunningCode DEF Lines
  <1>3. IsSpot(p, l, us, j, c, k)
    BY <1>1, <1>2, UnitInCode
  <1>4. /\ Len(mcode_) = Len(c)
        /\ \A i \in 1 .. Len(mcode_) : /\ IsPlaced(c[i]) /\ IsUnit(c[i]) /\ mcode_[i].at = c[i].at
    BY <1>1, RunningUnits
  <1>5. k \in 1 .. Len(mcode_) /\ k \in 1 .. Len(c)
    BY <1>3, <1>4 DEF IsSpot
  <1>6. U = mcode_[k]
    BY <1>1, <1>4, <1>5, OnlyOne
  <1>7. mcode_[k] = [c[k] EXCEPT !.target = mcode_[k].target] /\ IsPlaced(c[k])
    BY <1>2, <1>4, <1>5 DEF SameButTarget
  <1>8. /\ U.op = c[k].op /\ U.arg = c[k].arg /\ U.to = c[k].to /\ U.length = c[k].length
        /\ U.line = c[k].line
    BY <1>6, <1>7 DEF IsPlaced
  <1>9. /\ c[k].op = us[j].op /\ c[k].arg = us[j].arg /\ c[k].to = us[j].to
        /\ c[k].length = us[j].length /\ c[k].line = l /\ Len(CodeOf(p, l)) \in Nat
    BY <1>3 DEF IsSpot
  <1>10. GoesRight(p, mcode_, k)
    BY <1>1, <1>5, RunningCode
  <1>11. ASSUME ToUnit(us[j])
         PROVE  U.target = FullCode(Program)[Spot(Program, l, j + us[j].to[2])].at
    <2>1. ToUnit(mcode_[k])
      BY <1>6, <1>8, <1>9, <1>11 DEF ToUnit, Jumps
    <2>2. PICK d : d = us[j].to[2]
      OBVIOUS
    <2>3. mcode_[k].to[2] = d
      BY <1>6, <1>8, <1>9, <2>2
    <2>4. d \in Nat
      <3>1. ToUnit(c[k])
        BY <1>9, <1>11 DEF ToUnit, Jumps
      <3>2. c[k].to[2] \in Nat
        BY <1>4, <1>5, <3>1 DEF IsUnit
      <3> QED
        BY <1>9, <2>2, <3>2
    <2>5. k + d \in 1 .. Len(mcode_) /\ mcode_[k].target = mcode_[k + d].at
      BY <1>10, <2>1, <2>3 DEF GoesRight
    <2>6. mcode_[k + d].at = c[k + d].at
      BY <1>4, <2>5
    <2>7. k + d = Spot(p, l, j + d)
      BY <1>1, <1>9, <2>4 DEF Spot
    <2> QED
      BY <1>1, <1>6, <2>2, <2>5, <2>6, <2>7
  <1>12. ASSUME ToLine(us[j])
         PROVE  U.target = IF us[j].to[2] < Len(Program.lines)
                           THEN CodeSize(CodeOf(Program, us[j].to[2])) ELSE -1
    <2>1. ToLine(mcode_[k]) /\ mcode_[k].to[2] = us[j].to[2]
      BY <1>6, <1>8, <1>9, <1>12 DEF ToLine, Jumps
    <2> QED
      BY <1>1, <1>6, <1>10, <2>1 DEF GoesRight
  <1>13. IsTarget(Program, l, us, j, U.target)
    BY <1>11, <1>12 DEF IsTarget
  <1> QED
    BY <1>8, <1>9, <1>13 DEF Reads

\* Unit j of line l is what the processor is at.
Stands(l, us, j) ==
  /\ Here(Program, l, Command0, us, j, rip, stack, callStack_, run_line_, cmpr_flag_, order)
  /\ Reads(us, j, l)

AtFirst == Entering(rip, stack, callStack_, run_line_) /\ U = mcode_[1] /\ U.op = "enter"
           /\ U.length = FullCode(Program)[1].length
AtLeave == /\ Leaving(Program, rip, stack, callStack_) /\ U.op = "leave"
           /\ U.length = FullCode(Program)[Len(FullCode(Program)) - 1].length
AtLast == Left(Program, rip, stack) /\ U.op = "retn"

\* If rip is at a unit, it is the first, one of the epilogue, or one of a line.
LEMMA Spotted ==
  ASSUME TransInv, status = "running", Fresh, Posture, At # {}
  PROVE  AtFirst \/ AtLeave \/ AtLast \/ \E l, us, j : Stands(l, us, j)
  <1>1. PICK p, c : p = Program /\ c = FullCode(p)
    OBVIOUS
  <1>2. IsScript(p) /\ SameButTarget(mcode_, c) /\ p.lines = Lines
    BY <1>1, RunningCode DEF Lines
  <1>3. /\ Len(mcode_) = Len(c) /\ DOMAIN mcode_ = 1 .. Len(mcode_)
        /\ \A i \in 1 .. Len(mcode_) : /\ IsPlaced(c[i]) /\ mcode_[i].at = c[i].at /\ mcode_[i].op = c[i].op
    BY <1>1, RunningUnits
  <1>4. \A i \in 1 .. Len(mcode_) : mcode_[i].length = c[i].length
    BY <1>2, <1>3 DEF SameButTarget, IsPlaced
  <1>5. /\ 1 \in 1 .. Len(c) /\ Len(c) \in 1 .. Len(c) /\ Len(c) - 1 \in 1 .. Len(c)
        /\ c[1].op = "enter" /\ c[1].at = 0
        /\ c[Len(c) - 1].op = "leave"
        /\ c[Len(c) - 1].at = CodeSize(CodeOf(p, Len(p.lines)))
        /\ c[Len(c)].op = "retn"
    BY <1>1, <1>2, Ends
  <1>6. rip # -1
    <2>1. PICK k \in DOMAIN mcode_ : mcode_[k].at = rip
      BY DEF At
    <2>2. rip \in Nat
      BY <1>3, <2>1 DEF IsPlaced
    <2> QED
      BY <2>2
  <1>7. CASE Entering(rip, stack, callStack_, run_line_)
    <2>1. 1 \in 1 .. Len(mcode_) /\ mcode_[1].at = rip
      BY <1>3, <1>5, <1>7 DEF Entering
    <2>2. U = mcode_[1]
      BY <2>1, OnlyOne
    <2> QED
      BY <1>1, <1>3, <1>4, <1>5, <1>7, <2>1, <2>2 DEF AtFirst
  <1>8. CASE Leaving(p, rip, stack, callStack_)
    <2>1. PICK k : k = Len(c) - 1
      OBVIOUS
    <2>2. k \in 1 .. Len(mcode_) /\ mcode_[k].at = rip
      BY <1>3, <1>5, <1>8, <2>1 DEF Leaving
    <2>3. U = mcode_[k]
      BY <2>2, OnlyOne
    <2> QED
      BY <1>1, <1>3, <1>4, <1>5, <1>8, <2>1, <2>2, <2>3 DEF AtLeave
  <1>9. CASE Left(p, rip, stack)
    <2>1. PICK k : k = Len(c)
      OBVIOUS
    <2>2. k \in 1 .. Len(mcode_) /\ mcode_[k].at = rip
      BY <1>1, <1>3, <1>5, <1>9, <2>1 DEF Left
    <2>3. U = mcode_[k]
      BY <2>2, OnlyOne
    <2> QED
      BY <1>1, <1>3, <1>5, <1>9, <2>1, <2>2, <2>3 DEF AtLast
  <1>10. CASE \E l, j : InLine(p, l, j, rip, stack, callStack_, run_line_, cmpr_flag_, order)
    <2>1. PICK l, j : InLine(p, l, j, rip, stack, callStack_, run_line_, cmpr_flag_, order)
      BY <1>10
    <2>2. PICK us : us = UnitsOf(p, l)
      OBVIOUS
    <2>3. l \in 0 .. Len(p.lines) - 1 /\ j \in 1 .. Len(us) /\ rip = FullCode(p)[Spot(p, l, j)].at
      BY <2>1, <2>2 DEF InLine
    <2>4. Reads(us, j, l)
      BY <1>1, <1>2, <2>2, <2>3, ReadsUnit
    <2>5. Command0 = p.lines[l + 1]
      BY <1>2, <2>4 DEF Reads, Command0
    <2>6. callStack_ \in Seq(Int) /\ run_line_ \in Int /\ cmpr_flag_ \in Int
      BY DEF Posture, Standing
    <2>7. Here(p, l, Command0, us, j, rip, stack, callStack_, run_line_, cmpr_flag_, order)
      BY <1>2, <2>1, <2>2, <2>5, <2>6 DEF Here
    <2> QED
      BY <1>1, <2>4, <2>7 DEF Stands
  <1> QED
    BY <1>1, <1>6, <1>7, <1>8, <1>9, <1>10 DEF Posture, Standing

\* A line has no such units.
LEMMA LineOps ==
  ASSUME NEW l, NEW us, NEW j, Stands(l, us, j)
  PROVE  U.op = us[j].op /\ us[j].op \notin {"enter", "leave", "garbage"}
  <1>1. Here(Program, l, Command0, us, j, rip, stack, callStack_, run_line_, cmpr_flag_, order)
        /\ U.op = us[j].op
    BY DEF Stands, Reads
  <1>2. PICK line : line = Command0
    OBVIOUS
  <1>3. j \in 1 .. Len(us)
    BY <1>1, Parts
  <1>4. CASE j = 1 /\ Sets(line, us, l)
    BY <1>1, <1>4 DEF Sets
  <1>5. CASE Flow(line, us, j)
    BY <1>1, <1>5, Ops
  <1>6. CASE Len(us) = 3 /\ us[1].op = "pushargs" /\ us[2].op = "foreign" /\ us[3].op = "incline"
    BY <1>1, <1>3, <1>6
  <1>7. CASE Len(us) = 2 /\ us[1].op = "setline" /\ us[2].op = "jmp"
    BY <1>1, <1>3, <1>7
  <1> QED
    BY <1>1, <1>2, <1>4, <1>5, <1>6, <1>7, Kinds

\* Where the processor is, by what is fetched.
LEMMA Found ==
  ASSUME TransInv, Fresh, Posture, NEW op, Fetched(op), op \notin {"enter", "leave", "retn"}
  PROVE  \E l, us, j : Stands(l, us, j) /\ us[j].op = op
  <1>1. status = "running" /\ At # {} /\ U.op = op
    BY DEF Fetched
  <1>2. PICK l, us, j : Stands(l, us, j)
    BY <1>1, Spotted DEF AtFirst, AtLeave, AtLast
  <1> QED
    BY <1>1, <1>2, LineOps

-----------------------------------------------------------------------------
\* The steps of the processor keep it.
LEMMA Carried ==
  ASSUME UNCHANGED translator,
         Standing(Program, rip', stack', callStack_', run_line_', cmpr_flag_', order')
  PROVE  Posture'
  <1>1. Program' = Program
    BY DEF translator, Program
  <1> QED
    BY <1>1 DEF Posture

\* run_line_ is set where lines without code were skipped.
LEMMA SetRunLineKeeps ==
  ASSUME TransInv, Fresh, Posture, SetRunLine, status' = "running"
  PROVE  Posture'
  <1>1. PICK l, us, j : Stands(l, us, j) /\ us[j].op = "setline"
    BY Found DEF SetRunLine
  <1>2. /\ UNCHANGED translator /\ rip' = rip + U.length
        /\ run_line_' = U.arg /\ stack' = stack /\ order' = order /\ cmpr_flag_' = cmpr_flag_
        /\ callStack_' = callStack_
    BY DEF SetRunLine, Onward
  <1>3. U.length = us[j].length /\ U.arg = us[j].arg
    BY <1>1 DEF Stands, Reads
  <1>4. Standing(Program, rip + us[j].length, stack, callStack_, us[j].arg, cmpr_flag_, order)
    BY <1>1, StepSetLine DEF Stands
  <1> QED
    BY <1>2, <1>3, <1>4, Carried

\* run_line_ is counted at the end of a line.
LEMMA IncRunLineKeeps ==
  ASSUME TransInv, Fresh, Posture, IncRunLine, status' = "running"
  PROVE  Posture'
  <1>1. PICK l, us, j : Stands(l, us, j) /\ us[j].op = "incline"
    BY Found DEF IncRunLine
  <1>2. /\ UNCHANGED translator /\ rip' = rip + U.length
        /\ run_line_' = run_line_ + 1 /\ stack' = stack /\ order' = order /\ cmpr_flag_' = cmpr_flag_
        /\ callStack_' = callStack_
    BY DEF IncRunLine, Onward
  <1>3. U.length = us[j].length /\ U.arg = us[j].arg
    BY <1>1 DEF Stands, Reads
  <1>4. Standing(Program, rip + us[j].length, stack, callStack_, run_line_ + 1, cmpr_flag_, order)
    BY <1>1, StepIncline DEF Stands
  <1> QED
    BY <1>2, <1>3, <1>4, Carried

\* The address of a variable is looked up.
LEMMA CallGetPtrKeeps ==
  ASSUME TransInv, Fresh, Posture, CallGetPtr, status' = "running"
  PROVE  Posture'
  <1>1. PICK l, us, j : Stands(l, us, j) /\ us[j].op = "getptr"
    BY Found DEF CallGetPtr
  <1>2. /\ UNCHANGED translator /\ rip' = rip + U.length
        /\ UNCHANGED <<stack, order, run_line_, cmpr_flag_, callStack_>>
    BY DEF CallGetPtr, Onward, memory
  <1>3. U.length = us[j].length /\ U.arg = us[j].arg
    BY <1>1 DEF Stands, Reads
  <1>4. Standing(Program, rip + us[j].length, stack, callStack_, run_line_, cmpr_flag_, order)
    BY <1>1, StepGetPtr DEF Stands
  <1> QED
    BY <1>2, <1>3, <1>4, Carried

\* The address found is saved.
LEMMA SavePtrKeeps ==
  ASSUME TransInv, Fresh, Posture, SavePtr, status' = "running"
  PROVE  Posture'
  <1>1. PICK l, us, j : Stands(l, us, j) /\ us[j].op = "save"
    BY Found DEF SavePtr
  <1>2. /\ UNCHANGED translator /\ rip' = rip + U.length
        /\ stack' = stack \o <<Filler, Filler>> /\ UNCHANGED <<order, run_line_, cmpr_flag_, callStack_>>
    BY DEF SavePtr, Onward, memory
  <1>3. U.length = us[j].length /\ U.arg = us[j].arg
    BY <1>1 DEF Stands, Reads
  <1>4. Standing(Program, rip + us[j].length, stack \o <<Filler, Filler>>, callStack_, run_line_, cmpr_flag_, order)
    BY <1>1, StepSave DEF Stands
  <1> QED
    BY <1>2, <1>3, <1>4, Carried

\* The flag of a comparison is stored.
LEMMA SetFlagKeeps ==
  ASSUME TransInv, Fresh, Posture, SetFlag, status' = "running"
  PROVE  Posture'
  <1>1. PICK l, us, j : Stands(l, us, j) /\ us[j].op = "flag"
    BY Found DEF SetFlag
  <1>2. /\ UNCHANGED translator /\ rip' = rip + U.length
        /\ cmpr_flag_' = U.arg /\ UNCHANGED <<stack, order, run_line_, callStack_>>
    BY DEF SetFlag, Onward
  <1>3. U.length = us[j].length /\ U.arg = us[j].arg
    BY <1>1 DEF Stands, Reads
  <1>4. Standing(Program, rip + us[j].length, stack, callStack_, run_line_, us[j].arg, order)
    BY <1>1, StepFlag DEF Stands
  <1> QED
    BY <1>2, <1>3, <1>4, Carried

\* The flag is tested.
LEMMA TestFlagKeeps ==
  ASSUME TransInv, Fresh, Posture, TestFlag, status' = "running"
  PROVE  Posture'
  <1>1. PICK l, us, j : Stands(l, us, j) /\ us[j].op = "test"
    BY Found DEF TestFlag
  <1>2. /\ UNCHANGED translator /\ rip' = rip + U.length
        /\ order' = SignOf(cmpr_flag_) /\ UNCHANGED <<stack, run_line_, cmpr_flag_, callStack_>>
    BY DEF TestFlag, Onward, memory
  <1>3. U.length = us[j].length /\ U.arg = us[j].arg
    BY <1>1 DEF Stands, Reads
  <1>4. Standing(Program, rip + us[j].length, stack, callStack_, run_line_, cmpr_flag_, SignOf(cmpr_flag_))
    BY <1>1, StepTest DEF Stands
  <1> QED
    BY <1>2, <1>3, <1>4, Carried

\* Before a call: rax is pushed and run_line_ moves past the first line of the function.
LEMMA BumpKeeps ==
  ASSUME TransInv, Fresh, Posture, Bump, status' = "running"
  PROVE  Posture'
  <1>1. PICK l, us, j : Stands(l, us, j) /\ us[j].op = "bump"
    BY Found DEF Bump
  <1>2. /\ UNCHANGED translator /\ rip' = rip + U.length
        /\ stack' = Append(stack, Filler) /\ run_line_' = run_line_ + 1
        /\ UNCHANGED <<order, cmpr_flag_, callStack_>>
    BY DEF Bump, Onward, Push
  <1>3. U.length = us[j].length /\ U.arg = us[j].arg
    BY <1>1 DEF Stands, Reads
  <1>4. Standing(Program, rip + us[j].length, Append(stack, Filler), callStack_, run_line_ + 1, cmpr_flag_, order)
    BY <1>1, StepBump DEF Stands
  <1> QED
    BY <1>2, <1>3, <1>4, Carried

\* After a call: rax is popped.
LEMMA PopRaxKeeps ==
  ASSUME TransInv, Fresh, Posture, PopRax, status' = "running"
  PROVE  Posture'
  <1>1. PICK l, us, j : Stands(l, us, j) /\ us[j].op = "pop"
    BY Found DEF PopRax
  <1>2. /\ UNCHANGED translator /\ rip' = rip + U.length
        /\ stack' = SubSeq(stack, 1, Len(stack) - 1) /\ UNCHANGED <<order, run_line_, cmpr_flag_, callStack_>>
    BY DEF PopRax, Onward, Popped, memory
  <1>3. U.length = us[j].length /\ U.arg = us[j].arg
    BY <1>1 DEF Stands, Reads
  <1>4. Standing(Program, rip + us[j].length, SubSeq(stack, 1, Len(stack) - 1), callStack_, run_line_, cmpr_flag_, order)
    BY <1>1, StepPop DEF Stands
  <1> QED
    BY <1>2, <1>3, <1>4, Carried

\* The arguments of a function of the embedder are pushed.
LEMMA PushArgumentsKeeps ==
  ASSUME TransInv, Fresh, Posture, PushArguments, status' = "running"
  PROVE  Posture'
  <1>1. PICK l, us, j : Stands(l, us, j) /\ us[j].op = "pushargs"
    BY Found DEF PushArguments
  <1>2. /\ UNCHANGED translator /\ rip' = rip + U.length
        /\ stack' = stack \o <<Filler, Filler>> /\ UNCHANGED <<order, run_line_, cmpr_flag_, callStack_>>
    BY DEF PushArguments, Onward, memory
  <1>3. U.length = us[j].length /\ U.arg = us[j].arg
    BY <1>1 DEF Stands, Reads
  <1>4. Standing(Program, rip + us[j].length, stack \o <<Filler, Filler>>, callStack_, run_line_, cmpr_flag_, order)
    BY <1>1, StepPushArguments DEF Stands
  <1> QED
    BY <1>2, <1>3, <1>4, Carried

\* The handler of a command that changes no control.
LEMMA RunOpaqueKeeps ==
  ASSUME TransInv, Fresh, Posture, RunOpaque, status' = "running"
  PROVE  Posture'
  <1>1. PICK l, us, j : Stands(l, us, j) /\ us[j].op = "handler"
    BY Found DEF RunOpaque
  <1>2. /\ UNCHANGED translator /\ rip' = rip + U.length /\ Command0.cmd \in Opaque
        /\ UNCHANGED <<stack, order, run_line_, cmpr_flag_, callStack_>>
    BY DEF RunOpaque, Onward, Terminate
  <1>3. U.length = us[j].length
    BY <1>1 DEF Stands, Reads
  <1>4. Standing(Program, rip + us[j].length, stack, callStack_, run_line_, cmpr_flag_, order)
    BY <1>1, <1>2, StepOpaque DEF Stands
  <1> QED
    BY <1>2, <1>3, <1>4, Carried

\* The handler takes its arguments from the line it was compiled for.
LEMMA OnItsLine ==
  ASSUME NEW l, NEW us, NEW j, Stands(l, us, j), us[j].op = "handler"
  PROVE  run_line_ = U.line /\ Argument = Command0
  <1>1. run_line_ = l
    BY AtHandlers DEF Stands
  <1>2. U.line = l
    BY DEF Stands, Reads
  <1> QED
    BY <1>1, <1>2 DEF Argument, Command0

\* The handler of a jump sets run_line_ where the jump goes.
LEMMA RunJumpKeeps ==
  ASSUME TransInv, Fresh, Posture, RunJump, status' = "running"
  PROVE  Posture'
  <1>1. PICK l, us, j : Stands(l, us, j) /\ us[j].op = "handler"
    BY Found DEF RunJump
  <1>2. /\ UNCHANGED translator /\ rip' = rip + U.length
        /\ Command0.cmd \in {"Jmp"} \cup DOMAIN Conditional
        /\ run_line_' = IF TakenBy(Command0.cmd) THEN Argument.to ELSE run_line_
        /\ UNCHANGED <<stack, order, cmpr_flag_, callStack_>>
    BY DEF RunJump, Onward
  <1>3. TakenBy(Command0.cmd) = Takes(Command0.cmd, cmpr_flag_)
    BY Zenon DEF TakenBy, Takes
  <1>4. run_line_' = IF Takes(Command0.cmd, cmpr_flag_) THEN Command0.to ELSE run_line_
    BY <1>1, <1>2, <1>3, OnItsLine
  <1>5. U.length = us[j].length
    BY <1>1 DEF Stands, Reads
  <1>6. Standing(Program, rip + us[j].length, stack, callStack_, run_line_', cmpr_flag_, order)
    BY <1>1, <1>2, <1>4, StepJump DEF Stands
  <1> QED
    BY <1>2, <1>5, <1>6, Carried

\* The handler of ret pops callStack_.
LEMMA RunRetKeeps ==
  ASSUME TransInv, Fresh, Posture, RunRet, status' = "running"
  PROVE  Posture'
  <1>1. PICK l, us, j : Stands(l, us, j) /\ us[j].op = "handler"
    BY Found DEF RunRet
  <1>2. /\ UNCHANGED translator /\ rip' = rip + U.length /\ Command0.cmd = "Ret"
        /\ callStack_ # <<>> /\ callStack_' = Front(callStack_) /\ run_line_' = Last(callStack_) + 1
        /\ UNCHANGED <<stack, order, cmpr_flag_>>
    BY DEF RunRet, Onward, Terminate
  <1>3. U.length = us[j].length
    BY <1>1 DEF Stands, Reads
  <1>4. Standing(Program, rip + us[j].length, stack, Front(callStack_), Last(callStack_) + 1, cmpr_flag_, order)
    BY <1>1, <1>2, StepRet DEF Stands
  <1> QED
    BY <1>2, <1>3, <1>4, Carried

\* The handler of call pushes its line to callStack_.
LEMMA RunCallKeeps ==
  ASSUME TransInv, Fresh, Posture, RunCall, status' = "running"
  PROVE  Posture'
  <1>1. PICK l, us, j : Stands(l, us, j) /\ us[j].op = "handler"
    BY Found DEF RunCall
  <1>2. /\ UNCHANGED translator /\ rip' = rip + U.length /\ Command0.cmd = "Call"
        /\ callStack_' = Append(callStack_, run_line_) /\ run_line_' = Argument.to
        /\ UNCHANGED <<stack, order, cmpr_flag_>>
    BY DEF RunCall, Onward, Terminate
  <1>3. U.length = us[j].length /\ Argument = Command0
    BY <1>1, OnItsLine DEF Stands, Reads
  <1>4. Standing(Program, rip + us[j].length, stack, Append(callStack_, run_line_), Command0.to, cmpr_flag_, order)
    BY <1>1, <1>2, StepCall DEF Stands
  <1> QED
    BY <1>2, <1>3, <1>4, Carried

\* A variable is assigned.
LEMMA AssignmentKeeps ==
  ASSUME TransInv, Fresh, Posture, Assignment, status' = "running"
  PROVE  Posture'
  <1>1. PICK l, us, j : Stands(l, us, j) /\ us[j].op = "assign"
    BY Found DEF Assignment
  <1>2. /\ UNCHANGED translator /\ rip' = rip + U.length
        /\ stack' = IF IsVar(Command0.src) THEN SubSeq(stack, 1, Len(stack) - 2) ELSE stack
        /\ UNCHANGED <<order, run_line_, cmpr_flag_, callStack_>>
    BY DEF Assignment, Onward, GoesWild, Unsaved, Popped
  <1>3. U.length = us[j].length
    BY <1>1 DEF Stands, Reads
  <1>4. Standing(Program, rip + us[j].length, stack', callStack_, run_line_, cmpr_flag_, order)
    BY <1>1, <1>2, StepAssign DEF Stands
  <1> QED
    BY <1>2, <1>3, <1>4, Carried

\* Two values are compared.
LEMMA ComparisonKeeps ==
  ASSUME TransInv, Fresh, Posture, Comparison, status' = "running"
  PROVE  Posture'
  <1>1. PICK l, us, j : Stands(l, us, j) /\ us[j].op = "compare"
    BY Found DEF Comparison
  <1>2. /\ UNCHANGED translator /\ rip' = rip + U.length
        /\ IsVar(Command0.dst) \/ IsVar(Command0.src)
        /\ stack' = IF IsVar(Command0.dst) /\ IsVar(Command0.src)
                    THEN SubSeq(stack, 1, Len(stack) - 2) ELSE stack
        /\ UNCHANGED <<run_line_, cmpr_flag_, callStack_>>
    BY DEF Comparison, Onward, GoesWild, Popped, memory
  <1>3. U.length = us[j].length
    BY <1>1 DEF Stands, Reads
  <1>4. Standing(Program, rip + us[j].length, stack', callStack_, run_line_, cmpr_flag_, order')
    BY <1>1, <1>2, StepCompare DEF Stands
  <1> QED
    BY <1>2, <1>3, <1>4, Carried

\* A jump, taken or not.
LEMMA BranchKeeps ==
  ASSUME TransInv, Fresh, Posture, Branch, status' = "running"
  PROVE  Posture'
  <1>1. PICK op \in {"jmp", "je", "jne", "jg", "jge", "jl", "jle"} :
           Fetched(op) /\ rip' = IF Holds(op) THEN U.target ELSE rip + U.length
    BY DEF Branch
  <1>2. UNCHANGED translator /\ UNCHANGED <<stack, order, run_line_, cmpr_flag_, callStack_>>
    BY DEF Branch, memory
  <1>3. PICK l, us, j : Stands(l, us, j) /\ us[j].op = op
    BY <1>1, Found
  <1>4. U.length = us[j].length /\ IsTarget(Program, l, us, j, U.target)
    BY <1>3 DEF Stands, Reads
  <1>5. Holds(op) = Goes(op, order)
    BY Zenon DEF Holds, Goes
  <1>6. CASE Holds(op)
    <2>1. Standing(Program, U.target, stack, callStack_, run_line_, cmpr_flag_, order)
      BY <1>1, <1>3, <1>4, StepBranch DEF Stands
    <2> QED
      BY <1>1, <1>2, <1>6, <2>1, Carried
  <1>7. CASE ~Holds(op)
    <2>1. op # "jmp"
      BY <1>7 DEF Holds
    <2>2. Standing(Program, rip + us[j].length, stack, callStack_, run_line_, cmpr_flag_, order)
      BY <1>1, <1>3, <1>5, <1>7, <2>1, StepStay DEF Stands
    <2> QED
      BY <1>1, <1>2, <1>4, <1>7, <2>2, Carried
  <1> QED
    BY <1>6, <1>7

\* The call instruction pushes the place after it.
LEMMA CallFunctionKeeps ==
  ASSUME TransInv, Fresh, Posture, CallFunction, status' = "running"
  PROVE  Posture'
  <1>1. PICK l, us, j : Stands(l, us, j) /\ us[j].op = "call"
    BY Found DEF CallFunction
  <1>2. /\ UNCHANGED translator /\ rip' = U.target /\ stack' = Append(stack, rip + U.length)
        /\ UNCHANGED <<order, run_line_, cmpr_flag_, callStack_>>
    BY DEF CallFunction, Push, memory
  <1>3. U.length = us[j].length /\ IsTarget(Program, l, us, j, U.target)
    BY <1>1 DEF Stands, Reads
  <1>4. Standing(Program, U.target, Append(stack, rip + us[j].length), callStack_, run_line_, cmpr_flag_, order)
    BY <1>1, <1>3, StepCallFunction DEF Stands
  <1> QED
    BY <1>2, <1>3, <1>4, Carried

\* The ret instruction pops what the call pushed.
LEMMA ReturnKeeps ==
  ASSUME TransInv, Fresh, Posture, Return, status' = "running"
  PROVE  Posture'
  <1>1. /\ status = "running" /\ At # {} /\ U.op = "retn" /\ UNCHANGED translator
        /\ Last(stack) >= 0 /\ rip' = Last(stack) /\ stack' = SubSeq(stack, 1, Len(stack) - 1)
        /\ UNCHANGED <<order, run_line_, cmpr_flag_, callStack_>>
    BY DEF Return, Fetched, GoesWild, Popped, memory
  <1>2. ~AtLast
    <2> SUFFICES ASSUME AtLast PROVE FALSE
      OBVIOUS
    <2>1. stack \in Seq(Int) /\ Len(stack) = 1 /\ stack[1] < 0
      BY DEF AtLast, Left
    <2>2. Last(stack) = stack[1]
      BY <2>1 DEF Last
    <2>3. stack[1] \in Int
      BY <2>1
    <2> QED
      BY <1>1, <2>1, <2>2, <2>3
  <1>3. PICK l, us, j : Stands(l, us, j)
    BY <1>1, <1>2, Spotted DEF AtFirst, AtLeave
  <1>4. us[j].op = "retn"
    BY <1>1, <1>3, LineOps
  <1>5. Last(stack) = stack[Len(stack)]
    BY DEF Last
  <1>6. Standing(Program, stack[Len(stack)], SubSeq(stack, 1, Len(stack) - 1), callStack_, run_line_, cmpr_flag_, order)
    BY <1>1, <1>3, <1>4, <1>5, StepReturn DEF Stands
  <1> QED
    BY <1>1, <1>5, <1>6, Carried

\* The prologue.
LEMMA EnterKeeps ==
  ASSUME TransInv, Fresh, Posture, Enter, status' = "running"
  PROVE  Posture'
  <1>1. /\ status = "running" /\ At # {} /\ U.op = "enter" /\ UNCHANGED translator
        /\ rip' = rip + U.length /\ stack' = Append(stack, Rbp)
        /\ UNCHANGED <<order, run_line_, cmpr_flag_, callStack_>>
    BY DEF Enter, Fetched, Push, Onward, memory
  <1>2. AtFirst
    BY <1>1, Spotted, LineOps DEF AtLeave, AtLast
  <1>3. Entering(rip, stack, callStack_, run_line_) /\ U.length = FullCode(Program)[1].length
    BY <1>2 DEF AtFirst
  <1>4. IsScript(Program) /\ cmpr_flag_ \in Int
    BY <1>1, RunningCode DEF Posture, Standing
  <1>5. Standing(Program, rip + FullCode(Program)[1].length, Append(stack, Rbp), callStack_, run_line_, cmpr_flag_, order)
    BY <1>3, <1>4, StepEnter
  <1> QED
    BY <1>1, <1>3, <1>5, Carried

\* The epilogue, before its retn.
LEMMA LeaveKeeps ==
  ASSUME TransInv, Fresh, Posture, Leave, status' = "running"
  PROVE  Posture'
  <1>1. /\ status = "running" /\ At # {} /\ U.op = "leave" /\ UNCHANGED translator
        /\ rip' = rip + U.length /\ stack' = SubSeq(stack, 1, 1)
        /\ UNCHANGED <<order, run_line_, cmpr_flag_, callStack_>>
    BY DEF Leave, Fetched, Onward, GoesWild, memory
  <1>2. AtLeave
    BY <1>1, Spotted, LineOps DEF AtFirst, AtLast
  <1>3. /\ Leaving(Program, rip, stack, callStack_)
        /\ U.length = FullCode(Program)[Len(FullCode(Program)) - 1].length
    BY <1>2 DEF AtLeave
  <1>4. IsScript(Program) /\ callStack_ \in Seq(Int) /\ run_line_ \in Int /\ cmpr_flag_ \in Int
    BY <1>1, RunningCode DEF Posture, Standing
  <1>5. Standing(Program, rip + FullCode(Program)[Len(FullCode(Program)) - 1].length, SubSeq(stack, 1, 1),
                 callStack_, run_line_, cmpr_flag_, order)
    BY <1>3, <1>4, StepLeave
  <1> QED
    BY <1>1, <1>3, <1>5, Carried

\* A function of the embedder writes over its arguments.
LEMMA CallForeignKeeps ==
  ASSUME TransInv, Fresh, Posture, CallForeign, status' = "running"
  PROVE  Posture'
  <1>1. PICK l, us, j : Stands(l, us, j) /\ us[j].op = "foreign"
    BY Found DEF CallForeign
  <1>2. PICK n \in {0, 4} :
          /\ UNCHANGED translator /\ rip' = rip + U.length
          /\ stack' = [k \in DOMAIN stack |-> IF k > Len(stack) - n THEN Spoilt ELSE stack[k]]
          /\ UNCHANGED <<order, run_line_, cmpr_flag_, callStack_>>
    BY DEF CallForeign, Onward, GoesWild, memory
  <1>3. U.length = us[j].length
    BY <1>1 DEF Stands, Reads
  <1>4. stack \in Seq(Int)
    BY <1>1, Parts DEF Stands, Holding
  <1>5. PICK t, b : t = stack' /\ b = stack
    OBVIOUS
  <1>6. b \in Seq(Int) /\ t = [k \in DOMAIN b |-> IF k > Len(b) - n THEN Spoilt ELSE b[k]]
    BY <1>2, <1>4, <1>5
  <1>7. t \in Seq(Int) /\ Len(t) = Len(b) /\ \A k \in 1 .. Len(b) : t[k] = b[k] \/ t[k] = Spoilt
    <2>1. DOMAIN b = 1 .. Len(b) /\ Len(b) \in Nat /\ \A k \in 1 .. Len(b) : b[k] \in Int
      BY <1>6
    <2>2. \A k \in 1 .. Len(b) : (IF k > Len(b) - n THEN Spoilt ELSE b[k]) \in Int
      BY <2>1 DEF Spoilt
    <2>3. t \in [1 .. Len(b) -> Int] /\ DOMAIN t = 1 .. Len(b)
      BY <1>6, <2>1, <2>2
    <2>4. t \in Seq(Int) /\ Len(t) = Len(b)
      BY <2>1, <2>3
    <2>5. \A k \in 1 .. Len(b) : t[k] = b[k] \/ t[k] = Spoilt
      BY <1>6, <2>1
    <2> QED
      BY <2>4, <2>5
  <1>8. Standing(Program, rip + us[j].length, t, callStack_, run_line_, cmpr_flag_, order)
    BY <1>1, <1>5, <1>7, StepForeign DEF Stands
  <1> QED
    BY <1>2, <1>3, <1>5, <1>8, Carried


\* Every step of the processor but the last return keeps it.
LEMMA ProcessKeeps ==
  ASSUME TransInv, Fresh, Posture, Process, status' = "running"
  PROVE  Posture'
  <1>1. ~ReturnHome
    BY DEF ReturnHome
  <1>2. ~RunGarbage
    BY DEF RunGarbage, GoesWild
  <1> QED
    BY <1>1, <1>2, EnterKeeps, SetRunLineKeeps, IncRunLineKeeps, RunOpaqueKeeps, RunJumpKeeps,
       RunRetKeeps, RunCallKeeps, CallGetPtrKeeps, SavePtrKeeps, AssignmentKeeps, ComparisonKeeps,
       SetFlagKeeps, TestFlagKeeps, BranchKeeps, BumpKeeps, CallFunctionKeeps, PopRaxKeeps,
       ReturnKeeps, LeaveKeeps, PushArgumentsKeeps, CallForeignKeeps DEF Process

\* Every step of the processor ends with the observation.
LEMMA ProcessObserves ==
  ASSUME Process
  PROVE  ReturnHome \/ Observe
  BY Zenon DEF Process, Enter, SetRunLine, IncRunLine, RunOpaque, RunJump, RunRet, RunCall, CallGetPtr,
     SavePtr, Assignment, Comparison, SetFlag, TestFlag, Branch, Bump, CallFunction, PopRax, Return,
     Leave, PushArguments, CallForeign, RunGarbage

\* What is noted of the line that begins.
LEMMA Noted ==
  ASSUME TransInv, Fresh, status = "running", was.line \in -1 .. Len(Lines), "line" \in DOMAIN was,
         Observe
  PROVE  was'.line \in -1 .. Len(Lines) /\ "line" \in DOMAIN was'
  <1>1. CASE was' = was
    BY <1>1
  <1>2. CASE was' # was
    <2>1. PICK begun : begun = {k \in Starting : mcode_[k].at = rip'}
      OBVIOUS
    <2>2. /\ begun # {}
          /\ was' = [script |-> script, line |-> mcode_[CHOOSE k \in begun : TRUE].line,
                     frames |-> callStack_', flag |-> cmpr_flag_', values |-> vars_', ran |-> ran']
      BY <1>2, <2>1 DEF Observe
    <2>3. PICK k : k = CHOOSE i \in begun : TRUE
      OBVIOUS
    <2>4. k \in DOMAIN mcode_
      BY <2>1, <2>2, <2>3 DEF Starting
    <2>5. was'.line = mcode_[k].line /\ "line" \in DOMAIN was'
      BY <2>2, <2>3
    <2>6. k \in 1 .. Len(mcode_) /\ mcode_[k].line = FullCode(Program)[k].line
      BY <2>4, RunningUnits
    <2>7. FullCode(Program)[k].line \in -1 .. (Len(Program.lines) + 1) - 1
      BY <2>6, RunningUnits DEF Sound
    <2>8. Len(Program.lines) \in Nat /\ Program.lines = Lines
      BY RunningCode DEF IsScript, Lines
    <2> QED
      BY <2>5, <2>6, <2>7, <2>8
  <1> QED
    BY <1>1, <1>2

\* Before anything runs.
LEMMA InitProc == Init => ProcInv
  <1> SUFFICES ASSUME Init PROVE ProcInv
    OBVIOUS
  <1>1. status = "idle" /\ was.line = -1 /\ "line" \in DOMAIN was
    BY DEF Init
  <1> QED
    BY <1>1 DEF ProcInv

\* A new compiler: its line, flag and call stack are as RunScriptJit makes them.
LEMMA BeginProc ==
  ASSUME ProcInv, Begin
  PROVE  ProcInv'
  <1>1. /\ status = "idle" /\ status' = "translating" /\ was' = was
        /\ run_line_' = 0 /\ callStack_' = <<>> /\ cmpr_flag_' = 2
    BY DEF Begin
  <1> QED
    BY <1>1 DEF ProcInv

\* Translation does not touch what the script will run with.
LEMMA TranslateProc ==
  ASSUME ProcInv, Translate \/ GiveUp
  PROVE  ProcInv'
  <1>1. /\ status = "translating" /\ status' \in {"translating", "idle"} /\ was' = was
        /\ UNCHANGED <<run_line_, callStack_, cmpr_flag_>>
    BY DEF Translate, GiveUp, memory
  <1> QED
    BY <1>1 DEF ProcInv

\* The code is entered.
LEMMA FinishProc ==
  ASSUME TransInv, ProcInv, Finish
  PROVE  ProcInv'
  <1>1. /\ status = "translating" /\ status' \in {"running", "wild"} /\ was' = was
        /\ script' = script /\ rip' = 0 /\ stack' = <<Home>>
        /\ UNCHANGED <<run_line_, callStack_, cmpr_flag_>>
    BY DEF Finish, memory
  <1>2. /\ run_line_' = 0 /\ callStack_' = <<>> /\ cmpr_flag_' = 2 /\ was'.line = -1
        /\ "line" \in DOMAIN was'
    BY <1>1 DEF ProcInv
  <1>3. Program' = Program /\ Lines' = Lines
    BY <1>1 DEF Program, Lines
  <1>4. Len(Lines) \in Nat
    BY ProgramIsScript DEF TransInv, Program, Lines, IsScript
  <1>5. Entering(rip', stack', callStack_', run_line_')
    BY <1>1, <1>2 DEF Entering
  <1>6. PICK cs, run, flag : cs = callStack_' /\ run = run_line_' /\ flag = cmpr_flag_'
    OBVIOUS
  <1>7. cs \in Seq(Int) /\ run \in Int /\ flag \in Int
    BY <1>2, <1>6
  <1>8. Standing(Program, rip', stack', callStack_', run_line_', cmpr_flag_', order')
    BY <1>5, <1>6, <1>7 DEF Standing
  <1>9. Posture'
    BY <1>3, <1>8 DEF Posture
  <1>10. was'.line \in -1 .. Len(Lines')
    BY <1>2, <1>3, <1>4
  <1> QED
    BY <1>1, <1>2, <1>9, <1>10 DEF ProcInv

\* A step of the processor that goes on.
LEMMA SteadyProc ==
  ASSUME TransInv, ProcInv, Process, Steady, Observe
  PROVE  ProcInv'
  <1>1. status = "running" /\ status' \in {"running", "terminated", "wild"} /\ UNCHANGED translator
    BY DEF Steady
  <1>2. Program' = Program /\ Lines' = Lines /\ (Fresh' <=> Fresh)
    BY <1>1 DEF translator, Program, Lines, Fresh
  <1>3. CASE status' = "running" /\ Fresh
    <2>1. Posture /\ was.line \in -1 .. Len(Lines) /\ "line" \in DOMAIN was
      BY <1>1, <1>3 DEF ProcInv
    <2>2. Posture'
      BY <1>3, <2>1, ProcessKeeps
    <2>3. was'.line \in -1 .. Len(Lines) /\ "line" \in DOMAIN was'
      BY <1>1, <1>3, <2>1, Noted
    <2> QED
      BY <1>2, <1>3, <2>2, <2>3 DEF ProcInv
  <1>4. CASE ~(status' = "running" /\ Fresh)
    <2>1. "line" \in DOMAIN was'
      BY Zenon DEF Observe, ProcInv
    <2>2. status' \notin {"idle", "translating"} /\ ~(status' = "running" /\ Fresh')
      BY <1>1, <1>2, <1>4
    <2> QED
      BY <2>1, <2>2 DEF ProcInv
  <1> QED
    BY <1>3, <1>4

\* The retn of the epilogue.
LEMMA ReturnHomeProc ==
  ASSUME ProcInv, ReturnHome
  PROVE  ProcInv'
  <1>1. status' = "idle" /\ was' = [was EXCEPT !.line = -1] /\ "line" \in DOMAIN was
    BY DEF ReturnHome, ProcInv
  <1>2. was'.line = -1 /\ "line" \in DOMAIN was'
    BY <1>1
  <1> QED
    BY <1>1, <1>2 DEF ProcInv

\* A step that changes nothing.
LEMMA StutterProc ==
  ASSUME ProcInv, UNCHANGED vars
  PROVE  ProcInv'
  <1>1. UNCHANGED <<status, script, before, rip, stack, order, run_line_, cmpr_flag_, callStack_, was>>
    BY DEF vars, translator, memory
  <1>2. Program' = Program /\ Lines' = Lines /\ (Fresh' <=> Fresh)
    BY <1>1 DEF Program, Lines, Fresh
  <1>3. Posture' <=> Posture
    BY <1>1, <1>2 DEF Posture
  <1> QED
    BY <1>1, <1>2, <1>3 DEF ProcInv

\* Both invariants together are inductive.
LEMMA NextProc == TransInv /\ ProcInv /\ [Next]_vars => ProcInv'
  <1> SUFFICES ASSUME TransInv, ProcInv, [Next]_vars PROVE ProcInv'
    OBVIOUS
  <1>1. CASE Begin
    BY <1>1, BeginProc
  <1>2. CASE Translate \/ GiveUp
    BY <1>2, TranslateProc
  <1>3. CASE Finish
    BY <1>3, FinishProc
  <1>4. CASE Process
    BY <1>4, ProcessSteady, ProcessObserves, SteadyProc, ReturnHomeProc
  <1>5. CASE UNCHANGED vars
    BY <1>5, StutterProc
  <1> QED
    BY <1>1, <1>2, <1>3, <1>4, <1>5 DEF Next, Compile

-----------------------------------------------------------------------------
\* What the invariants tell.
LEMMA PostureHandlers == TransInv /\ ProcInv => HandlersOnTheirLine
  <1> SUFFICES ASSUME TransInv, ProcInv, Fresh, Fetched("handler") PROVE run_line_ = U.line
    BY DEF HandlersOnTheirLine
  <1>1. Posture
    BY DEF ProcInv, Fetched
  <1>2. PICK l, us, j : Stands(l, us, j) /\ us[j].op = "handler"
    BY <1>1, Found
  <1> QED
    BY <1>2, OnItsLine

\* A handler, getptr or function of the embedder is called with an even number of words.
LEMMA PostureAligned == TransInv /\ ProcInv => AlignedAtCalls
  <1> SUFFICES ASSUME TransInv, ProcInv, NEW op \in {"handler", "getptr", "foreign"}, Fresh, Fetched(op)
      PROVE  Len(stack) % 2 = 0
    BY DEF AlignedAtCalls
  <1>1. Posture
    BY DEF ProcInv, Fetched
  <1>2. PICK l, us, j : Stands(l, us, j) /\ us[j].op = op
    BY <1>1, Found
  <1>3. PICK e : e = Pending(Command0, us, j)
    OBVIOUS
  <1>4. Holding(Program, stack, callStack_, e)
    BY <1>2, <1>3, Parts DEF Stands
  <1>5. e \in {0, 2}
    BY <1>2, <1>3 DEF Pending
  <1>6. Len(stack) \in Nat /\ Len(stack) - e >= 2 /\ (Len(stack) - e) % 2 = 0
    BY <1>4, <1>5, HoldEven
  <1>7. \A h \in Nat : (h - 0) % 2 = 0 \/ (h - 2) % 2 = 0 => h % 2 = 0
    OBVIOUS
  <1> QED
    BY <1>5, <1>6, <1>7

\* The first unit of a line, and the stack when the line begins.
LEMMA FirstUnit ==
  ASSUME NEW p, NEW l, NEW line, NEW us, NEW r, NEW s, NEW cs, NEW run, NEW flag, NEW ord,
         Here(p, l, line, us, 1, r, s, cs, run, flag, ord)
  PROVE  Holding(p, s, cs, 0)
  <1>1. line = p.lines[l + 1] /\ us = UnitsOf(p, l)
    BY Parts
  <1>2. \/ line.flag = "Func" /\ (Sets(line, us, l) \/ OpensAt(line, us, 1))
        \/ us[1].op \in {"pushargs", "setline"}
    <2>1. CASE line.flag = "Func"
      BY <1>1, <2>1, FuncFlow
    <2>2. CASE line.flag # "Func"
      BY <2>2, Kinds
    <2> QED
      BY <2>1, <2>2
  <1>3. us[1].op \in {"setline", "pushargs", "handler", "getptr", "incline"}
    BY <1>2 DEF Sets, OpensAt
  <1>4. Pending(line, us, 1) = 0
    BY <1>2 DEF Pending, Sets, OpensAt
  <1> QED
    BY <1>3, <1>4, Parts

\* The only pop of a line.
LEMMA OnePop ==
  ASSUME NEW p, IsScript(p), NEW l, Calling(p, l), NEW c, c = FullCode(p),
         NEW k \in 1 .. Len(c), c[k].line = l, c[k].op = "pop"
  PROVE  c[k].at = RetPlace(p, l)
  <1>1. PICK line, us, m, h : /\ line = p.lines[l + 1] /\ us = UnitsOf(p, l)
                              /\ m = Len(CodeOf(p, l)) /\ h = Len(us)
    OBVIOUS
  <1>2. l \in 0 .. Len(p.lines) - 1 /\ line.flag = "Func" /\ l \in 0 .. Len(p.lines) /\ l + 1 \in 0 .. Len(p.lines)
    BY <1>1 DEF Calling, IsScript
  <1>3. h \in Nat /\ h \in 1 .. h /\ us[h].op = "pop" /\ RetPlace(p, l) = c[Spot(p, l, h)].at
    BY <1>1, CallEnds
  <1>4. Len(CodeOf(p, l + 1)) = m + h /\ m \in Nat
    <2>1. IsSpot(p, l, us, h, c, Spot(p, l, h))
      BY <1>1, <1>2, <1>3, UnitInCode
    <2> QED
      BY <1>1, <2>1 DEF IsSpot
  <1>5. Len(c) \in Nat /\ c[k].line \in Int
    <2>1. Sound(c, Len(p.lines) + 1)
      BY FullSound
    <2> QED
      BY <2>1 DEF Sound
  <1>6. \A i \in 1 .. m : c[i].line < l
    <2>1. BeginsAt(c, l, m, CodeSize(CodeOf(p, l)))
      BY <1>1, <1>2, FullSound
    <2> QED
      BY <2>1 DEF BeginsAt
  <1>7. \A i \in (m + h) + 1 .. Len(c) : c[i].line >= l + 1
    <2>1. BeginsAt(c, l + 1, m + h, CodeSize(CodeOf(p, l + 1)))
      BY <1>2, <1>4, FullSound
    <2> QED
      BY <2>1 DEF BeginsAt
  <1>8. k > m /\ k <= m + h
    <2>1. CASE k <= m
      <3>1. k \in 1 .. m
        BY <1>4, <2>1
      <3>2. c[k].line < l
        BY <1>6, <3>1
      <3> QED
        BY <1>2, <3>2
    <2>2. CASE k > m + h
      <3>1. k \in (m + h) + 1 .. Len(c)
        BY <1>3, <1>4, <1>5, <2>2
      <3>2. c[k].line >= l + 1
        BY <1>7, <3>1
      <3> QED
        BY <1>2, <3>2
    <2> QED
      BY <1>3, <1>4, <2>1, <2>2
  <1>9. PICK j \in 1 .. h : k = m + j
    <2>1. k - m \in 1 .. h /\ k = m + (k - m)
      BY <1>3, <1>4, <1>8
    <2> QED
      BY <2>1
  <1>10. us[j].op = "pop"
    <2>1. IsSpot(p, l, us, j, c, k)
      BY <1>1, <1>2, <1>9, UnitInCode DEF Spot
    <2> QED
      BY <2>1 DEF IsSpot
  <1>11. j = h
    <2>1. (j = 1 /\ Sets(line, us, l)) \/ Flow(line, us, j)
      BY <1>1, <1>2, <1>9, FuncFlow
    <2>2. Flow(line, us, j)
      BY <1>10, <2>1 DEF Sets
    <2>3. AtPop(line, us, j)
      BY <1>10, <2>2, Ops
    <2> QED
      BY <1>1, <2>3 DEF AtPop
  <1> QED
    BY <1>1, <1>3, <1>9, <1>11 DEF Spot

\* The place after the call of a line.
PopPlace(l) ==
  (CHOOSE u \in {mcode_[k] : k \in DOMAIN mcode_} : u.line = l /\ u.op = "pop").at

\* It is where the call returns to.
LEMMA PopPlaceIs ==
  ASSUME TransInv, status = "running", Fresh, NEW l, Calling(Program, l)
  PROVE  PopPlace(l) = RetPlace(Program, l)
  <1>1. PICK p, c, us, k : /\ p = Program /\ c = FullCode(p) /\ us = UnitsOf(p, l)
                           /\ k = Spot(p, l, Len(us))
    OBVIOUS
  <1>2. IsScript(p)
    BY <1>1, RunningCode
  <1>3. /\ Len(mcode_) = Len(c) /\ DOMAIN mcode_ = 1 .. Len(mcode_)
        /\ \A i \in 1 .. Len(mcode_) : /\ mcode_[i].at = c[i].at /\ mcode_[i].op = c[i].op
                                       /\ mcode_[i].line = c[i].line
    BY <1>1, RunningUnits
  <1>4. Len(us) \in 1 .. Len(us) /\ us[Len(us)].op = "pop"
    BY <1>1, <1>2, CallEnds
  <1>5. l \in 0 .. Len(p.lines) - 1
    BY <1>1 DEF Calling
  <1>6. IsSpot(p, l, us, Len(us), c, k)
    BY <1>1, <1>2, <1>4, <1>5, UnitInCode
  <1>7. k \in 1 .. Len(c) /\ c[k].op = "pop" /\ c[k].line = l
    BY <1>4, <1>6 DEF IsSpot
  <1>8. PICK Units : Units = {mcode_[i] : i \in DOMAIN mcode_}
    OBVIOUS
  <1>9. mcode_[k] \in Units /\ mcode_[k].line = l /\ mcode_[k].op = "pop"
    BY <1>3, <1>7, <1>8
  <1>10. PICK u : u = CHOOSE v \in Units : v.line = l /\ v.op = "pop"
    OBVIOUS
  <1>11. u \in Units /\ u.line = l /\ u.op = "pop"
    BY <1>9, <1>10
  <1>12. PICK i \in 1 .. Len(c) : u = mcode_[i]
    BY <1>3, <1>8, <1>11
  <1>13. c[i].line = l /\ c[i].op = "pop" /\ u.at = c[i].at
    BY <1>3, <1>11, <1>12
  <1>14. u.at = RetPlace(p, l)
    BY <1>1, <1>2, <1>13, OnePop
  <1> QED
    BY <1>1, <1>8, <1>10, <1>14 DEF PopPlace

\* What follows the last line.
LEMMA WholeLength ==
  ASSUME NEW p, IsScript(p)
  PROVE  Len(CodeOf(p, Len(p.lines))) + 2 = Len(FullCode(p))
  <1>1. PICK n, c, a, us, b : /\ n = Len(p.lines) /\ c = FullCode(p) /\ a = CodeOf(p, n)
                              /\ us = Epilogue /\ b = Placed(us, n, CodeSize(a))
    OBVIOUS
  <1>2. n \in Nat /\ n \in 0 .. n
    BY <1>1 DEF IsScript
  <1>3. c = a \o b
    BY <1>1 DEF FullCode
  <1>4. GoodUnits(us, 0) /\ Len(us) = 2
    BY <1>1, GoodEpilogue
  <1>5. Sound(a, n)
    BY <1>1, <1>2, LinesSound
  <1>6. Joined(a, n, us, b, c)
    BY <1>1, <1>2, <1>3, <1>4, <1>5, SoundJoin
  <1> QED
    BY <1>1, <1>4, <1>6 DEF Joined

\* When a line begins, the stack holds the frame and the open calls and no more.
LEMMA AtBeginning ==
  ASSUME TransInv, status = "running", Fresh, Posture, NEW x \in 0 .. Len(Lines),
         rip = CodeSize(CodeOf(Program, x))
  PROVE  Holding(Program, stack, callStack_, 0)
  <1>1. PICK p, c, m : p = Program /\ c = FullCode(p) /\ m = Len(CodeOf(p, x))
    OBVIOUS
  <1>2. IsScript(p) /\ p.lines = Lines /\ x \in 0 .. Len(p.lines) /\ Len(p.lines) \in Nat
    BY <1>1, RunningCode DEF Lines, IsScript
  <1>3. /\ Len(mcode_) = Len(c) /\ DOMAIN mcode_ = 1 .. Len(mcode_)
        /\ \A i \in 1 .. Len(mcode_) : IsPlaced(c[i]) /\ mcode_[i].at = c[i].at
    BY <1>1, RunningUnits
  <1>4. BeginsAt(c, x, m, rip)
    BY <1>1, <1>2, FullSound
  <1>5. /\ m \in Nat /\ m >= 1 /\ m + 1 <= Len(c) /\ c[m + 1].at = rip
        /\ \A k \in m + 1 .. Len(c) : c[k].line >= x
        /\ \A k \in 1 .. m : c[k].line < x
    BY <1>4 DEF BeginsAt
  <1>6. Len(c) \in Nat /\ m + 1 \in 1 .. Len(c)
    BY <1>1, <1>2, <1>5, Ends
  <1>7. At = {m + 1}
    <2>1. PICK k : k = m + 1
      OBVIOUS
    <2>2. k \in 1 .. Len(mcode_) /\ mcode_[k].at = rip
      BY <1>3, <1>5, <1>6, <2>1
    <2> QED
      BY <2>1, <2>2, OnlyOne
  <1>8. ASSUME NEW k \in 1 .. Len(c), c[k].at = rip PROVE k = m + 1
    <2>1. k \in At
      BY <1>3, <1>8 DEF At
    <2> QED
      BY <1>7, <2>1
  <1>9. rip # -1
    <2>1. IsPlaced(c[m + 1])
      BY <1>3, <1>6
    <2>2. c[m + 1].at \in Nat
      BY <2>1 DEF IsPlaced
    <2> QED
      BY <1>5, <2>2
  <1>10. CASE Entering(rip, stack, callStack_, run_line_)
    <2>1. 1 \in 1 .. Len(c) /\ c[1].at = rip
      BY <1>1, <1>2, <1>10, Ends DEF Entering
    <2>2. 1 = m + 1
      BY <1>8, <2>1
    <2> QED
      BY <1>5, <2>2
  <1>11. CASE Leaving(p, rip, stack, callStack_)
    BY <1>1, <1>11 DEF Leaving
  <1>12. CASE Left(p, rip, stack)
    <2>1. PICK h, d : h = Len(c) /\ d = Len(c) - 1
      OBVIOUS
    <2>2. h \in 1 .. Len(c) /\ c[h].at = rip
      BY <1>1, <1>2, <1>12, <2>1, Ends DEF Left
    <2>3. h = m + 1
      BY <1>8, <2>2
    <2>4. m <= Len(CodeOf(p, Len(p.lines))) /\ Len(CodeOf(p, Len(p.lines))) \in Nat
      <3>1. Len(p.lines) \in x .. Len(p.lines) /\ Len(p.lines) \in 0 .. Len(p.lines)
        BY <1>2
      <3>2. Len(CodeOf(p, Len(p.lines))) \in Nat
        BY <1>2, <3>1, LinesSound DEF Sound
      <3> QED
        BY <1>1, <1>2, <3>1, <3>2, EarlierLines
    <2>5. Len(CodeOf(p, Len(p.lines))) + 2 = Len(c)
      BY <1>1, <1>2, WholeLength
    <2> QED
      BY <1>5, <2>1, <2>3, <2>4, <2>5
  <1>13. CASE \E l, j : InLine(p, l, j, rip, stack, callStack_, run_line_, cmpr_flag_, order)
    <2>1. PICK l, j : InLine(p, l, j, rip, stack, callStack_, run_line_, cmpr_flag_, order)
      BY <1>13
    <2>2. PICK us, line, k : us = UnitsOf(p, l) /\ line = p.lines[l + 1] /\ k = Spot(p, l, j)
      OBVIOUS
    <2>3. l \in 0 .. Len(p.lines) - 1 /\ j \in 1 .. Len(us) /\ rip = c[k].at
      BY <1>1, <2>1, <2>2 DEF InLine
    <2>4. IsSpot(p, l, us, j, c, k)
      BY <1>1, <1>2, <2>2, <2>3, UnitInCode
    <2>5. k \in 1 .. Len(c) /\ c[k].line = l /\ Len(CodeOf(p, l)) \in Nat
      BY <2>4 DEF IsSpot
    <2>6. k = m + 1
      BY <1>8, <2>3, <2>5
    <2>7. l >= x
      BY <1>5, <1>6, <2>5, <2>6
    <2>8. m <= Len(CodeOf(p, l))
      <3>1. l \in x .. Len(p.lines)
        BY <1>2, <2>3, <2>7
      <3> QED
        BY <1>1, <1>2, <3>1, EarlierLines
    <2>9. j = 1
      <3>1. Len(CodeOf(p, l)) + j = m + 1
        BY <2>2, <2>6 DEF Spot
      <3>2. j \in Nat /\ j >= 1
        BY <2>3
      <3> QED
        BY <1>5, <2>5, <2>8, <3>1, <3>2
    <2>10. callStack_ \in Seq(Int) /\ run_line_ \in Int /\ cmpr_flag_ \in Int
      BY DEF Posture, Standing
    <2>11. Here(p, l, line, us, 1, rip, stack, callStack_, run_line_, cmpr_flag_, order)
      BY <1>2, <2>1, <2>2, <2>9, <2>10 DEF Here
    <2> QED
      BY <1>1, <2>11, FirstUnit
  <1> QED
    BY <1>1, <1>9, <1>10, <1>11, <1>12, <1>13 DEF Posture, Standing

\* Before the first line there is no unit but the prologue.
LEMMA LandingBegins ==
  ASSUME TransInv, status = "running", Fresh
  PROVE  Landing(-1) = Landing(0)
  <1>1. /\ Len(mcode_) \in Nat /\ DOMAIN mcode_ = 1 .. Len(mcode_)
        /\ Sound(FullCode(Program), Len(Program.lines) + 1)
        /\ Len(mcode_) = Len(FullCode(Program))
        /\ \A k \in 1 .. Len(mcode_) : mcode_[k].line = FullCode(Program)[k].line
    BY RunningUnits
  <1>2. \A k \in 2 .. Len(mcode_) : mcode_[k].line >= 0
    BY <1>1 DEF Sound
  <1>3. \A k \in 1 .. Len(mcode_) : mcode_[k].line \in Int
    BY <1>1 DEF Sound
  <1>4. ASSUME NEW k \in Starting PROVE mcode_[k].line >= -1 /\ mcode_[k].line >= 0
    <2>1. k \in 1 .. Len(mcode_) /\ k > 1
      BY <1>1 DEF Starting
    <2>2. k \in 2 .. Len(mcode_)
      BY <1>1, <2>1
    <2>3. mcode_[k].line >= 0 /\ mcode_[k].line \in Int
      BY <1>2, <1>3, <2>1, <2>2
    <2> QED
      BY <2>3
  <1>5. {k \in Starting : mcode_[k].line >= -1} = {k \in Starting : mcode_[k].line >= 0}
    BY <1>4
  <1> QED
    BY <1>5 DEF Landing

\* Holding, in the words of StacksAgree.
LEMMA PlacesFound ==
  ASSUME TransInv, status = "running", Fresh, ~Embeds(Program),
         Holding(Program, stack, callStack_, 0)
  PROVE  \E place \in [DOMAIN callStack_ -> DOMAIN stack] :
           /\ \A n, m \in DOMAIN callStack_ : n < m => place[n] < place[m]
           /\ \A n \in DOMAIN callStack_ : stack[place[n]] = PopPlace(callStack_[n])
           /\ \A k \in DOMAIN stack : stack[k] >= 0 => \E n \in DOMAIN callStack_ : k = place[n]
  <1>1. PICK p, s, f : p = Program /\ s = stack /\ f = callStack_
    OBVIOUS
  <1>2. s \in Seq(Int) /\ f \in Seq(Int) /\ \A n \in 1 .. Len(f) : Calling(p, f[n])
    BY <1>1 DEF Holding
  <1>3. /\ Len(s) \in Nat /\ Len(s) - 0 = Len(s)
        /\ DOMAIN s = 1 .. Len(s) /\ DOMAIN f = 1 .. Len(f)
    BY <1>2
  <1>4. PICK place \in [1 .. Len(f) -> Int] : Returns(p, s, f, Len(s), place)
    BY <1>1, <1>3 DEF Holding
  <1>5. \A n \in 1 .. Len(f) : place[n] \in 1 .. Len(s)
    <2>1. \A n \in 1 .. Len(f) : place[n] \in 3 .. Len(s)
      BY <1>4 DEF Returns
    <2> QED
      BY <1>3, <2>1
  <1>6. place \in [DOMAIN f -> DOMAIN s]
    BY <1>3, <1>5
  <1>7. ASSUME NEW n \in 1 .. Len(f) PROVE s[place[n]] = PopPlace(f[n])
    <2>1. GoesBack(p, f[n], s[place[n]])
      BY <1>4 DEF Returns
    <2>2. s[place[n]] = RetPlace(p, f[n])
      BY <1>1, <2>1 DEF GoesBack
    <2>3. PopPlace(f[n]) = RetPlace(p, f[n])
      BY <1>1, <1>2, PopPlaceIs
    <2> QED
      BY <2>2, <2>3
  <1>8. /\ \A n, m \in 1 .. Len(f) : n < m => place[n] < place[m]
        /\ \A k \in 1 .. Len(s) : s[k] >= 0 => \E n \in 1 .. Len(f) : k = place[n]
    BY <1>4 DEF Returns
  <1> QED
    BY <1>1, <1>3, <1>6, <1>7, <1>8

\* The line that begins is the one was tells of.
LEMMA PostureStacks == TransInv /\ ProcInv => StacksAgree
  <1> SUFFICES ASSUME TransInv, ProcInv, status = "running", Fresh,
                      ~(\E i \in DOMAIN Lines : Lines[i].flag = "UFunc"), rip = Landing(was.line)
      PROVE  \E place \in [DOMAIN callStack_ -> DOMAIN stack] :
               /\ \A n, m \in DOMAIN callStack_ : n < m => place[n] < place[m]
               /\ \A n \in DOMAIN callStack_ : stack[place[n]] = PopPlace(callStack_[n])
               /\ \A k \in DOMAIN stack : stack[k] >= 0 => \E n \in DOMAIN callStack_ : k = place[n]
    BY DEF StacksAgree, PopPlace
  <1>1. Posture /\ was.line \in -1 .. Len(Lines)
    BY DEF ProcInv
  <1>2. IsScript(Program) /\ Lines = Program.lines
    BY RunningCode DEF Lines
  <1>3. Len(Lines) \in Nat /\ DOMAIN Lines = 1 .. Len(Lines)
    <2>1. PICK p : p = Program
      OBVIOUS
    <2>2. p.lines \in Seq(ToSet(p.lines))
      BY <1>2, <2>1 DEF IsScript
    <2>3. Len(p.lines) \in Nat /\ DOMAIN p.lines = 1 .. Len(p.lines)
      BY <2>2
    <2> QED
      BY <1>2, <2>1, <2>3
  <1>4. ~Embeds(Program)
    BY <1>2, <1>3 DEF Embeds
  <1>5. PICK x : x = IF was.line = -1 THEN 0 ELSE was.line
    OBVIOUS
  <1>6. x \in 0 .. Len(Lines)
    BY <1>1, <1>3, <1>5
  <1>7. rip = Landing(x)
    BY <1>5, LandingBegins
  <1>8. rip = CodeSize(CodeOf(Program, x))
    BY <1>6, <1>7, LandingIs
  <1>9. Holding(Program, stack, callStack_, 0)
    BY <1>1, <1>6, <1>8, AtBeginning
  <1> QED
    BY <1>4, <1>9, PlacesFound

\* Init and every step, for both invariants.
LEMMA InitBoth == Init => TransInv /\ ProcInv
  BY InitTrans, InitProc

\* Every step keeps both.
LEMMA NextBoth == TransInv /\ ProcInv /\ [Next]_vars => TransInv' /\ ProcInv'
  BY NextTrans, NextProc

\* Handlers take their arguments from the line run_line_ names: whenever compiled
\* code calls one, that is the line it was compiled for, although the handlers of
\* jumps, calls and rets set run_line_ and the machine decides for itself where to go.
THEOREM HandlersAlwaysOnTheirLine == Spec => []HandlersOnTheirLine
  <1>1. Init => TransInv /\ ProcInv
    BY InitBoth
  <1>2. TransInv /\ ProcInv /\ [Next]_vars => TransInv' /\ ProcInv'
    BY NextBoth
  <1>3. TransInv /\ ProcInv => HandlersOnTheirLine
    BY PostureHandlers
  <1> QED
    BY <1>1, <1>2, <1>3, PTL DEF Spec

\* Every call of a C++ function from compiled code is made with an even number of
\* words on the native stack: the zeros next to a saved address and the rax saved
\* around a call add up, at any depth of script calls and after any jump.
THEOREM CallsAlwaysAligned == Spec => []AlignedAtCalls
  <1>1. Init => TransInv /\ ProcInv
    BY InitBoth
  <1>2. TransInv /\ ProcInv /\ [Next]_vars => TransInv' /\ ProcInv'
    BY NextBoth
  <1>3. TransInv /\ ProcInv => AlignedAtCalls
    BY PostureAligned
  <1> QED
    BY <1>1, <1>2, <1>3, PTL DEF Spec

\* The two stacks of a compiled script, callStack_ and the processor's, tell of the
\* same calls: when a line begins, the return addresses on the native stack are
\* those after the calls callStack_ lists, in its order, and no others.  Scripts that
\* call functions of the embedder are excepted: those leave words of their own.
THEOREM StacksAlwaysAgree == Spec => []StacksAgree
  <1>1. Init => TransInv /\ ProcInv
    BY InitBoth
  <1>2. TransInv /\ ProcInv /\ [Next]_vars => TransInv' /\ ProcInv'
    BY NextBoth
  <1>3. TransInv /\ ProcInv => StacksAgree
    BY PostureStacks
  <1> QED
    BY <1>1, <1>2, <1>3, PTL DEF Spec
=============================================================================
