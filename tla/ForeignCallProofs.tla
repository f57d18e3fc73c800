------------------------- MODULE ForeignCallProofs -------------------------
(***************************************************************************)
(* Which calls of a DLL function come back, with what parameters the function  *)
(* is reached and what a call with a result comes to, for every list of          *)
(* parameters and every width of a register.                                   *)
(***************************************************************************)
EXTENDS ForeignCall, SequenceTheorems, FiniteSetTheorems, TLAPS

-----------------------------------------------------------------------------
\* The encoder: what the sequences of instructions leave in a register, for
\* every size of a quarter of it.

\* A number below a product is a quotient and a remainder, and only one pair.
LEMMA DivMod ==
  ASSUME NEW h \in Nat \ {0}, NEW v \in Nat
  PROVE  /\ v \div h \in Nat /\ v % h \in 0 .. h - 1
         /\ v = (v \div h) * h + (v % h)
  OBVIOUS

LEMMA DivModUnique ==
  ASSUME NEW h \in Nat \ {0}, NEW a \in Nat, NEW b \in 0 .. h - 1
  PROVE  (a * h + b) \div h = a /\ (a * h + b) % h = b
  <1> DEFINE v == a * h + b
             q == v \div h
             r == v % h
  <1>1. v \in Nat
    OBVIOUS
  <1>2. q \in Nat /\ r \in 0 .. h - 1 /\ v = q * h + r
    BY <1>1, DivMod
  <1>3. (a - q) * h = r - b
    BY <1>2
  <1> HIDE DEF v, q, r
  <1>4. a - q <= 0
    BY <1>2, <1>3
  <1>5. a - q >= 0
    BY <1>2, <1>3
  <1>6. a = q
    BY <1>2, <1>4, <1>5
  <1>7. r = b
    BY <1>2, <1>3, <1>6
  <1> QED
    BY <1>6, <1>7 DEF v, q, r

\* A quotient is below a bound exactly if the number is below that many divisors.
LEMMA DivBelow ==
  ASSUME NEW h \in Nat \ {0}, NEW v \in Nat, NEW n \in Nat
  PROVE  v \div h < n <=> v < n * h
  <1> DEFINE q == v \div h
             r == v % h
  <1>1. q \in Nat /\ r \in 0 .. h - 1 /\ v = q * h + r
    BY DivMod
  <1> HIDE DEF q, r
  <1>2. CASE q < n
    <2>1. (n - q) * h >= h
      BY <1>1, <1>2
    <2> QED
      BY <1>1, <1>2, <2>1 DEF q
  <1>3. CASE q >= n
    <2>1. (q - n) * h >= 0
      BY <1>1, <1>3
    <2> QED
      BY <1>1, <1>3, <2>1 DEF q
  <1> QED
    BY <1>1, <1>2, <1>3

\* The sizes of a register and of its parts.
LEMMA Sizes ==
  /\ Quarter \in Nat /\ Quarter >= 2
  /\ Half \in Nat /\ Half >= 4 /\ Half = Quarter * Quarter
  /\ Full \in Nat /\ Full >= 16 /\ Full = Half * Half
  /\ Half \div 2 \in Nat /\ 2 * (Half \div 2) = Half
  /\ Full \div 2 = (Half \div 2) * Half
  /\ Full \div Quarter = Quarter * Half
  <1>1. Quarter \in Nat /\ Quarter >= 2 /\ Quarter % 2 = 0
    BY QuarterAssumption
  <1>2. PICK m \in Nat : Quarter = m * 2
    <2>1. Quarter = (Quarter \div 2) * 2 + (Quarter % 2) /\ Quarter \div 2 \in Nat
      BY <1>1, DivMod
    <2> USE <2>1
    <2> WITNESS Quarter \div 2 \in Nat
    <2> QED
      BY <1>1
  <1>3. Half \in Nat /\ Half >= 4
    <2>1. Quarter * Quarter >= 2 * Quarter
      BY <1>1
    <2> QED
      BY <1>1, <2>1 DEF Half
  <1>4. Full \in Nat /\ Full >= 16
    <2>1. Half * Half >= 4 * Half
      BY <1>3
    <2> QED
      BY <1>3, <2>1 DEF Full
  <1>5. Half \div 2 = m * Quarter
    <2>1. m * Quarter \in Nat /\ Half = (m * Quarter) * 2 + 0
      BY <1>1, <1>2 DEF Half
    <2> QED
      BY <2>1, DivModUnique
  <1>6. Half = (Half \div 2) * 2 /\ Half \div 2 \in Nat
    BY <1>1, <1>2, <1>5 DEF Half
  <1>7. Full \div 2 = (Half \div 2) * Half
    <2>1. (Half \div 2) * Half \in Nat
      BY <1>3, <1>6
    <2>2. Full = ((Half \div 2) * Half) * 2 + 0
      <3> DEFINE g == Half \div 2
      <3>1. Full = (g * 2) * Half /\ g \in Nat
        BY <1>6 DEF Full
      <3> HIDE DEF g
      <3> QED
        BY <1>3, <3>1 DEF g
    <2> QED
      BY <2>1, <2>2, DivModUnique
  <1>8. Full \div Quarter = Quarter * Half
    <2>1. Quarter * Half \in Nat /\ Quarter \in Nat \ {0} /\ 0 \in 0 .. Quarter - 1
      BY <1>1, <1>3
    <2>2. Full = (Quarter * Half) * Quarter + 0
      BY <1>1, <1>3 DEF Full, Half
    <2> QED
      BY <2>1, <2>2, DivModUnique
  <1> QED
    BY <1>1, <1>3, <1>4, <1>6, <1>7, <1>8 DEF Half, Full

\* The halves of a register.
LEMMA Halves ==
  ASSUME NEW v \in 0 .. Full - 1
  PROVE  /\ Low(v) \in 0 .. Half - 1 /\ High(v) \in 0 .. Half - 1
         /\ v = High(v) * Half + Low(v)
  <1>1. v \in Nat /\ Half \in Nat \ {0}
    BY Sizes
  <1>2. v \div Half < Half
    BY <1>1, Sizes, DivBelow
  <1>3. v \div Half \in Nat /\ v % Half \in 0 .. Half - 1 /\ v = (v \div Half) * Half + (v % Half)
    BY <1>1, DivMod
  <1> QED
    BY <1>1, <1>2, <1>3 DEF Low, High

\* ParameterPush, rcx and rdx: the low half, with zeros above it.
LEMMA ParameterLowValue ==
  ASSUME NEW v \in 0 .. Full - 1
  PROVE  ParameterLow(v) = v % Half
  <1> DEFINE h == High(v)
  <1>1. h \in 0 .. Half - 1 /\ Low(v) \in 0 .. Half - 1
    BY Halves
  <1>2. h \div Half = 0 /\ h % Half = h
    BY <1>1, Sizes, DivModUnique
  <1>3. Swap(h) = h * Half + 0
    BY <1>1, <1>2, Sizes DEF Swap, High, Low
  <1>4. Low(Swap(h)) = 0
    BY <1>1, <1>3, Sizes, DivModUnique DEF Low
  <1> QED
    BY <1>4 DEF ParameterLow, OrHalf, Low

\* ParameterPush, r8 and r9: the same if the value is not negative, and ones else.
LEMMA ParameterHighValue ==
  ASSUME NEW v \in 0 .. Full - 1
  PROVE  ParameterHigh(v) = IF v < Full \div 2 THEN v % Half ELSE Half - 1
  <1> DEFINE h == High(v)
  <1>1. h \in 0 .. Half - 1 /\ Low(v) \in 0 .. Half - 1
    BY Halves
  <1>2. h < Half \div 2 <=> v < Full \div 2
    BY Sizes, DivBelow DEF High
  <1>3. CASE h < Half \div 2
    <2>1. h \div Half = 0 /\ h % Half = h
      BY <1>1, Sizes, DivModUnique
    <2>2. Swap(Extended(h)) = h * Half + 0
      BY <1>1, <1>3, <2>1, Sizes DEF Swap, High, Low, Extended
    <2>3. Low(Swap(Extended(h))) = 0
      BY <1>1, <2>2, Sizes, DivModUnique DEF Low
    <2> QED
      BY <1>2, <1>3, <2>3 DEF ParameterHigh, OrHalf, Low
  <1>4. CASE ~(h < Half \div 2)
    <2>1. Extended(h) = (Half - 1) * Half + h /\ Half - 1 \in Nat /\ Half \in Nat \ {0}
      BY <1>1, <1>4, Sizes DEF Extended
    <2>2. High(Extended(h)) = Half - 1 /\ Low(Extended(h)) = h
      BY <1>1, <2>1, DivModUnique DEF High, Low
    <2>3. Swap(Extended(h)) = h * Half + (Half - 1)
      BY <1>1, <2>1, <2>2 DEF Swap
    <2>4. Low(Swap(Extended(h))) = Half - 1
      <3>1. (h * Half + (Half - 1)) % Half = Half - 1
        <4>1. h \in Nat /\ Half - 1 \in 0 .. Half - 1 /\ Half \in Nat \ {0}
          BY <1>1, <2>1
        <4> HIDE DEF h
        <4> QED
          BY <4>1, DivModUnique
      <3> QED
        BY <2>3, <3>1 DEF Low
    <2>5. Half - 1 # 0
      BY Sizes
    <2> QED
      BY <1>2, <1>4, <2>4, <2>5 DEF ParameterHigh, OrHalf
  <1> QED
    BY <1>3, <1>4

\* A number below a quarter of a register is only shifted by the rotation, and
\* the or fills the zeros.
LEMMA ShiftIn ==
  ASSUME NEW u \in 0 .. Quarter * Half - 1, NEW q \in 0 .. Quarter - 1
  PROVE  OrLow(Rotate(u), q) = u * Quarter + q
  <1>1. u \in Nat /\ Quarter * Half \in Nat \ {0} /\ Quarter \in Nat \ {0} /\ Full \in Nat \ {0}
    BY Sizes
  <1>2. u \div (Full \div Quarter) = 0
    <2>1. u = 0 * (Quarter * Half) + u
      BY <1>1
    <2> QED
      BY <1>1, <2>1, Sizes, DivModUnique
  <1>3. u * Quarter \in 0 .. Full - 1
    <2>1. (Quarter * Half - u) * Quarter >= 1
      BY <1>1
    <2>2. (Quarter * Half) * Quarter = Full
      BY Sizes
    <2> QED
      BY <1>1, <2>1, <2>2, Sizes
  <1>4. (u * Quarter) % Full = u * Quarter
    <2>1. u * Quarter = 0 * Full + u * Quarter
      BY <1>1
    <2> QED
      BY <1>1, <1>3, <2>1, DivModUnique
  <1>5. Rotate(u) = u * Quarter
    BY <1>1, <1>2, <1>4 DEF Rotate
  <1>6. (u * Quarter) % Quarter = 0
    <2>1. u * Quarter = u * Quarter + 0 /\ 0 \in 0 .. Quarter - 1
      BY <1>1
    <2> QED
      BY <1>1, <2>1, DivModUnique
  <1> QED
    BY <1>1, <1>5, <1>6 DEF OrLow

(***************************************************************************)
(* mov <int64_t> of an immediate, which the encoder puts together from the    *)
(* high half and two quarters with shld and or, leaves exactly the immediate   *)
(* in the register.                                                          *)
(***************************************************************************)
THEOREM LoadImmLoads ==
  ASSUME NEW v \in 0 .. Full - 1
  PROVE  LoadImm(v) = v
  <1> DEFINE w == v \div Quarter
             h == High(v)
  <1>1. Quarter \in Nat \ {0} /\ v \in Nat /\ Half \in Nat \ {0}
    BY Sizes
  <1>2. w \in Nat /\ v = w * Quarter + (v % Quarter) /\ v % Quarter \in 0 .. Quarter - 1
    BY <1>1, DivMod
  <1>3. w < Quarter * Half
    <2>1. PICK n : n = Quarter * Half
      OBVIOUS
    <2>2. n * Quarter = Full /\ n \in Nat
      BY <2>1, Sizes
    <2>3. v < n * Quarter
      BY <2>2, Sizes
    <2>4. w < n
      BY <1>1, <2>2, <2>3, DivBelow
    <2> QED
      BY <2>1, <2>4
  <1>4. w \div Quarter \in Nat /\ w = (w \div Quarter) * Quarter + (w % Quarter)
          /\ w % Quarter \in 0 .. Quarter - 1
    BY <1>1, <1>2, DivMod
  <1>5. h = w \div Quarter
    <2> DEFINE u == w \div Quarter
               p == w % Quarter
               q == v % Quarter
               low == p * Quarter + q
    <2>1. v = u * Half + low
      BY <1>1, <1>2, <1>4, Sizes
    <2>2. low \in 0 .. Half - 1
      <3>1. (Quarter - 1 - p) * Quarter >= 0
        BY <1>1, <1>4
      <3> QED
        BY <1>1, <1>2, <1>4, <3>1, Sizes
    <2>3. u \in Nat
      BY <1>4
    <2> HIDE DEF low, u
    <2>4. (u * Half + low) \div Half = u
      BY <1>1, <2>2, <2>3, DivModUnique
    <2> QED
      BY <2>1, <2>4 DEF High, u
  <1>6. h \in 0 .. Quarter * Half - 1
    <2>1. Half <= Quarter * Half /\ Quarter * Half \in Nat
      BY Sizes
    <2>2. h \in Nat /\ h < Half
      BY Halves, Sizes
    <2> QED
      BY <1>1, <2>1, <2>2
  <1>7. OrLow(Rotate(h), w % Quarter) = w
    BY <1>4, <1>5, <1>6, ShiftIn
  <1>8. OrLow(Rotate(w), v % Quarter) = v
    <2>1. w \in 0 .. Quarter * Half - 1
      BY <1>2, <1>3, Sizes
    <2> QED
      BY <1>2, <2>1, ShiftIn
  <1> QED
    BY <1>7, <1>8 DEF LoadImm

-----------------------------------------------------------------------------
\* The inductive invariant.
Registers == {"rax", "rcx", "rdx", "r8", "r9"}
Word == 0 .. Full - 1
Instruction ==
  [op : {"sub", "add"}, n : Int]
    \cup [op : {"push", "call", "store", "retn"}, n : Word]
    \cup [op : {"mov"}, reg : Registers, n : Word]

Count == Len(params)
Pushes == IF Count > 4 THEN Count - 4 ELSE 0
EmittedLength == IF Count = 0 THEN 4 ELSE 9 + Pushes
Emitted == IF cmd = "void" THEN JIT_Call_Void(params) ELSE JIT_Call_Value(params)

\* Instructions run so far, and left to run.
Done == EmittedLength - Len(code)
Left == Len(code)

ProgramOK ==
  /\ code \in Seq(Instruction)
  /\ regs \in [Registers -> {Unknown} \cup Word]
  /\ missing => params = <<>>
  /\ status = "emitting" => code = <<>> /\ rsp = 0 /\ arrived = NoRegs /\ intact

\* What is left to run is the end of what was emitted.
RunsEmitted ==
  status = "running" =>
    /\ ~BadSize(params)
    /\ Left \in 1 .. EmittedLength
    /\ \A i \in 1 .. Left : code[i] = Emitted[Done + i]

\* Where rsp stands.
RspKnown ==
  status = "running" =>
    IF Count = 0 THEN rsp = IF Left = 1 /\ cmd = "void" THEN 48 ELSE 0
    ELSE /\ Left > 1 \/ cmd = "void" => intact
         /\ Done = 0 => rsp = 0
         /\ Done \in 1 .. 5 => rsp = -48
         /\ Done > 5 /\ (Left > 1 \/ cmd # "void") =>
              IF Pushes = 0 THEN rsp = -48 ELSE rsp < -48
         /\ Left = 1 /\ cmd = "void" =>
              /\ Count <= 4 => rsp = 0
              /\ Count \in {5, 6} => rsp < 0

\* What the registers hold: each parameter from its mov to the call, and the
\* function's address in between.
Given(r) ==
  LET v == FromTop(params, Place[r])
  IN  IF r \in {"rcx", "rdx"} THEN ParameterLow(v) ELSE ParameterHigh(v)

Turn == [rcx |-> 2, rdx |-> 3, r8 |-> 4, r9 |-> 5]

RegsKnown ==
  status = "running" =>
    /\ Left = 3 => regs["rax"] = Target
    /\ Count > 0 /\ Left >= 3 =>
         \A r \in DOMAIN Turn : Done >= Turn[r] => regs[r] = Given(r)

ArrivedKnown ==
  arrived = NoRegs \/ Count = 0 \/ \A r \in DOMAIN Turn : arrived[r] = Given(r)

IInv ==
  /\ TypeOK /\ ProgramOK /\ RunsEmitted /\ RspKnown /\ RegsKnown /\ ArrivedKnown
  /\ ComesHome /\ ResultsAreLost

-----------------------------------------------------------------------------
\* The parameters tried are parameters.
InCalls == params \in Calls

LEMMA Counts ==
  ASSUME params \in Seq(Parameter)
  PROVE  /\ Count \in Nat /\ (params = <<>> <=> Count = 0)
         /\ Pushes \in Nat /\ (Pushes = 0 <=> Count <= 4)
         /\ EmittedLength \in Nat /\ EmittedLength >= 4
         /\ (Count > 0 => EmittedLength = 9 + Pushes)
         /\ (Count = 0 => EmittedLength = 4)
  <1>1. Count \in Nat /\ (params = <<>> <=> Count = 0)
    BY DEF Count
  <1>2. Pushes \in Nat /\ (Pushes = 0 <=> Count <= 4)
    BY <1>1 DEF Pushes
  <1> QED
    BY <1>1, <1>2 DEF EmittedLength

\* What is emitted.
LEMMA Joined ==
  ASSUME NEW S, NEW s \in Seq(S), NEW t \in Seq(S)
  PROVE  /\ s \o t \in Seq(S) /\ Len(s \o t) = Len(s) + Len(t)
         /\ \A i \in 1 .. Len(s) : (s \o t)[i] = s[i]
         /\ \A j \in 1 .. Len(t) : (s \o t)[Len(s) + j] = t[j]
  OBVIOUS

LEMMA RspAddValue ==
  ASSUME NEW ps \in Seq(Parameter)
  PROVE  RspAdd(ps) \in Int /\ (Len(ps) <= 6 => RspAdd(ps) = 48)
  <1> DEFINE rest == 7 .. Len(ps)
             wide == {i \in rest : ps[i].size = 8}
  <1>1. Len(ps) \in Nat
    OBVIOUS
  <1>2. IsFiniteSet(rest)
    BY <1>1, FS_Interval
  <1>3. IsFiniteSet(wide)
    BY <1>2, FS_Subset
  <1>4. Cardinality(rest) \in Nat /\ Cardinality(wide) \in Nat
    BY <1>2, <1>3, FS_CardinalityType
  <1>5. ASSUME Len(ps) <= 6 PROVE Cardinality(rest) = 0 /\ Cardinality(wide) = 0
    <2>1. rest = {} /\ wide = {}
      BY <1>1, <1>5
    <2> QED
      BY <2>1, FS_EmptySet
  <1> QED
    BY <1>4, <1>5 DEF RspAdd

LEMMA ParametersAreWords ==
  ASSUME NEW ps \in Seq(Parameter), NEW k \in Nat \ {0}
  PROVE  /\ FromTop(ps, k) \in Word
         /\ ParameterLow(FromTop(ps, k)) \in Word /\ ParameterHigh(FromTop(ps, k)) \in Word
  <1>1. FromTop(ps, k) \in Word
    <2>1. 0 \in Word
      BY Sizes DEF Word
    <2>2. CASE k <= Len(ps)
      <3>1. ps[Len(ps) + 1 - k] \in Parameter
        BY <2>2, ElementOfSeq
      <3> QED
        BY <2>2, <3>1 DEF FromTop, Parameter, Word
    <2> QED
      BY <2>1, <2>2 DEF FromTop
  <1>2. FromTop(ps, k) % Half \in 0 .. Half - 1 /\ Half - 1 \in 0 .. Half - 1
    <2> DEFINE v == FromTop(ps, k)
    <2>1. v \in Nat /\ Half \in Nat \ {0}
      BY <1>1, Sizes DEF Word
    <2> HIDE DEF v
    <2>2. v % Half \in 0 .. Half - 1
      BY <2>1, DivMod
    <2> QED
      BY <2>1, <2>2 DEF v
  <1>3. 0 .. Half - 1 \subseteq Word
    <2>1. Half <= Half * Half
      BY Sizes
    <2> QED
      BY <2>1, Sizes DEF Word
  <1> QED
    BY <1>1, <1>2, <1>3, ParameterLowValue, ParameterHighValue DEF Word

\* The instructions before the address of the function is loaded.
LEMMA ParameterCode ==
  ASSUME params \in Seq(Parameter), ~BadSize(params)
  PROVE  LET A == PushStackValueJit(params)
         IN  /\ A \in Seq(Instruction) /\ Len(A) = EmittedLength - 4
             /\ Count > 0 =>
                  /\ A[1] = In("sub", 48)
                  /\ \A r \in DOMAIN Turn : A[Turn[r]] = ToReg(r, Given(r))
                  /\ \A j \in 1 .. Pushes : A[5 + j].op = "push" /\ A[5 + j].n \in {2, 4, 8}
  <1> DEFINE B == ParameterPush(params)
             C == [j \in DOMAIN OnStack(params) |-> In("push", Pushed(OnStack(params)[j].size))]
  <1>1. CASE Count = 0
    BY <1>1, Counts DEF PushStackValueJit
  <1>2. CASE Count > 0
    <2>1. /\ B \in Seq(Instruction) /\ Len(B) = 5
          /\ B[1] = In("sub", 48)
          /\ \A r \in DOMAIN Turn : B[Turn[r]] = ToReg(r, Given(r)) /\ Turn[r] \in 2 .. 5
      BY ParametersAreWords DEF ParameterPush, In, ToReg, Instruction, Registers, Given, Turn, Place
    <2>2. DOMAIN OnStack(params) = 1 .. Pushes /\ Pushes \in Nat
      BY Counts DEF OnStack, Pushes, Count
    <2>3. \A j \in 1 .. Pushes : C[j].op = "push" /\ C[j].n \in {2, 4, 8} /\ C[j] \in Instruction
      <3>1. 2 \in Word /\ 4 \in Word /\ 8 \in Word
        BY Sizes DEF Word
      <3> QED
        BY <2>2, <3>1 DEF BadSize, In, Pushed, Instruction
    <2>4. C \in Seq(Instruction) /\ Len(C) = Pushes
      BY <2>2, <2>3
    <2>5. PushStackValueJit(params) = B \o C
      BY <1>2, Counts DEF PushStackValueJit
    <2> HIDE DEF B, C
    <2>6. /\ B \o C \in Seq(Instruction) /\ Len(B \o C) = Len(B) + Len(C)
          /\ \A i \in 1 .. Len(B) : (B \o C)[i] = B[i]
          /\ \A j \in 1 .. Len(C) : (B \o C)[Len(B) + j] = C[j]
      <3>1. B \in Seq(Instruction) /\ C \in Seq(Instruction)
        BY <2>1, <2>4
      <3> QED
        BY <3>1, Joined
    <2>7. EmittedLength - 4 = 5 + Pushes
      BY <1>2, Counts
    <2> DEFINE N == B \o C
    <2>8. /\ N \in Seq(Instruction) /\ Len(N) = 5 + Pushes
          /\ \A i \in 1 .. 5 : N[i] = B[i]
          /\ \A j \in 1 .. Pushes : N[5 + j] = C[j]
      <3> HIDE DEF N
      <3>1. /\ N \in Seq(Instruction) /\ Len(N) = Len(B) + Len(C)
            /\ \A i \in 1 .. Len(B) : N[i] = B[i]
            /\ \A j \in 1 .. Len(C) : N[Len(B) + j] = C[j]
        BY <2>6 DEF N
      <3>2. Len(B) = 5 /\ Len(C) = Pushes
        BY <2>1, <2>4
      <3> QED
        BY <3>1, <3>2
    <2> HIDE DEF N
    <2>9. \A r \in DOMAIN Turn : Turn[r] \in 1 .. 5
      BY DEF Turn
    <2>10. /\ N[1] = In("sub", 48)
           /\ \A r \in DOMAIN Turn : N[Turn[r]] = ToReg(r, Given(r))
           /\ \A j \in 1 .. Pushes : N[5 + j].op = "push" /\ N[5 + j].n \in {2, 4, 8}
      <3>1. N[1] = B[1] /\ \A r \in DOMAIN Turn : N[Turn[r]] = B[Turn[r]]
        BY <2>8, <2>9
      <3>2. \A j \in 1 .. Pushes : N[5 + j].op = "push" /\ N[5 + j].n \in {2, 4, 8}
        BY <2>3, <2>8
      <3> QED
        BY <2>1, <3>1, <3>2
    <2> QED
      BY <1>2, <2>5, <2>7, <2>8, <2>10 DEF N
  <1> QED
    BY <1>1, <1>2, Counts

LEMMA EmittedCode ==
  ASSUME params \in Seq(Parameter), ~BadSize(params)
  PROVE  LET E == Emitted
             L == EmittedLength
         IN  /\ E \in Seq(Instruction) /\ Len(E) = L /\ L \in Nat /\ L >= 4
             /\ Count > 0 =>
                  /\ E[1] = In("sub", 48)
                  /\ \A r \in DOMAIN Turn : E[Turn[r]] = ToReg(r, Given(r))
                  /\ \A j \in 1 .. Pushes : E[5 + j].op = "push" /\ E[5 + j].n \in {2, 4, 8}
             /\ E[L - 3] = ToReg("rax", Target)
             /\ E[L - 2] = In("call", 0)
             /\ E[L - 1] = IF cmd = "void" THEN In("add", RspAdd(params)) ELSE In("store", 0)
             /\ E[L] = In("retn", 0)
  <1> DEFINE A == PushStackValueJit(params)
             D == << IF cmd = "void" THEN In("add", RspAdd(params)) ELSE In("store", 0),
                     In("retn", 0) >>
             M == A \o CallTarget
  <1>1. /\ A \in Seq(Instruction) /\ Len(A) = EmittedLength - 4
        /\ Count > 0 =>
             /\ A[1] = In("sub", 48)
             /\ \A r \in DOMAIN Turn : A[Turn[r]] = ToReg(r, Given(r))
             /\ \A j \in 1 .. Pushes : A[5 + j].op = "push" /\ A[5 + j].n \in {2, 4, 8}
    BY ParameterCode
  <1>2. EmittedLength \in Nat /\ EmittedLength >= 4 /\ Pushes \in Nat
          /\ (Count > 0 => EmittedLength - 4 = 5 + Pushes)
    BY Counts
  <1>3. /\ CallTarget \in Seq(Instruction) /\ Len(CallTarget) = 2
        /\ CallTarget[1] = ToReg("rax", Target) /\ CallTarget[2] = In("call", 0)
    <2>1. 0 \in Word /\ LoadImm(Target) = Target
      BY Sizes, TargetAssumption, LoadImmLoads DEF Word
    <2> QED
      BY <2>1, TargetAssumption DEF CallTarget, In, ToReg, Instruction, Registers, Word
  <1>4. /\ D \in Seq(Instruction) /\ Len(D) = 2
        /\ D[1] = IF cmd = "void" THEN In("add", RspAdd(params)) ELSE In("store", 0)
        /\ D[2] = In("retn", 0)
    <2>1. 0 \in Word
      BY Sizes DEF Word
    <2> QED
      BY <2>1, RspAddValue DEF In, Instruction
  <1>5. Emitted = M \o D
    BY DEF Emitted, JIT_Call_Void, JIT_Call_Value
  <1> HIDE DEF A, D
  <1>6. /\ M \in Seq(Instruction) /\ Len(M) = Len(A) + 2
        /\ \A i \in 1 .. Len(A) : M[i] = A[i]
        /\ M[Len(A) + 1] = ToReg("rax", Target) /\ M[Len(A) + 2] = In("call", 0)
    <2>1. A \in Seq(Instruction) /\ CallTarget \in Seq(Instruction)
      BY <1>1, <1>3
    <2>2. /\ M \in Seq(Instruction) /\ Len(M) = Len(A) + Len(CallTarget)
          /\ \A i \in 1 .. Len(A) : M[i] = A[i]
          /\ \A j \in 1 .. Len(CallTarget) : M[Len(A) + j] = CallTarget[j]
      BY <2>1, Joined
    <2> HIDE DEF M
    <2> QED
      BY <1>3, <2>2
  <1> HIDE DEF M
  <1>7. /\ Emitted \in Seq(Instruction) /\ Len(Emitted) = Len(A) + 4
        /\ \A i \in 1 .. Len(A) + 2 : Emitted[i] = M[i]
        /\ Emitted[Len(A) + 3] = D[1] /\ Emitted[Len(A) + 4] = D[2]
    <2>1. M \in Seq(Instruction) /\ D \in Seq(Instruction)
      BY <1>4, <1>6
    <2>2. /\ M \o D \in Seq(Instruction) /\ Len(M \o D) = Len(M) + Len(D)
          /\ \A i \in 1 .. Len(M) : (M \o D)[i] = M[i]
          /\ \A j \in 1 .. Len(D) : (M \o D)[Len(M) + j] = D[j]
      BY <2>1, Joined
    <2>3. Len(A) \in Nat /\ Len(M) = Len(A) + 2 /\ Len(D) = 2
      BY <1>1, <1>2, <1>4, <1>6
    <2>4. Len(M) + 1 = Len(A) + 3 /\ Len(M) + 2 = Len(A) + 4
      BY <2>3
    <2> DEFINE N == M \o D
    <2> HIDE DEF N
    <2>5. /\ N \in Seq(Instruction) /\ Len(N) = Len(A) + 4
          /\ \A i \in 1 .. Len(A) + 2 : N[i] = M[i]
          /\ N[Len(A) + 3] = D[1] /\ N[Len(A) + 4] = D[2]
      BY <2>1, <2>2, <2>3, <2>4 DEF N
    <2> QED
      BY <1>5, <2>5 DEF N
  <1>8. \A r \in DOMAIN Turn : Turn[r] \in 1 .. 5
    BY DEF Turn
  <1>9. ASSUME Count > 0
        PROVE  /\ Emitted[1] = In("sub", 48)
               /\ \A r \in DOMAIN Turn : Emitted[Turn[r]] = ToReg(r, Given(r))
               /\ \A j \in 1 .. Pushes :
                    Emitted[5 + j].op = "push" /\ Emitted[5 + j].n \in {2, 4, 8}
    <2>1. Len(A) = 5 + Pushes /\ Pushes \in Nat
      BY <1>1, <1>2, <1>9
    <2>2. \A i \in 1 .. 5 + Pushes : Emitted[i] = A[i]
      BY <1>6, <1>7, <2>1
    <2>3. Emitted[1] = A[1] /\ \A j \in 1 .. Pushes : Emitted[5 + j] = A[5 + j]
      BY <2>1, <2>2
    <2>4. \A r \in DOMAIN Turn : Emitted[Turn[r]] = A[Turn[r]]
      BY <1>8, <2>1, <2>2
    <2> QED
      BY <1>1, <1>9, <2>3, <2>4
  <1>10. /\ Emitted[EmittedLength - 3] = ToReg("rax", Target)
         /\ Emitted[EmittedLength - 2] = In("call", 0)
         /\ Emitted[EmittedLength - 1] = D[1] /\ Emitted[EmittedLength] = D[2]
    <2>1. /\ EmittedLength - 3 = Len(A) + 1 /\ EmittedLength - 2 = Len(A) + 2
          /\ EmittedLength - 1 = Len(A) + 3 /\ EmittedLength = Len(A) + 4
          /\ Len(A) \in Nat
      BY <1>1, <1>2
    <2>2. Len(A) + 1 \in 1 .. Len(A) + 2 /\ Len(A) + 2 \in 1 .. Len(A) + 2
      BY <2>1
    <2>3. Emitted[Len(A) + 1] = M[Len(A) + 1] /\ Emitted[Len(A) + 2] = M[Len(A) + 2]
      BY <1>7, <2>2
    <2> QED
      BY <1>6, <1>7, <2>1, <2>3
  <1>11. Len(Emitted) = EmittedLength
    BY <1>1, <1>2, <1>7
  <1> QED
    BY <1>2, <1>4, <1>7, <1>9, <1>10, <1>11

-----------------------------------------------------------------------------
LEMMA InitIInv == Init => IInv /\ InCalls
  <1> SUFFICES ASSUME Init PROVE IInv /\ InCalls
    OBVIOUS
  <1> USE DEF Init
  <1>1. regs \in [Registers -> {Unknown} \cup Word]
    BY DEF NoRegs, Registers
  <1>2. TypeOK
    BY DEF TypeOK, NoRegs
  <1>3. code \in Seq(Instruction)
    BY EmptySeq
  <1>4. ProgramOK
    BY <1>1, <1>3 DEF ProgramOK
  <1>5. RunsEmitted /\ RspKnown /\ RegsKnown /\ ArrivedKnown /\ ComesHome /\ ResultsAreLost
    BY DEF RunsEmitted, RspKnown, RegsKnown, ArrivedKnown, ComesHome, ResultsAreLost
  <1> QED
    BY <1>2, <1>4, <1>5 DEF IInv, InCalls

\* Emission establishes what the run relies on.
LEMMA EmitIInv == IInv /\ InCalls /\ Emit => IInv'
  <1> SUFFICES ASSUME IInv, InCalls, Emit PROVE IInv'
    OBVIOUS
  <1>0. params \in Seq(Parameter)
    BY CallsAssumption DEF InCalls
  <1>c. Count \in Nat /\ (params = <<>> <=> Count = 0)
    BY <1>0, Counts
  <1> USE DEF Emit
  <1>1. /\ UNCHANGED <<cmd, params, missing, careful, rsp, regs, intact, arrived>>
        /\ status = "emitting" /\ code = <<>> /\ rsp = 0 /\ arrived = NoRegs /\ intact
        /\ regs \in [Registers -> {Unknown} \cup Word]
        /\ TypeOK /\ (missing => params = <<>>)
    BY DEF IInv, ProgramOK
  <1>3. CASE status' # "running"
    <2>1. code' = <<>> /\ status' \in {"fault", "threw"}
      BY <1>1, <1>3
    <2>2. TypeOK' /\ ProgramOK'
      BY <1>1, <2>1, EmptySeq DEF TypeOK, ProgramOK
    <2>3. ~(Count \in 1 .. 4 /\ cmd = "void")
      <3>1. ASSUME Count \in 1 .. 4 PROVE ~BadSize(params) /\ params # <<>>
        <4>1. DOMAIN OnStack(params) = {}
          <5>1. Len(params) <= 4
            <6>1. Count <= 4
              BY <3>1
            <6> QED
              BY <6>1 DEF Count
          <5> QED
            BY <5>1 DEF OnStack
        <4> QED
          BY <1>c, <3>1, <4>1 DEF BadSize
      <3> QED
        BY <1>1, <1>3, <3>1
    <2>4. ComesHome' /\ ResultsAreLost'
      BY <1>1, <2>1, <2>3 DEF ComesHome, ResultsAreLost, Count
    <2>5. RunsEmitted' /\ RspKnown' /\ RegsKnown' /\ ArrivedKnown'
      BY <1>1, <2>1 DEF RunsEmitted, RspKnown, RegsKnown, ArrivedKnown, Count
    <2> QED
      BY <2>2, <2>4, <2>5 DEF IInv
  <1>4. CASE status' = "running"
    <2>1. code' = Emitted /\ ~BadSize(params)
      BY <1>1, <1>4 DEF Emitted
    <2>2. /\ code' \in Seq(Instruction) /\ Len(code') = EmittedLength
          /\ EmittedLength \in Nat /\ EmittedLength >= 4
      BY <1>0, <2>1, EmittedCode
    <2>3. UNCHANGED <<Emitted, EmittedLength, Pushes, Count>> /\ (BadSize(params))' = BadSize(params)
      BY <1>1 DEF Emitted, EmittedLength, Pushes, Count, JIT_Call_Void, JIT_Call_Value, PushStackValueJit
    <2>4. Left' = EmittedLength /\ Done' = 0
      BY <2>2, <2>3 DEF Left, Done
    <2>5. RunsEmitted'
      BY <1>4, <2>1, <2>2, <2>3, <2>4 DEF RunsEmitted
    <2>6. RspKnown'
      BY <1>1, <2>2, <2>3, <2>4 DEF RspKnown
    <2>7. RegsKnown'
      BY <1>1, <2>2, <2>4 DEF RegsKnown, Turn
    <2>8. ArrivedKnown' /\ ComesHome' /\ ResultsAreLost'
      BY <1>1, <1>4 DEF ArrivedKnown, ComesHome, ResultsAreLost, Count
    <2>9. ProgramOK'
      BY <1>1, <1>4, <2>2 DEF ProgramOK
    <2>10. TypeOK'
      <3>1. \A i \in DOMAIN code' : code'[i].n \in 0 .. Full - 1 \/ code'[i].op \in {"sub", "add"}
        BY <2>2 DEF Instruction, Word
      <3> QED
        BY <1>1, <1>4, <3>1 DEF TypeOK
    <2> QED
      BY <2>5, <2>6, <2>7, <2>8, <2>9, <2>10 DEF IInv
  <1> QED
    BY <1>3, <1>4

-----------------------------------------------------------------------------
\* The run.  Every instruction fetched is the next one of those emitted.
LEMMA Fetched ==
  ASSUME IInv, InCalls, status = "running"
  PROVE  /\ Left \in 1 .. EmittedLength /\ EmittedLength \in Nat
         /\ Next1 = Emitted[Done + 1]
         /\ Tail(code) \in Seq(Instruction) /\ Len(Tail(code)) = Left - 1
         /\ \A i \in 1 .. Left - 1 : Tail(code)[i] = Emitted[Done + 1 + i]
  <1>1. /\ code \in Seq(Instruction) /\ Left \in 1 .. EmittedLength /\ Left = Len(code)
        /\ \A i \in 1 .. Left : code[i] = Emitted[Done + i]
    BY DEF IInv, ProgramOK, RunsEmitted, Left
  <1>2. EmittedLength \in Nat
    BY CallsAssumption, Counts DEF InCalls
  <1>3. Done \in Int /\ Left \in Nat
    BY <1>1, <1>2 DEF Done, Left
  <1>4. Tail(code) \in Seq(Instruction) /\ Len(Tail(code)) = Left - 1
          /\ \A i \in 1 .. Left - 1 : Tail(code)[i] = code[i + 1]
    BY <1>1
  <1>5. \A i \in 1 .. Left - 1 : code[i + 1] = Emitted[Done + 1 + i]
    <2>1. \A i \in 1 .. Left - 1 : i + 1 \in 1 .. Left /\ Done + (i + 1) = Done + 1 + i
      BY <1>3
    <2> QED
      BY <1>1, <2>1
  <1>6. Next1 = code[1]
    BY <1>1 DEF Next1
  <1> QED
    BY <1>1, <1>2, <1>3, <1>4, <1>5, <1>6

\* Which instruction it is says how far the run has come, and the other way.
LEMMA Positions ==
  ASSUME IInv, InCalls, status = "running"
  PROVE  \/ /\ Next1 = In("sub", 48) /\ Done = 0 /\ Count > 0 /\ Left > 4
         \/ /\ Count > 0 /\ Left > 4
            /\ \E r \in DOMAIN Turn : Next1 = ToReg(r, Given(r)) /\ Done = Turn[r] - 1
         \/ /\ Next1.op = "push" /\ Next1.n \in {2, 4, 8}
            /\ Count > 0 /\ Left > 4 /\ Pushes > 0 /\ Done >= 5
         \/ Next1 = ToReg("rax", Target) /\ Left = 4
         \/ Next1 = In("call", 0) /\ Left = 3
         \/ Next1 = In("add", RspAdd(params)) /\ cmd = "void" /\ Left = 2
         \/ Next1 = In("store", 0) /\ cmd # "void" /\ Left = 2
         \/ Next1 = In("retn", 0) /\ Left = 1
  <1> DEFINE k == Done + 1
             L == EmittedLength
  <1>0. params \in Seq(Parameter) /\ ~BadSize(params)
    BY CallsAssumption DEF InCalls, IInv, RunsEmitted
  <1>1. /\ Left \in 1 .. L /\ L \in Nat /\ L >= 4 /\ Next1 = Emitted[k] /\ k = L - Left + 1
        /\ Pushes \in Nat /\ Count \in Nat
        /\ (Count > 0 => L = 9 + Pushes) /\ (Count = 0 => L = 4)
    BY <1>0, Fetched, Counts DEF Done
  <1>2. /\ Count > 0 =>
             /\ Emitted[1] = In("sub", 48)
             /\ \A r \in DOMAIN Turn : Emitted[Turn[r]] = ToReg(r, Given(r))
             /\ \A j \in 1 .. Pushes : Emitted[5 + j].op = "push" /\ Emitted[5 + j].n \in {2, 4, 8}
        /\ Emitted[L - 3] = ToReg("rax", Target)
        /\ Emitted[L - 2] = In("call", 0)
        /\ Emitted[L - 1] = IF cmd = "void" THEN In("add", RspAdd(params)) ELSE In("store", 0)
        /\ Emitted[L] = In("retn", 0)
    BY <1>0, EmittedCode
  <1>3. Done = k - 1
    BY <1>1 DEF Done
  <1> HIDE DEF k, L
  <1>4. CASE Left <= 4
    <2>1. \/ k = L - 3 /\ Left = 4
          \/ k = L - 2 /\ Left = 3
          \/ k = L - 1 /\ Left = 2
          \/ k = L /\ Left = 1
      <3>1. L \in Nat /\ Left \in Int /\ k = L - Left + 1
        BY <1>1
      <3>2. Left = 1 \/ Left = 2 \/ Left = 3 \/ Left = 4
        BY <1>1, <1>4
      <3> QED
        BY <3>1, <3>2
    <2> QED
      BY <1>1, <1>2, <2>1
  <1>5. CASE Left > 4
    <2>1. Count > 0 /\ k \in 1 .. 5 + Pushes
      BY <1>1, <1>5
    <2>2. CASE k = 1
      <3>1. Next1 = In("sub", 48)
        BY <1>1, <1>2, <2>1, <2>2
      <3>2. Done = 0
        BY <1>3, <2>2
      <3> QED
        BY <1>5, <2>1, <3>1, <3>2
    <2>3. CASE k \in 2 .. 5
      <3>1. PICK r \in DOMAIN Turn : k = Turn[r]
        <4>1. k = 2 \/ k = 3 \/ k = 4 \/ k = 5
          BY <2>3
        <4> QED
          BY <4>1 DEF Turn
      <3>2. Next1 = ToReg(r, Given(r)) /\ Done = Turn[r] - 1
        BY <1>1, <1>2, <1>3, <2>1, <3>1
      <3> QED
        BY <1>5, <2>1, <3>2
    <2>4. CASE k > 5
      <3>1. k - 5 \in 1 .. Pushes /\ k = 5 + (k - 5) /\ Pushes > 0 /\ k - 1 >= 5
        BY <1>1, <2>1, <2>4
      <3>2. Emitted[k].op = "push" /\ Emitted[k].n \in {2, 4, 8}
        BY <1>2, <2>1, <3>1
      <3> QED
        BY <1>1, <1>3, <1>5, <2>1, <3>1, <3>2
    <2> QED
      BY <2>1, <2>2, <2>3, <2>4, <1>1
  <1> QED
    BY <1>1, <1>4, <1>5

\* What a step leaves of code.
LEMMA CodeShrinks ==
  ASSUME IInv, InCalls, NEW op, Fetch(op)
  PROVE  /\ UNCHANGED <<cmd, params, missing, careful, Emitted, EmittedLength, Pushes, Count>>
         /\ code' \in Seq(Instruction)
         /\ Left' = Left - 1 /\ Done' = Done + 1
         /\ status = "running" /\ Next1.op = op /\ InCalls'
         /\ Left > 1 => RunsEmitted'
  <1>1. /\ UNCHANGED <<cmd, params, missing, careful>> /\ code' = Tail(code)
        /\ status = "running" /\ Next1.op = op
    BY DEF Fetch
  <1>2. UNCHANGED <<Emitted, EmittedLength, Pushes, Count>> /\ (BadSize(params))' = BadSize(params)
    BY <1>1 DEF Emitted, EmittedLength, Pushes, Count, JIT_Call_Void, JIT_Call_Value,
                PushStackValueJit
  <1>3. /\ Left \in 1 .. EmittedLength /\ EmittedLength \in Nat
        /\ code' \in Seq(Instruction) /\ Len(code') = Left - 1
        /\ \A i \in 1 .. Left - 1 : code'[i] = Emitted[Done + 1 + i]
    BY <1>1, Fetched
  <1>4. Left' = Left - 1
    BY <1>3 DEF Left
  <1>5. Done' = Done + 1
    <2>1. Done = EmittedLength - Left /\ Done' = EmittedLength' - Left'
      BY DEF Done, Left
    <2> QED
      BY <1>2, <1>3, <1>4, <2>1
  <1>6. ~BadSize(params)
    BY <1>1 DEF IInv, RunsEmitted
  <1>7. ASSUME Left > 1 PROVE RunsEmitted'
    <2>1. Left' \in 1 .. EmittedLength'
      BY <1>2, <1>3, <1>4, <1>7
    <2>2. \A i \in 1 .. Left' : code'[i] = Emitted'[Done' + i]
      BY <1>2, <1>3, <1>4, <1>5
    <2> QED
      BY <1>2, <1>6, <2>1, <2>2 DEF RunsEmitted
  <1> QED
    BY <1>1, <1>2, <1>3, <1>4, <1>5, <1>7 DEF InCalls

LEMMA StepTyped ==
  ASSUME IInv, InCalls, NEW op, Fetch(op),
         rsp' \in Int, regs' \in [Registers -> {Unknown} \cup Word], intact' \in BOOLEAN,
         status' \in {"running", "returned", "lost", "fault"}
  PROVE  TypeOK' /\ ProgramOK'
  <1>1. UNCHANGED <<cmd, params, missing, careful>> /\ code' \in Seq(Instruction)
    BY CodeShrinks
  <1>2. \A i \in DOMAIN code' : code'[i].n \in 0 .. Full - 1 \/ code'[i].op \in {"sub", "add"}
    BY <1>1 DEF Instruction, Word
  <1>3. TypeOK'
    BY <1>1, <1>2 DEF IInv, TypeOK, Registers, Word
  <1>4. ProgramOK'
    BY <1>1 DEF IInv, ProgramOK
  <1> QED
    BY <1>3, <1>4

\* The parts that speak of a run or of its end, while it goes on.
LEMMA StillRunning ==
  ASSUME IInv, InCalls, NEW op, Fetch(op), status' = "running"
  PROVE  ComesHome' /\ ResultsAreLost' /\ (UNCHANGED arrived => ArrivedKnown')
  <1>1. UNCHANGED <<cmd, params, missing, careful, Count>>
    BY CodeShrinks
  <1>2. ComesHome' /\ ResultsAreLost'
    BY <1>1 DEF ComesHome, ResultsAreLost
  <1>3. ASSUME UNCHANGED arrived PROVE ArrivedKnown'
    <2>1. \A r : Given(r)' = Given(r)
      BY <1>1 DEF Given, FromTop
    <2> QED
      BY <1>1, <1>3, <2>1 DEF IInv, ArrivedKnown
  <1> QED
    BY <1>2, <1>3

LEMMA MoveStackIInv == IInv /\ InCalls /\ MoveStack => IInv'
  <1> SUFFICES ASSUME IInv, InCalls, MoveStack PROVE IInv'
    OBVIOUS
  <1> DEFINE n == Next1.n
  <1>0. PICK op \in {"sub", "push", "add"} :
          Fetch(op) /\ rsp' = IF op = "add" THEN rsp + n ELSE rsp - n
    BY DEF MoveStack
  <1>1. UNCHANGED <<regs, intact, arrived, status>> /\ status' = "running"
    BY <1>0 DEF MoveStack, Fetch
  <1>2. /\ UNCHANGED <<cmd, params, missing, careful, Emitted, EmittedLength, Pushes, Count>>
        /\ Left' = Left - 1 /\ Done' = Done + 1
        /\ status = "running" /\ Next1.op = op
        /\ Left > 1 => RunsEmitted'
    BY <1>0, CodeShrinks
  <1>3. params \in Seq(Parameter)
    BY CallsAssumption DEF InCalls
  <1>4. /\ Left \in 1 .. EmittedLength /\ EmittedLength \in Nat /\ Done = EmittedLength - Left
        /\ Pushes \in Nat /\ (Pushes = 0 <=> Count <= 4) /\ Count \in Nat
        /\ (Count > 0 => EmittedLength = 9 + Pushes) /\ (Count = 0 => EmittedLength = 4)
    BY <1>2, <1>3, Fetched, Counts DEF Done
  <1>5. rsp \in Int /\ RspKnown
    BY DEF IInv, TypeOK
  <1>6. \/ op = "sub" /\ n = 48 /\ Done = 0 /\ Count > 0 /\ Left > 4
        \/ op = "push" /\ n \in {2, 4, 8} /\ Count > 0 /\ Left > 4 /\ Pushes > 0 /\ Done >= 5
        \/ op = "add" /\ n = RspAdd(params) /\ cmd = "void" /\ Left = 2
    BY <1>2, Positions DEF In, ToReg
  <1>7. RspAdd(params) \in Int /\ (Count <= 6 => RspAdd(params) = 48)
    BY <1>3, RspAddValue DEF Count
  <1> HIDE DEF n
  <1>8. n \in Int /\ Left > 1 /\ rsp' \in Int
    <2>1. n \in Int
      BY <1>6, <1>7
    <2>2. Left > 1
      BY <1>4, <1>6
    <2> QED
      BY <1>0, <1>5, <2>1, <2>2
  <1>9. RspKnown'
    <2> SUFFICES
          IF Count = 0 THEN rsp' = IF Left' = 1 /\ cmd = "void" THEN 48 ELSE 0
          ELSE /\ intact
               /\ Done' = 0 => rsp' = 0
               /\ Done' \in 1 .. 5 => rsp' = -48
               /\ Done' > 5 /\ (Left' > 1 \/ cmd # "void") =>
                    IF Pushes = 0 THEN rsp' = -48 ELSE rsp' < -48
               /\ Left' = 1 /\ cmd = "void" =>
                    /\ Count <= 4 => rsp' = 0
                    /\ Count \in {5, 6} => rsp' < 0
      BY <1>1, <1>2 DEF RspKnown
    <2>1. CASE op = "sub"
      BY <1>0, <1>2, <1>4, <1>5, <1>6, <2>1 DEF RspKnown
    <2>2. CASE op = "push"
      <3>1. Done' > 5 /\ Left' > 1 /\ Count > 0 /\ Pushes > 0
        BY <1>2, <1>4, <1>6, <2>2
      <3>2. intact /\ rsp <= -48
        BY <1>2, <1>4, <1>5, <1>6, <2>2 DEF RspKnown
      <3>3. rsp' < -48
        BY <1>0, <1>5, <1>6, <2>2, <3>2
      <3> QED
        BY <3>1, <3>2, <3>3, <1>2, <1>4
    <2>3. CASE op = "add"
      <3>1. Left' = 1 /\ cmd = "void" /\ n = RspAdd(params) /\ rsp' = rsp + n
        BY <1>0, <1>2, <1>6, <2>3
      <3>2. CASE Count = 0
        BY <1>2, <1>5, <1>6, <1>7, <2>3, <3>1, <3>2 DEF RspKnown
      <3>3. CASE Count > 0
        <4>1. Done = 7 + Pushes /\ Done' = 8 + Pushes
          BY <1>2, <1>4, <1>6, <2>3, <3>3
        <4>2. intact /\ IF Pushes = 0 THEN rsp = -48 ELSE rsp < -48
          BY <1>2, <1>4, <1>5, <1>6, <2>3, <3>3, <4>1 DEF RspKnown
        <4>3. (Count <= 4 => rsp' = 0) /\ (Count \in {5, 6} => rsp' < 0)
          BY <1>4, <1>5, <1>7, <3>1, <4>2
        <4> QED
          BY <1>4, <3>1, <3>3, <4>1, <4>2, <4>3
      <3> QED
        BY <1>4, <3>2, <3>3
    <2> QED
      BY <2>1, <2>2, <2>3
  <1>10. RegsKnown'
    <2>1. \A r : Given(r)' = Given(r)
      BY <1>2 DEF Given, FromTop
    <2>2. Left' # 3
      BY <1>4, <1>2, <1>6
    <2>3. ASSUME Count > 0, Left' >= 3, NEW r \in DOMAIN Turn, Done' >= Turn[r]
          PROVE  regs[r] = Given(r)
      <3>1. Turn[r] \in 2 .. 5 /\ Left >= 3
        BY <1>2, <1>4, <2>3 DEF Turn
      <3>2. Done >= Turn[r]
        BY <1>2, <1>4, <1>6, <2>3, <3>1
      <3> QED
        BY <1>2, <2>3, <3>1, <3>2 DEF IInv, RegsKnown
    <2> QED
      BY <1>1, <1>2, <2>1, <2>2, <2>3 DEF RegsKnown
  <1>11. TypeOK' /\ ProgramOK'
    BY <1>0, <1>1, <1>8, StepTyped DEF IInv, TypeOK, ProgramOK
  <1>12. ComesHome' /\ ResultsAreLost' /\ ArrivedKnown'
    BY <1>0, <1>1, StillRunning
  <1> QED
    BY <1>2, <1>8, <1>9, <1>10, <1>11, <1>12 DEF IInv

LEMMA MovIInv == IInv /\ InCalls /\ Mov => IInv'
  <1> SUFFICES ASSUME IInv, InCalls, Mov PROVE IInv'
    OBVIOUS
  <1> DEFINE reg == Next1.reg
             n == Next1.n
  <1>1. /\ Fetch("mov") /\ regs' = [regs EXCEPT ![reg] = n]
        /\ UNCHANGED <<rsp, intact, arrived, status>> /\ status' = "running"
    BY DEF Mov, Fetch
  <1>2. /\ UNCHANGED <<cmd, params, missing, careful, Emitted, EmittedLength, Pushes, Count>>
        /\ Left' = Left - 1 /\ Done' = Done + 1
        /\ status = "running" /\ Next1.op = "mov"
        /\ Left > 1 => RunsEmitted'
    BY <1>1, CodeShrinks
  <1>3. params \in Seq(Parameter)
    BY CallsAssumption DEF InCalls
  <1>4. /\ Left \in 1 .. EmittedLength /\ EmittedLength \in Nat /\ Done = EmittedLength - Left
        /\ Pushes \in Nat /\ Count \in Nat
        /\ (Count > 0 => EmittedLength = 9 + Pushes) /\ (Count = 0 => EmittedLength = 4)
    BY <1>2, <1>3, Fetched, Counts DEF Done
  <1>5. /\ regs \in [Registers -> {Unknown} \cup Word] /\ rsp \in Int /\ intact \in BOOLEAN
        /\ RspKnown /\ RegsKnown
    BY DEF IInv, TypeOK, ProgramOK
  <1>6. \/ reg = "rax" /\ n = Target /\ Left = 4
        \/ /\ Count > 0 /\ Left > 4
           /\ reg \in DOMAIN Turn /\ n = Given(reg) /\ Done = Turn[reg] - 1
    BY <1>2, Positions DEF In, ToReg
  <1>7. reg \in Registers /\ n \in Word
    <2>1. CASE reg = "rax" /\ n = Target
      BY <2>1, TargetAssumption DEF Registers, Word
    <2>2. CASE reg \in DOMAIN Turn /\ n = Given(reg)
      <3>1. reg \in Registers /\ Place[reg] \in Nat \ {0}
        BY <2>2 DEF Turn, Registers, Place
      <3>2. Given(reg) \in Word
        BY <1>3, <3>1, ParametersAreWords DEF Given
      <3> QED
        BY <2>2, <3>1, <3>2
    <2> QED
      BY <1>6, <2>1, <2>2
  <1> HIDE DEF reg, n
  <1>8. Left > 1 /\ regs' \in [Registers -> {Unknown} \cup Word]
    <2>1. Left > 1
      BY <1>4, <1>6
    <2> QED
      BY <1>1, <1>5, <1>7, <2>1
  <1>9. \A r \in DOMAIN Turn : Turn[r] \in 2 .. 5 /\ r \in Registers /\ r # "rax"
    BY DEF Turn, Registers
  <1>10. RspKnown'
    <2>1. CASE Left = 4
      <3>1. Done' > 5 <=> Count > 0 /\ EmittedLength >= 9
        BY <1>2, <1>4, <2>1
      <3>2. Count > 0 => Done >= 5
        BY <1>2, <1>4, <2>1
      <3> QED
        BY <1>1, <1>2, <1>4, <1>5, <2>1, <3>1, <3>2 DEF RspKnown
    <2>2. CASE Count > 0 /\ Left > 4 /\ Done \in 1 .. 4
      BY <1>1, <1>2, <1>4, <1>5, <2>2 DEF RspKnown
    <2>3. Left = 4 \/ (Count > 0 /\ Left > 4 /\ Done \in 1 .. 4)
      BY <1>6, <1>9
    <2> QED
      BY <2>1, <2>2, <2>3
  <1>11. RegsKnown'
    <2>1. \A r : Given(r)' = Given(r)
      BY <1>2 DEF Given, FromTop
    <2>2. Left' = 3 => regs'["rax"] = Target
      BY <1>1, <1>2, <1>4, <1>5, <1>6, <1>7 DEF Registers
    <2>3. ASSUME Count > 0, Left' >= 3, NEW r \in DOMAIN Turn, Done' >= Turn[r]
          PROVE  regs'[r] = Given(r)
      <3>1. Turn[r] \in 2 .. 5 /\ Left >= 3 /\ r \in Registers /\ r # "rax"
        BY <1>2, <1>4, <1>9, <2>3
      <3>2. CASE Left = 4 /\ reg = "rax"
        <4>1. Done >= Turn[r]
          BY <1>2, <1>4, <2>3, <3>1, <3>2
        <4> QED
          BY <1>1, <1>2, <1>5, <1>7, <2>3, <3>1, <3>2, <4>1 DEF RegsKnown
      <3>3. CASE reg = r /\ n = Given(reg)
        BY <1>1, <1>5, <1>7, <3>3
      <3>4. CASE reg # r /\ reg \in DOMAIN Turn /\ Done = Turn[reg] - 1
        <4>1. Turn[reg] # Turn[r]
          BY <2>3, <3>4 DEF Turn
        <4>2. Done >= Turn[r]
          BY <1>2, <1>4, <1>9, <2>3, <3>1, <3>4, <4>1
        <4> QED
          BY <1>1, <1>2, <1>5, <1>7, <2>3, <3>1, <3>4, <4>2 DEF RegsKnown
      <3> QED
        BY <1>6, <3>2, <3>3, <3>4
    <2> QED
      BY <1>2, <2>1, <2>2, <2>3 DEF RegsKnown
  <1>12. TypeOK' /\ ProgramOK'
    BY <1>1, <1>5, <1>8, StepTyped
  <1>13. ComesHome' /\ ResultsAreLost' /\ ArrivedKnown'
    BY <1>1, StillRunning
  <1> QED
    BY <1>2, <1>8, <1>10, <1>11, <1>12, <1>13 DEF IInv

LEMMA CallIInv == IInv /\ InCalls /\ Call => IInv'
  <1> SUFFICES ASSUME IInv, InCalls, Call PROVE IInv'
    OBVIOUS
  <1>1. /\ Fetch("call") /\ arrived' = regs /\ UNCHANGED rsp
        /\ regs' = [r \in DOMAIN regs |-> Unknown]
        /\ intact' \in IF HomeSpaceHitsHome THEN {FALSE, intact} ELSE {intact}
        /\ status' = IF regs["rax"] # Target THEN "lost"
                     ELSE IF careful /\ ~Aligned THEN "fault" ELSE "running"
    BY DEF Call
  <1>2. /\ UNCHANGED <<cmd, params, missing, careful, Emitted, EmittedLength, Pushes, Count>>
        /\ Left' = Left - 1 /\ Done' = Done + 1
        /\ status = "running" /\ Next1.op = "call"
        /\ Left > 1 => RunsEmitted'
    BY <1>1, CodeShrinks
  <1>3. params \in Seq(Parameter)
    BY CallsAssumption DEF InCalls
  <1>4. /\ Left \in 1 .. EmittedLength /\ EmittedLength \in Nat /\ Done = EmittedLength - Left
        /\ Pushes \in Nat /\ Count \in Nat
        /\ (Count > 0 => EmittedLength = 9 + Pushes) /\ (Count = 0 => EmittedLength = 4)
    BY <1>2, <1>3, Fetched, Counts DEF Done
  <1>5. /\ regs \in [Registers -> {Unknown} \cup Word] /\ rsp \in Int /\ intact \in BOOLEAN
        /\ RspKnown /\ RegsKnown
    BY DEF IInv, TypeOK, ProgramOK
  <1>6. Left = 3
    BY <1>2, Positions DEF In, ToReg
  <1>7. regs["rax"] = Target
    BY <1>2, <1>5, <1>6 DEF RegsKnown
  <1>8. status' = IF careful /\ ~Aligned THEN "fault" ELSE "running"
    BY <1>1, <1>7
  <1>9. Count > 0 => Done = 6 + Pushes /\ intact /\ intact' /\ rsp <= -48
    <2> SUFFICES ASSUME Count > 0 PROVE Done = 6 + Pushes /\ intact /\ intact' /\ rsp <= -48
      OBVIOUS
    <2>1. Done = 6 + Pushes
      BY <1>4, <1>6
    <2>2. intact /\ rsp <= -48
      BY <1>2, <1>4, <1>5, <1>6, <2>1 DEF RspKnown
    <2>3. ~HomeSpaceHitsHome
      BY <1>5, <2>2 DEF HomeSpaceHitsHome
    <2> QED
      BY <1>1, <2>1, <2>2, <2>3
  <1>10. RspKnown'
    <2>1. CASE Count = 0
      BY <1>1, <1>2, <1>5, <1>6, <2>1 DEF RspKnown
    <2>2. CASE Count > 0
      <3>1. Done > 5 /\ Done' > 5 /\ Left > 1 /\ Left' = 2
        BY <1>2, <1>4, <1>6, <1>9, <2>2
      <3>2. IF Pushes = 0 THEN rsp = -48 ELSE rsp < -48
        BY <1>2, <1>5, <2>2, <3>1 DEF RspKnown
      <3> QED
        BY <1>1, <1>2, <1>4, <1>9, <2>2, <3>1, <3>2 DEF RspKnown
    <2> QED
      BY <1>4, <2>1, <2>2
  <1>11. RegsKnown'
    BY <1>2, <1>6 DEF RegsKnown
  <1>12. ArrivedKnown'
    <2>1. \A r : Given(r)' = Given(r)
      BY <1>2 DEF Given, FromTop
    <2>2. ASSUME Count > 0, NEW r \in DOMAIN Turn PROVE regs[r] = Given(r)
      <3>1. Turn[r] \in 2 .. 5
        BY DEF Turn
      <3>2. Done >= Turn[r] /\ Left >= 3
        BY <1>4, <1>6, <1>9, <2>2, <3>1
      <3> QED
        BY <1>2, <1>5, <2>2, <3>2 DEF RegsKnown
    <2> QED
      BY <1>1, <1>2, <1>4, <2>1, <2>2 DEF ArrivedKnown
  <1>13. regs' \in [Registers -> {Unknown} \cup Word] /\ intact' \in BOOLEAN /\ rsp' \in Int
    BY <1>1, <1>5
  <1>14. TypeOK' /\ ProgramOK'
    BY <1>1, <1>8, <1>13, StepTyped
  <1>15. ComesHome' /\ ResultsAreLost'
    BY <1>2, <1>8 DEF ComesHome, ResultsAreLost
  <1> QED
    BY <1>2, <1>6, <1>10, <1>11, <1>12, <1>14, <1>15 DEF IInv

LEMMA StoreIInv == IInv /\ InCalls /\ Store => IInv'
  <1> SUFFICES ASSUME IInv, InCalls, Store PROVE IInv'
    OBVIOUS
  <1>1. /\ Fetch("store") /\ status' \in {"running", "fault"}
        /\ intact' \in {intact, FALSE}
        /\ UNCHANGED <<rsp, regs, arrived>>
    BY DEF Store
  <1>2. /\ UNCHANGED <<cmd, params, missing, careful, Emitted, EmittedLength, Pushes, Count>>
        /\ Left' = Left - 1 /\ Done' = Done + 1
        /\ status = "running" /\ Next1.op = "store"
        /\ Left > 1 => RunsEmitted'
    BY <1>1, CodeShrinks
  <1>3. params \in Seq(Parameter)
    BY CallsAssumption DEF InCalls
  <1>4. /\ Left \in 1 .. EmittedLength /\ EmittedLength \in Nat /\ Done = EmittedLength - Left
        /\ Pushes \in Nat /\ Count \in Nat
        /\ (Count > 0 => EmittedLength = 9 + Pushes) /\ (Count = 0 => EmittedLength = 4)
    BY <1>2, <1>3, Fetched, Counts DEF Done
  <1>5. /\ regs \in [Registers -> {Unknown} \cup Word] /\ rsp \in Int /\ intact \in BOOLEAN
        /\ RspKnown /\ ArrivedKnown
    BY DEF IInv, TypeOK, ProgramOK
  <1>6. Left = 2 /\ cmd # "void"
    BY <1>2, Positions DEF In, ToReg
  <1>7. RspKnown'
    <2>1. CASE Count = 0
      BY <1>1, <1>2, <1>5, <1>6, <2>1 DEF RspKnown
    <2>2. CASE Count > 0
      <3>1. Done > 5 /\ Done' > 5
        BY <1>2, <1>4, <1>6, <2>2
      <3>2. IF Pushes = 0 THEN rsp = -48 ELSE rsp < -48
        BY <1>2, <1>5, <1>6, <2>2, <3>1 DEF RspKnown
      <3> QED
        BY <1>1, <1>2, <1>4, <1>6, <2>2, <3>1, <3>2 DEF RspKnown
    <2> QED
      BY <1>4, <2>1, <2>2
  <1>8. RegsKnown'
    BY <1>2, <1>6 DEF RegsKnown
  <1>9. ArrivedKnown'
    <2>1. \A r : Given(r)' = Given(r)
      BY <1>2 DEF Given, FromTop
    <2> QED
      BY <1>1, <1>2, <1>5, <2>1 DEF ArrivedKnown
  <1>10. TypeOK' /\ ProgramOK'
    BY <1>1, <1>5, StepTyped
  <1>11. ComesHome' /\ ResultsAreLost'
    BY <1>1, <1>2, <1>6 DEF ComesHome, ResultsAreLost
  <1> QED
    BY <1>2, <1>6, <1>7, <1>8, <1>9, <1>10, <1>11 DEF IInv

LEMMA RetnIInv == IInv /\ InCalls /\ Retn => IInv'
  <1> SUFFICES ASSUME IInv, InCalls, Retn PROVE IInv'
    OBVIOUS
  <1>1. /\ Fetch("retn") /\ status' = IF rsp = 0 /\ intact THEN "returned" ELSE "lost"
        /\ UNCHANGED <<rsp, regs, intact, arrived>>
    BY DEF Retn
  <1>2. /\ UNCHANGED <<cmd, params, missing, careful, Count>>
        /\ status = "running" /\ Next1.op = "retn"
    BY <1>1, CodeShrinks
  <1>3. params \in Seq(Parameter)
    BY CallsAssumption DEF InCalls
  <1>4. /\ Left \in 1 .. EmittedLength /\ EmittedLength \in Nat /\ Done = EmittedLength - Left
        /\ Pushes \in Nat /\ Count \in Nat /\ (params = <<>> <=> Count = 0)
        /\ (Pushes = 0 <=> Count <= 4) /\ (Count > 0 => EmittedLength = 9 + Pushes)
    BY <1>2, <1>3, Fetched, Counts DEF Done
  <1>5. /\ regs \in [Registers -> {Unknown} \cup Word] /\ rsp \in Int /\ intact \in BOOLEAN
        /\ RspKnown /\ ArrivedKnown /\ (missing => Count = 0)
    BY <1>4 DEF IInv, TypeOK, ProgramOK
  <1>6. Left = 1
    BY <1>2, Positions DEF In, ToReg
  <1>7. /\ Count > 0 => Done > 5
        /\ Count > 0 /\ cmd = "void" => intact
    BY <1>2, <1>4, <1>5, <1>6 DEF RspKnown
  <1>8. cmd = "void" => /\ Count = 0 => rsp = 48
                        /\ Count \in 1 .. 4 => rsp = 0
                        /\ Count \in {5, 6} => rsp < 0
    BY <1>2, <1>4, <1>5, <1>6, <1>7 DEF RspKnown
  <1>9. cmd # "void" /\ Count > 0 => rsp <= -48
    BY <1>2, <1>4, <1>5, <1>6, <1>7 DEF RspKnown
  <1>10. ComesHome'
    <2>1. cmd = "void" /\ Count \in 1 .. 4 => status' = "returned"
      BY <1>1, <1>7, <1>8
    <2>2. cmd = "void" /\ status' = "returned" => Count \notin {0, 5, 6} /\ ~missing
      BY <1>1, <1>4, <1>5, <1>8
    <2> QED
      BY <1>2, <2>1, <2>2 DEF ComesHome, Count
  <1>11. ResultsAreLost'
    <2>1. cmd # "void" /\ status' = "returned" => Count = 0
      BY <1>1, <1>4, <1>5, <1>9
    <2> QED
      BY <1>2, <1>4, <2>1 DEF ResultsAreLost
  <1>12. ArrivedKnown'
    <2>1. \A r : Given(r)' = Given(r)
      BY <1>2 DEF Given, FromTop
    <2> QED
      BY <1>1, <1>2, <1>5, <2>1 DEF ArrivedKnown
  <1>13. TypeOK' /\ ProgramOK'
    BY <1>1, <1>5, StepTyped
  <1>14. RunsEmitted' /\ RspKnown' /\ RegsKnown'
    BY <1>1 DEF RunsEmitted, RspKnown, RegsKnown
  <1> QED
    BY <1>10, <1>11, <1>12, <1>13, <1>14 DEF IInv

LEMMA NextIInv == IInv /\ InCalls /\ [Next]_vars => IInv' /\ InCalls'
  <1> SUFFICES ASSUME IInv, InCalls, [Next]_vars PROVE IInv' /\ InCalls'
    OBVIOUS
  <1>1. IInv'
    <2>1. CASE UNCHANGED vars
      <3>1. UNCHANGED <<Emitted, EmittedLength, Pushes, Count, Done, Left>>
              /\ (BadSize(params))' = BadSize(params)
        BY <2>1 DEF vars, Emitted, EmittedLength, Pushes, Count, Done, Left, JIT_Call_Void,
                    JIT_Call_Value, PushStackValueJit
      <3>2. \A r : Given(r)' = Given(r)
        BY <2>1 DEF vars, Given, FromTop
      <3>3. TypeOK' /\ ProgramOK' /\ ComesHome' /\ ResultsAreLost'
        BY <2>1 DEF vars, IInv, TypeOK, ProgramOK, ComesHome, ResultsAreLost
      <3>4. RunsEmitted' /\ RspKnown'
        BY <2>1, <3>1 DEF vars, IInv, RunsEmitted, RspKnown
      <3>5. RegsKnown' /\ ArrivedKnown'
        BY <2>1, <3>1, <3>2 DEF vars, IInv, RegsKnown, ArrivedKnown
      <3> QED
        BY <3>3, <3>4, <3>5 DEF IInv
    <2> QED
      BY <2>1, EmitIInv, MoveStackIInv, MovIInv, CallIInv, StoreIInv, RetnIInv DEF Next
  <1>2. UNCHANGED params
    BY DEF Next, vars, Emit, MoveStack, Mov, Call, Store, Retn, Fetch
  <1> QED
    BY <1>1, <1>2 DEF InCalls

-----------------------------------------------------------------------------
\* What the registers hold when the function is reached is what arrives.
LEMMA ArrivedParameters == IInv /\ InCalls => ParametersArrive
  <1> SUFFICES ASSUME IInv, InCalls, arrived # NoRegs,
                      NEW r \in DOMAIN Place, Place[r] <= Len(params)
               PROVE  LET v == FromTop(params, Place[r])
                      IN  arrived[r] = IF Place[r] <= 2 \/ v < Full \div 2
                                       THEN v % Half ELSE Half - 1
    BY DEF ParametersArrive
  <1> DEFINE v == FromTop(params, Place[r])
  <1>1. params \in Seq(Parameter)
    BY CallsAssumption DEF InCalls
  <1>2. Place[r] \in 1 .. 4 /\ r \in DOMAIN Turn /\ (r \in {"rcx", "rdx"} <=> Place[r] <= 2)
    BY DEF Place, Turn
  <1>3. Count # 0
    BY <1>2 DEF Count
  <1>4. arrived[r] = Given(r)
    BY <1>2, <1>3 DEF IInv, ArrivedKnown
  <1>5. v \in 0 .. Full - 1
    BY <1>1, <1>2, ParametersAreWords DEF Word
  <1> HIDE DEF v
  <1>6. ParameterLow(v) = v % Half
          /\ ParameterHigh(v) = IF v < Full \div 2 THEN v % Half ELSE Half - 1
    BY <1>5, ParameterLowValue, ParameterHighValue
  <1> QED
    BY <1>2, <1>4, <1>6 DEF Given, v

\* The strengthened invariant holds of every run.
THEOREM Inductive == Spec => [](IInv /\ InCalls)
  <1>1. Init => IInv /\ InCalls
    BY InitIInv
  <1>2. IInv /\ InCalls /\ [Next]_vars => IInv' /\ InCalls'
    BY NextIInv
  <1> QED
    BY <1>1, <1>2, PTL DEF Spec

(***************************************************************************)
(* Registers hold words, rsp is a number and the code left to run is made of   *)
(* the instructions the translator knows.                                    *)
(***************************************************************************)
THEOREM TypeCorrect == Spec => []TypeOK
  <1>1. IInv => TypeOK
    BY DEF IInv
  <1> QED
    BY <1>1, Inductive, PTL

(***************************************************************************)
(* jit_call_void comes back from a function that was given one to four          *)
(* parameters, whatever they are, and from none with no, five or six (RspAdd     *)
(* of DataHandling.h against ParameterPush of Instruction.h).                 *)
(***************************************************************************)
THEOREM CallsComeHome == Spec => []ComesHome
  <1>1. IInv => ComesHome
    BY DEF IInv
  <1> QED
    BY <1>1, Inductive, PTL

(***************************************************************************)
(* jit_call_dword and jit_call_qword never come back with a parameter: the add  *)
(* that would free the room is a comment (Functions.h).                      *)
(***************************************************************************)
THEOREM ResultsLost == Spec => []ResultsAreLost
  <1>1. IInv => ResultsAreLost
    BY DEF IInv
  <1> QED
    BY <1>1, Inductive, PTL

(***************************************************************************)
(* The function finds exactly the low halves of its first two parameters, and   *)
(* of the next two exactly those of the ones that are not negative.           *)
(***************************************************************************)
THEOREM ParametersReachTheFunction == Spec => []ParametersArrive
  <1> QED
    BY ArrivedParameters, Inductive, PTL
=============================================================================
