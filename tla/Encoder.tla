------------------------------ MODULE Encoder ------------------------------
(***************************************************************************)
(* What JitCompiler_t and InstructionManager_t (Jit_Compiler.h,              *)
(* Instruction.h) emit for the instructions this program uses: how many      *)
(* bytes each takes, which is where jumps land, and, for the values put       *)
(* together from several immediates, the value the register ends with.        *)
(*                                                                         *)
(* A register of 64 bits is four quarters of 16.  Quarter is the number of     *)
(* values a quarter has: 65536 on the processor, less in a model.             *)
(***************************************************************************)
EXTENDS Integers

CONSTANT Quarter

ASSUME QuarterAssumption == Quarter \in Nat \ {0, 1} /\ Quarter % 2 = 0

Half == Quarter * Quarter
Full == Half * Half

-----------------------------------------------------------------------------
\* Lengths in bytes.  CHECK_SIZE_16 emits 66h, CHECK_SIZE_64 REX.W.
Prefix(size) == IF size \in {2, 8} THEN 1 ELSE 0

\* Prefix, opcode, ModRM: register to register, or memory at a register.
Plain(size) == Prefix(size) + 2

\* The same and an immediate, which has at most four bytes.
WithImm(size) == Plain(size) + IF size = 8 THEN 4 ELSE size

Shld == Prefix(8) + 4
JumpLength == 5
JccLength  == 6
CallLength == 5
RetnLength == 1

\* mov <int64_t>: mov of the high half, then twice shld and or.
MovImm64 == WithImm(4) + 2 * (Shld + WithImm(8))
MovImm(size) == IF size = 8 THEN MovImm64 ELSE WithImm(size)

\* push of 64 bits: twice sub rsp and mov [rsp], which takes a SIB byte.
PushImm64 == 2 * (WithImm(8) + WithImm(4) + 1)

\* rcx and rdx, then r8 and r9, which need a REX prefix for every instruction.
ParameterPushLength ==
  WithImm(8) + 2 * (WithImm(4) + Shld + WithImm(4))
             + 2 * (WithImm(8) + Shld + WithImm(4) + 1)

\* CALL_MEMBER: mov rax, ParameterPush, call rax, add rsp.
CallMember == MovImm64 + ParameterPushLength + Plain(8) + WithImm(8)

\* push rax, mov rax, &run_line_, inc [rax], pop rax; DEFAULT_BODY goes without
\* push and pop.
IncLine == MovImm64 + Plain(8)
IncLineSaved == IncLine + 2 * Plain(8)

-----------------------------------------------------------------------------
\* Values.  Registers are unsigned here; a half is negative when its top bit is
\* set.
Low(v)  == v % Half
High(v) == v \div Half

\* shld r, r, 16: a rotation to the left by a quarter.
Rotate(v) == ((v * Quarter) % Full) + (v \div (Full \div Quarter))

\* or with an immediate of a quarter, where the register has zeros.
OrLow(v, q) == v - (v % Quarter) + q

\* mov <int64_t> (reg, imm).  mov of 32 bits clears the upper half.
LoadImm(v) ==
  OrLow(Rotate(OrLow(Rotate(High(v)), (v \div Quarter) % Quarter)), v % Quarter)

\* mov of 64 bits extends an immediate of 32, shld r, r, 32 swaps the halves, and
\* or of 32 bits, here into a half of zeros or of ones, clears the other half.
Extended(h) == IF h < Half \div 2 THEN h ELSE h + (Half - 1) * Half
Swap(v) == High(v) + Low(v) * Half
OrHalf(v, h) == IF Low(v) = 0 THEN h ELSE Half - 1

\* Mutant: a shift instead of the rotation, and no end of the register.
ParameterHighShifted(v) == Extended(High(v)) * Half + Low(v)

\* ParameterPush for p1 and p2, whose mov has 32 bits, and for p3 and p4.
ParameterLow(v)  == OrHalf(Swap(High(v)), Low(v))
ParameterHigh(v) == OrHalf(Swap(Extended(High(v))), Low(v))
=============================================================================
