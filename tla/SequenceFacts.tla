--------------------------- MODULE SequenceFacts ---------------------------
(***************************************************************************)
(* Sequences of whatever a program may hold: what Append and the front of a   *)
(* sequence are when nothing is known of its elements.                       *)
(***************************************************************************)
EXTENDS Integers, Sequences, SequenceTheorems, WellFoundedInduction, TLAPS

IsSeq(s) == s \in Seq({s[i] : i \in DOMAIN s})

LEMMA OfRange ==
  ASSUME NEW S, NEW s \in Seq(S)
  PROVE  IsSeq(s)
  BY DEF IsSeq

LEMMA AppendIsSeq ==
  ASSUME NEW s, IsSeq(s), NEW v
  PROVE  /\ IsSeq(Append(s, v))
         /\ Len(s) \in Nat /\ Len(Append(s, v)) = Len(s) + 1
         /\ \A i \in 1 .. Len(s) : Append(s, v)[i] = s[i]
         /\ Append(s, v)[Len(s) + 1] = v
  <1> DEFINE T == {s[i] : i \in DOMAIN s} \cup {v}
  <1>1. s \in Seq(T)
    BY DEF IsSeq
  <1>2. v \in T
    OBVIOUS
  <1> HIDE DEF T
  <1>3. Append(s, v) \in Seq(T)
    BY <1>1, <1>2
  <1>4. IsSeq(Append(s, v))
    BY <1>3, OfRange
  <1> QED
    BY <1>1, <1>2, <1>4

LEMMA FrontIsSeq ==
  ASSUME NEW s, IsSeq(s), NEW m \in 0 .. Len(s)
  PROVE  /\ IsSeq(SubSeq(s, 1, m))
         /\ Len(SubSeq(s, 1, m)) = m
         /\ \A i \in 1 .. m : SubSeq(s, 1, m)[i] = s[i]
  <1> DEFINE T == {s[i] : i \in DOMAIN s}
  <1>1. s \in Seq(T)
    BY DEF IsSeq
  <1> HIDE DEF T
  <1>2. /\ SubSeq(s, 1, m) \in Seq(T) /\ Len(SubSeq(s, 1, m)) = m
        /\ \A i \in 1 .. m : SubSeq(s, 1, m)[i] = s[i]
    BY <1>1
  <1> QED
    BY <1>2, OfRange

LEMMA WholeFront ==
  ASSUME NEW s, IsSeq(s)
  PROVE  SubSeq(s, 1, Len(s)) = s /\ SubSeq(s, 1, Len(s) - 0) = s
  <1>1. s \in Seq({s[i] : i \in DOMAIN s})
    BY DEF IsSeq
  <1> QED
    BY <1>1

LEMMA SameSeq ==
  ASSUME NEW a, IsSeq(a), NEW b, IsSeq(b), Len(a) = Len(b),
         \A i \in 1 .. Len(a) : a[i] = b[i]
  PROVE  a = b
  <1> DEFINE S == {a[i] : i \in DOMAIN a} \cup {b[i] : i \in DOMAIN b}
  <1>1. a \in Seq(S) /\ b \in Seq(S)
    BY DEF IsSeq
  <1> HIDE DEF S
  <1> QED
    BY <1>1

LEMMA FrontOfFront ==
  ASSUME NEW s, IsSeq(s), Len(s) > 0, NEW t, t = SubSeq(s, 1, Len(s) - 1), Len(t) > 0
  PROVE  SubSeq(t, 1, Len(t) - 1) = SubSeq(s, 1, Len(s) - 2)
  <1>0. Len(s) \in Nat
    BY DEF IsSeq
  <1> DEFINE m == Len(s) - 1
             n == Len(s) - 2
  <1>1. m \in 0 .. Len(s) /\ (n \in Nat => n \in 0 .. Len(s) /\ n \in 0 .. m /\ n = m - 1)
    BY <1>0
  <1>2. IsSeq(t) /\ Len(t) = m /\ \A i \in 1 .. m : t[i] = s[i]
    BY <1>1, FrontIsSeq
  <1>3. n \in Nat
    BY <1>0, <1>2
  <1>4. /\ IsSeq(SubSeq(t, 1, n)) /\ Len(SubSeq(t, 1, n)) = n
        /\ \A i \in 1 .. n : SubSeq(t, 1, n)[i] = t[i]
    BY <1>1, <1>2, <1>3, FrontIsSeq
  <1>5. /\ IsSeq(SubSeq(s, 1, n)) /\ Len(SubSeq(s, 1, n)) = n
        /\ \A i \in 1 .. n : SubSeq(s, 1, n)[i] = s[i]
    BY <1>1, <1>3, FrontIsSeq
  <1>6. \A i \in 1 .. n : SubSeq(t, 1, n)[i] = SubSeq(s, 1, n)[i]
    BY <1>0, <1>1, <1>2, <1>3, <1>4, <1>5
  <1>7. SubSeq(t, 1, n) = SubSeq(s, 1, n)
    BY <1>4, <1>5, <1>6, SameSeq
  <1>8. Len(t) - 1 = n
    BY <1>0, <1>2
  <1> QED
    BY <1>7, <1>8

-----------------------------------------------------------------------------
\* Induction over the natural numbers, for a set: the theorems of the library are
\* stated for an operator, which no prover here instantiates.
LEMMA LeastOf ==
  ASSUME NEW T, T \subseteq Nat, T # {}
  PROVE  \E x \in T : \A y \in T : x <= y
  <1> DEFINE R == {p \in Nat \X Nat : p[1] < p[2]}
  <1>1. IsWellFoundedOn(R, Nat)
    BY NatLessThanWellFounded DEF OpToRel
  <1>2. \A m, n \in Nat : m < n => <<m, n>> \in R
    OBVIOUS
  <1> HIDE DEF R
  <1>3. \A U : U \subseteq Nat /\ U # {} => \E x \in U : \A y \in U : ~ (<<y, x>> \in R)
    BY <1>1, WFMin
  <1>4. PICK x \in T : \A y \in T : ~ (<<y, x>> \in R)
    BY <1>3
  <1>5. ASSUME NEW y \in T PROVE x <= y
    <2>1. x \in Nat /\ y \in Nat
      OBVIOUS
    <2>2. ~ (y < x)
      BY <1>2, <1>4, <2>1, Zenon
    <2> QED
      BY <2>1, <2>2
  <1> QED
    BY <1>5

LEMMA Induction ==
  ASSUME NEW T, 0 \in T, \A n \in Nat : n \in T => n + 1 \in T
  PROVE  \A n \in Nat : n \in T
  <1> DEFINE U == Nat \ T
  <1> SUFFICES ASSUME U # {} PROVE FALSE
    OBVIOUS
  <1>1. PICK x \in U : \A y \in U : x <= y
    BY LeastOf
  <1>2. x # 0 /\ x - 1 \in Nat
    OBVIOUS
  <1>3. ~ (x - 1 \in U)
    BY <1>1, <1>2
  <1>4. (x - 1) + 1 \in T
    BY <1>2, <1>3
  <1> QED
    BY <1>4
=============================================================================
