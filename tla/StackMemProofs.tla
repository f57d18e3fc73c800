--------------------------- MODULE StackMemProofs ---------------------------
(***************************************************************************)
(* The stack library is type correct, its two counters agree, a broken stack *)
(* stays broken, and the implementation refines LifoStack, for every element *)
(* set and every bound.                                                      *)
(***************************************************************************)
EXTENDS StackMem, SequenceTheorems, TLAPS

\* The inductive invariant.  A broken stack's last call threw: without it a
\* destruction after the overflow could follow a call that returned.
IInv ==
  /\ TypeOK
  /\ CountsAgree
  /\ ~ok => last.end = "threw"

-----------------------------------------------------------------------------
\* The block GetMem leaves: the old cells, then one with nothing in it.
LEMMA GrownBlock ==
  ASSUME IInv, ok
  PROVE  /\ Grown \in Seq(Cell)
         /\ Len(Grown) = currSize + 1
         /\ \A i \in 1 .. currSize : Grown[i] = data[i]
  <1>1. data \in Seq(Cell) /\ Len(data) = currSize /\ Junk \in Cell
    BY DEF IInv, TypeOK, CountsAgree, Cell
  <1> QED
    BY <1>1 DEF Grown

\* The block a successful push leaves: the old cells, then the element.
LEMMA StoredBlock ==
  ASSUME IInv, ok, NEW v \in Value
  PROVE  LET stored == [Grown EXCEPT ![currSize_ + 1] = v]
         IN  /\ stored \in Seq(Cell)
             /\ Len(stored) = currSize + 1
             /\ \A i \in 1 .. currSize : stored[i] = data[i]
             /\ stored[currSize + 1] = v
  <1>1. /\ data \in Seq(Cell) /\ Len(data) = currSize /\ currSize = currSize_
        /\ Junk \in Cell /\ v \in Cell
    BY DEF IInv, TypeOK, CountsAgree, Cell
  <1> QED
    BY <1>1 DEF Grown

\* The block a successful pop leaves: the old cells without the last.
LEMMA ShrunkBlock ==
  ASSUME IInv, ok, currSize_ > 0
  PROVE  LET shrunk == [i \in 1 .. currSize - 1 |-> data[i]]
         IN  /\ shrunk \in Seq(Cell)
             /\ Len(shrunk) = currSize - 1
             /\ \A i \in 1 .. currSize - 1 : shrunk[i] = data[i]
  <1>1. data \in Seq(Cell) /\ Len(data) = currSize /\ currSize = currSize_
    BY DEF IInv, TypeOK, CountsAgree
  <1> QED
    BY <1>1

-----------------------------------------------------------------------------
\* The inductive invariant holds of a new stack.
LEMMA InitIInv == Init => IInv
  <1> SUFFICES ASSUME Init PROVE IInv
    OBVIOUS
  <1>1. Wild \subseteq Value /\ MaxElements \in Nat \ {0}
    BY StackMemAssumption
  <1>2. data \in Seq(Cell) /\ Len(data) = 0
    BY EmptySeq DEF Init
  <1>3. last \in [op : {"ctor"}, end : {"returned"}, val : Value, records : 0 .. 4]
    BY <1>1 DEF Init
  <1>4. TypeOK
    BY <1>2, <1>3 DEF Init, TypeOK
  <1>5. ok
    BY <1>1 DEF Init, ok
  <1>6. CountsAgree
    BY <1>2, <1>5 DEF Init, CountsAgree
  <1> QED
    BY <1>4, <1>5, <1>6 DEF IInv

\* What a call records is a legal record, whatever the call did.
LEMMA EndsType ==
  ASSUME NEW op \in {"push", "pop", "top", "at"},
         NEW end \in {"returned", "threw", "fault"},
         NEW v \in Value, NEW n \in 0 .. 4, Ends(op, end, v, n)
  PROVE  /\ last' \in [op : {"ctor", "push", "pop", "top", "at"},
                       end : {"returned", "threw", "fault"}, val : Value, records : 0 .. 4]
         /\ last'.end = end
         /\ life' \in {"live", "crashed"}
  BY DEF Ends

\* A call that leaves the block alone preserves the invariant, provided it
\* throws when the stack is broken.
LEMMA BlockUnchanged ==
  ASSUME IInv, UNCHANGED block,
         NEW op \in {"push", "pop", "top", "at"},
         NEW end \in {"returned", "threw", "fault"},
         NEW v \in Value, NEW n \in 0 .. 4, Ends(op, end, v, n),
         ~ok => end = "threw"
  PROVE  IInv'
  <1>1. TypeOK'
    BY EndsType DEF IInv, TypeOK, block
  <1>2. ok' <=> ok
    BY DEF ok, block
  <1>3. CountsAgree'
    BY <1>2 DEF IInv, CountsAgree, block
  <1> QED
    BY <1>1, <1>2, <1>3, EndsType DEF IInv

\* Every call, and the destruction, preserves the inductive invariant.
LEMMA NextIInv == IInv /\ [Next]_vars => IInv'
  <1> SUFFICES ASSUME IInv, [Next]_vars PROVE IInv'
    OBVIOUS
  <1> USE StackMemAssumption
  <1>0. last.val \in Value
    BY DEF IInv, TypeOK
  <1>1. ASSUME NEW v \in Value, Push(v) PROVE IInv'
    <2>1. CASE NotOk("push", v)
      BY <2>1, BlockUnchanged DEF NotOk
    <2>2. CASE BadAlloc("push", v)
      BY <2>2, BlockUnchanged DEF BadAlloc
    <2>3. CASE Store(v)
      <3>1. /\ data' \in Seq(Cell) /\ Len(data') = currSize' /\ currSize' = currSize + 1
            /\ \A i \in 1 .. currSize : data'[i] = data[i]
            /\ data'[currSize + 1] = v
        BY <2>3, StoredBlock DEF Store, GetMem1
      <3>2. currSize \in Nat /\ currSize_' = currSize' /\ currSize = currSize_
        BY <2>3, <3>1 DEF Store, IInv, CountsAgree, TypeOK
      <3>3. ok'
        BY <2>3 DEF Store, GetMem1, ok
      <3>4. TypeOK'
        BY <2>3, <3>1, <3>2, EndsType DEF Store, GetMem1, IInv, TypeOK
      <3>5. CountsAgree'
        BY <2>3, <3>1, <3>2, <3>3 DEF Store, GetMem1, IInv, CountsAgree
      <3> QED
        BY <3>3, <3>4, <3>5 DEF IInv
    <2>4. CASE Overflow(v)
      <3>1. /\ data' \in Seq(Cell) /\ Len(data') = currSize' /\ currSize' = currSize + 1
            /\ \A i \in 1 .. currSize : data'[i] = data[i]
        BY <2>4, GrownBlock DEF Overflow, GetMem1
      <3>2. currSize \in Nat /\ currSize_' = currSize /\ currSize = currSize_
        BY <2>4 DEF Overflow, IInv, CountsAgree, TypeOK
      <3>3. currSize = MaxElements /\ ~ok'
        BY <2>4, <3>2 DEF Overflow, GetMem1, ok
      <3>4. TypeOK'
        BY <2>4, <3>1, <3>2, EndsType DEF Overflow, GetMem1, IInv, TypeOK
      <3>5. CountsAgree'
        BY <2>4, <3>1, <3>2, <3>3 DEF Overflow, GetMem1, IInv, CountsAgree
      <3> QED
        BY <2>4, <3>4, <3>5, EndsType DEF IInv, Overflow
    <2> QED
      BY <1>1, <2>1, <2>2, <2>3, <2>4 DEF Push
  <1>2. ASSUME Pop PROVE IInv'
    <2>1. CASE NotOk("pop", last.val)
      BY <1>0, <2>1, BlockUnchanged DEF NotOk
    <2>2. CASE PopEmpty
      BY <1>0, <2>2, BlockUnchanged DEF PopEmpty
    <2>3. CASE Remove
      <3>1. /\ currSize \in Nat /\ currSize = currSize_ /\ currSize > 0
            /\ data[currSize_] \in Value
        BY <2>3 DEF Remove, IInv, CountsAgree, TypeOK
      <3>2. Narrow(data[currSize_]) \in Value
        BY <3>1
      <3>3. /\ data' \in Seq(Cell) /\ Len(data') = currSize' /\ currSize' = currSize - 1
            /\ \A i \in 1 .. currSize' : data'[i] = data[i]
            /\ allocated' \in BOOLEAN
            /\ ~allocated' => currSize' = 0
        <4>1. CASE 1 >= currSize
          <5>1. data' = <<>> /\ currSize' = 0 /\ allocated' = FALSE /\ currSize = 1
            BY <2>3, <3>1, <4>1 DEF Remove, FreeMem1
          <5>2. data' \in Seq(Cell) /\ Len(data') = 0
            BY <5>1, EmptySeq
          <5>3. 1 .. currSize' = {}
            BY <5>1
          <5>4. currSize' = currSize - 1
            BY <5>1
          <5> QED
            BY <5>1, <5>2, <5>3, <5>4
        <4>2. CASE ~ (1 >= currSize)
          BY <2>3, <3>1, <4>2, ShrunkBlock DEF Remove, FreeMem1, IInv, TypeOK, CountsAgree
        <4> QED
          BY <4>1, <4>2
      <3>4. ok'
        <4>1. currSize <= MaxElements
          BY <2>3 DEF Remove, ok
        <4>2. currSize' <= MaxElements
          BY <3>1, <3>3, <4>1
        <4> QED
          BY <3>3, <4>2 DEF ok
      <3>5. currSize_' = currSize'
        BY <2>3, <3>1, <3>3 DEF Remove
      <3>6. TypeOK'
        <4>1. Ends("pop", "returned", Narrow(data[currSize_]), 0)
          BY <2>3 DEF Remove
        <4> QED
          BY <3>1, <3>2, <3>3, <3>5, <4>1, EndsType DEF TypeOK
      <3>7. CountsAgree'
        BY <3>1, <3>3, <3>4, <3>5 DEF IInv, CountsAgree
      <3> QED
        BY <3>4, <3>6, <3>7 DEF IInv
    <2>4. CASE RemoveBadAlloc
      BY <1>0, <2>4, BlockUnchanged DEF RemoveBadAlloc, BadAlloc
    <2> QED
      BY <1>2, <2>1, <2>2, <2>3, <2>4 DEF Pop
  <1>3. ASSUME Peek PROVE IInv'
    <2>1. CASE NotOk("top", last.val)
      BY <1>0, <2>1, BlockUnchanged DEF NotOk
    <2>2. CASE ReadTop
      <3>1. PICK v \in Value, end \in {"returned", "fault"} : Ends("top", end, v, 0)
        <4>1. CASE currSize_ > 0
          BY <2>2, <4>1 DEF ReadTop, IInv, CountsAgree, TypeOK
        <4>2. CASE ~ (currSize_ > 0)
          BY <1>0, <2>2, <4>2 DEF ReadTop
        <4> QED
          BY <4>1, <4>2
      <3> QED
        BY <2>2, <3>1, BlockUnchanged DEF ReadTop
    <2> QED
      BY <1>3, <2>1, <2>2 DEF Peek
  <1>4. ASSUME NEW i \in 0 .. MaxElements, At(i) PROVE IInv'
    <2>1. CASE NotOk("at", last.val)
      BY <1>0, <2>1, BlockUnchanged DEF NotOk
    <2>2. CASE ~NotOk("at", last.val) /\ (i >= currSize_ \/ i < 0)
      BY <1>0, <1>4, <2>2, BlockUnchanged DEF At
    <2>3. CASE ~NotOk("at", last.val) /\ ~ (i >= currSize_ \/ i < 0)
      <3>1. data[i + 1] \in Value
        BY <2>3 DEF IInv, CountsAgree, TypeOK
      <3> QED
        BY <1>4, <2>3, <3>1, BlockUnchanged DEF At
    <2> QED
      BY <2>1, <2>2, <2>3
  <1>5. CASE Destroy
    <2>1. TypeOK'
      BY <1>5 DEF Destroy, block, IInv, TypeOK
    <2>2. UNCHANGED ok
      BY <1>5 DEF Destroy, block, ok
    <2>3. CountsAgree'
      BY <1>5, <2>2 DEF Destroy, block, IInv, CountsAgree
    <2> QED
      BY <1>5, <2>1, <2>2, <2>3 DEF Destroy, IInv
  <1>6. CASE UNCHANGED vars
    BY <1>6 DEF vars, IInv, TypeOK, CountsAgree, ok
  <1> QED
    BY <1>1, <1>2, <1>3, <1>4, <1>5, <1>6 DEF Next

-----------------------------------------------------------------------------
\* The inductive invariant holds throughout.
LEMMA Invariant == Spec => []IInv
  BY InitIInv, NextIInv, PTL DEF Spec

\* Every call ends in a state of the declared types; in particular no call ever
\* hands out a cell in which nothing was constructed.
THEOREM TypeCorrect == Spec => []TypeOK
  <1>1. IInv => TypeOK
    BY DEF IInv
  <1> QED
    BY <1>1, Invariant, PTL

\* DynamicMem's cell count and Array's element count never drift apart, but for
\* the one cell an overflow leaves behind.
THEOREM CountsCorrect == Spec => []CountsAgree
  <1>1. IInv => CountsAgree
    BY DEF IInv
  <1> QED
    BY <1>1, Invariant, PTL

\* After an overflow every later call of the stack throws and its destructor
\* ends the process: the check in DynamicMem::ok stays false.
THEOREM BrokenStaysBroken == Spec => BrokenForever
  <1>1. ASSUME IInv, ~ok, [Next]_vars
        PROVE  [/\ UNCHANGED block /\ last'.end = "threw" /\ life' # "destroyed"]_vars
    <2>1. ASSUME NEW v \in Value, Push(v)
          PROVE  UNCHANGED block /\ last'.end = "threw" /\ life' # "destroyed"
      BY <1>1, <2>1 DEF Push, NotOk, BadAlloc, Store, Overflow, Ends
    <2>2. ASSUME Pop
          PROVE  UNCHANGED block /\ last'.end = "threw" /\ life' # "destroyed"
      BY <1>1, <2>2 DEF Pop, NotOk, PopEmpty, Remove, RemoveBadAlloc, BadAlloc, Ends
    <2>3. ASSUME Peek
          PROVE  UNCHANGED block /\ last'.end = "threw" /\ life' # "destroyed"
      BY <1>1, <2>3 DEF Peek, NotOk, ReadTop, Ends
    <2>4. ASSUME NEW i \in 0 .. MaxElements, At(i)
          PROVE  UNCHANGED block /\ last'.end = "threw" /\ life' # "destroyed"
      BY <1>1, <2>4 DEF At, NotOk, Ends
    <2>5. ASSUME Destroy
          PROVE  UNCHANGED block /\ last'.end = "threw" /\ life' # "destroyed"
      BY <1>1, <2>5 DEF Destroy, IInv
    <2> QED
      BY <1>1, <2>1, <2>2, <2>3, <2>4, <2>5 DEF Next
  <1>2. IInv /\ [Next]_vars =>
          [~ok => /\ UNCHANGED block /\ last'.end = "threw" /\ life' # "destroyed"]_vars
    BY <1>1
  <1> QED
    BY <1>2, Invariant, PTL DEF Spec, BrokenForever
-----------------------------------------------------------------------------
\* The refinement.  What the first n elements of a sequence are.
LEMMA PrefixElements ==
  ASSUME NEW S, NEW d \in Seq(S), NEW n \in 0 .. Len(d)
  PROVE  /\ SubSeq(d, 1, n) \in Seq(S)
         /\ Len(SubSeq(d, 1, n)) = n
         /\ \A i \in 1 .. n : SubSeq(d, 1, n)[i] = d[i]
  OBVIOUS

\* Two prefixes with the same elements are the same sequence.
LEMMA SamePrefix ==
  ASSUME NEW S, NEW d \in Seq(S), NEW e \in Seq(S),
         NEW n \in 0 .. Len(d), n <= Len(e), \A i \in 1 .. n : e[i] = d[i]
  PROVE  SubSeq(e, 1, n) = SubSeq(d, 1, n)
  <1>1. n \in 0 .. Len(e)
    OBVIOUS
  <1>2. \A i \in 1 .. n : SubSeq(e, 1, n)[i] = SubSeq(d, 1, n)[i]
    BY <1>1, PrefixElements
  <1>3. /\ SubSeq(e, 1, n) \in Seq(S) /\ Len(SubSeq(e, 1, n)) = n
        /\ SubSeq(d, 1, n) \in Seq(S) /\ Len(SubSeq(d, 1, n)) = n
    BY <1>1, PrefixElements
  <1> QED
    BY <1>2, <1>3, SeqEqual

\* A prefix one longer is the prefix with the next element appended.
LEMMA LongerPrefix ==
  ASSUME NEW S, NEW d \in Seq(S), NEW e \in Seq(S), NEW n \in 0 .. Len(d),
         n + 1 <= Len(e), \A i \in 1 .. n : e[i] = d[i]
  PROVE  SubSeq(e, 1, n + 1) = Append(SubSeq(d, 1, n), e[n + 1])
  <1> DEFINE a == SubSeq(d, 1, n)
             b == Append(a, e[n + 1])
             c == SubSeq(e, 1, n + 1)
  <1>1. n + 1 \in 0 .. Len(e) /\ e[n + 1] \in S /\ n \in Nat
    OBVIOUS
  <1>2. a \in Seq(S) /\ Len(a) = n /\ \A i \in 1 .. n : a[i] = d[i]
    BY PrefixElements
  <1>3. c \in Seq(S) /\ Len(c) = n + 1 /\ \A i \in 1 .. n + 1 : c[i] = e[i]
    BY <1>1, PrefixElements
  <1> HIDE DEF a, c
  <1>4. b \in Seq(S) /\ Len(b) = n + 1 /\ b[n + 1] = e[n + 1]
        /\ \A i \in 1 .. n : b[i] = a[i]
    BY <1>1, <1>2
  <1> HIDE DEF b
  <1>5. ASSUME NEW i \in 1 .. Len(c) PROVE c[i] = b[i]
    <2>1. CASE i = n + 1
      BY <2>1, <1>3, <1>4
    <2>2. CASE i # n + 1
      <3>1. i \in 1 .. n /\ i \in 1 .. n + 1
        BY <2>2, <1>1, <1>3
      <3>2. e[i] = d[i]
        BY <3>1
      <3>3. c[i] = e[i] /\ b[i] = a[i] /\ a[i] = d[i]
        BY <3>1, <1>2, <1>3, <1>4
      <3> QED
        BY <3>2, <3>3
    <2> QED
      BY <2>1, <2>2
  <1>6. c = b
    BY <1>3, <1>4, <1>5, SeqEqual
  <1> QED
    BY <1>6 DEF a, b, c

\* A prefix one shorter is the prefix without its last element.
LEMMA ShorterPrefix ==
  ASSUME NEW S, NEW d \in Seq(S), NEW e \in Seq(S), NEW n \in 1 .. Len(d),
         n - 1 <= Len(e), \A i \in 1 .. n - 1 : e[i] = d[i]
  PROVE  SubSeq(e, 1, n - 1) =
           SubSeq(SubSeq(d, 1, n), 1, Len(SubSeq(d, 1, n)) - 1)
  <1> DEFINE a == SubSeq(d, 1, n)
  <1>1. a \in Seq(S) /\ Len(a) = n /\ \A i \in 1 .. n : a[i] = d[i]
    BY PrefixElements
  <1> HIDE DEF a
  <1>2. n - 1 \in 0 .. Len(a) /\ n - 1 <= Len(e)
        /\ \A i \in 1 .. n - 1 : e[i] = a[i]
    BY <1>1
  <1>3. SubSeq(e, 1, n - 1) = SubSeq(a, 1, n - 1)
    BY <1>1, <1>2, SamePrefix
  <1> QED
    BY <1>1, <1>3 DEF a

\* A new stack is the empty stack of LifoStack.
LEMMA InitRefines == Init => Abstract!Init
  <1> SUFFICES ASSUME Init PROVE Abstract!Init
    OBVIOUS
  <1>1. ok
    BY StackMemAssumption DEF Init, ok
  <1>2. Contents = <<>>
    BY DEF Init, Contents
  <1> QED
    BY <1>1, <1>2 DEF Init, Abstract!Init, Abstract!EmptyStack

\* The stack LifoStack sees, and what the call actions do to it.
Image == [items |-> Contents, broken |-> ~ok]

\* A call that leaves the block alone leaves the stack alone.
LEMMA ImageUnchanged == UNCHANGED block => UNCHANGED Image
  BY DEF block, Image, Contents, ok

\* The abstract stack seen through the refinement mapping: its depth, its
\* elements and whether it is broken.
LEMMA ImageFacts ==
  ASSUME IInv
  PROVE  /\ Contents \in Seq(Cell)
         /\ Len(Contents) = currSize_
         /\ \A i \in 1 .. currSize_ : Contents[i] = data[i]
         /\ Abstract!Depth(Image) = currSize_
         /\ currSize_ > 0 => Abstract!TopOf(Image) = data[currSize_]
  <1>1. data \in Seq(Cell) /\ currSize_ \in 0 .. Len(data)
    BY StackMemAssumption DEF IInv, TypeOK, CountsAgree
  <1>2. /\ Contents \in Seq(Cell) /\ Len(Contents) = currSize_
        /\ \A i \in 1 .. currSize_ : Contents[i] = data[i]
    BY <1>1, PrefixElements DEF Contents
  <1> QED
    BY <1>1, <1>2 DEF Image, Abstract!Depth, Abstract!TopOf

\* The step of LifoStack a call with a given outcome takes.
LEMMA CallStep ==
  ASSUME NEW op, NEW outcomes, NEW o \in outcomes, life = "live",
         Image' = o.st, Ends(op, o.end, o.val, o.records)
  PROVE  Abstract!Call(op, outcomes)
  BY DEF Ends, Abstract!Call, Image

\* The outcomes of a broken stack and of a failed allocation, for any call.
LEMMA NotOkRefines ==
  ASSUME NEW op, NEW v, NotOk(op, v), life = "live"
  PROVE  Abstract!Call(op, {Abstract!Threw(Image, v, Abstract!BrokenCost)})
  <1>1. UNCHANGED Image
    BY ImageUnchanged DEF NotOk
  <1> QED
    BY <1>1 DEF NotOk, Ends, Abstract!Call, Abstract!Threw, Abstract!BrokenCost, Image

\* Each way a push of the three layers may end is a push of LifoStack.
LEMMA PushRefines ==
  ASSUME IInv, IInv', NEW v \in Value, Push(v)
  PROVE  Abstract!Push(v)
  <1> USE DEF Abstract!Push, Abstract!PushOutcomes
  <1>0. life = "live" /\ (Image.broken <=> ~ok) /\ Image.items = Contents
    BY DEF Push, Image
  <1>1. CASE NotOk("push", v)
    <2>1. Image.broken
      BY <1>0, <1>1 DEF NotOk
    <2> QED
      BY <1>0, <1>1, <2>1, NotOkRefines DEF Image
  <1>2. CASE BadAlloc("push", v)
    <2> DEFINE o == Abstract!Threw(Image, v, Abstract!FailureCost)
    <2>1. o \in Abstract!PushOutcomes(Image, v)
      BY <1>0, <1>2 DEF BadAlloc, Abstract!AllocFailure
    <2>2. Image' = o.st
      BY <1>2, ImageUnchanged DEF BadAlloc, Abstract!Threw
    <2>3. Ends("push", o.end, o.val, o.records)
      BY <1>2 DEF BadAlloc, Abstract!Threw, Abstract!FailureCost
    <2> HIDE DEF o
    <2> QED
      BY <1>0, <2>1, <2>2, <2>3, CallStep DEF Image
  <1>3. CASE Store(v)
    <2> DEFINE o == Abstract!Returned([Image EXCEPT !.items = Append(@, v)], v)
    <2>1. /\ data \in Seq(Cell) /\ data' \in Seq(Cell) /\ currSize = currSize_
          /\ currSize_ \in 0 .. Len(data) /\ currSize_ + 1 <= Len(data')
          /\ currSize_' = currSize_ + 1
          /\ \A i \in 1 .. currSize_ : data'[i] = data[i]
          /\ data'[currSize_ + 1] = v
      BY <1>3, StoredBlock DEF Store, GetMem1, IInv, TypeOK, CountsAgree
    <2>2. Contents' = Append(Contents, v)
      BY <2>1, LongerPrefix DEF Contents
    <2>3. ok /\ ok'
      BY <1>3 DEF Store, GetMem1, ok
    <2>4. Image' = o.st
      BY <2>2, <2>3 DEF Image, Abstract!Returned
    <2>5. Ends("push", o.end, o.val, o.records)
      BY <1>3 DEF Store, Abstract!Returned
    <2>6. Abstract!Depth(Image) < MaxElements
      BY <1>3, <2>1, ImageFacts, StackMemAssumption DEF Store
    <2>7. o \in Abstract!PushOutcomes(Image, v)
      BY <1>0, <2>3, <2>6
    <2> HIDE DEF o
    <2> QED
      BY <1>0, <2>4, <2>5, <2>7, CallStep DEF Image
  <1>4. CASE Overflow(v)
    <2> DEFINE o == Abstract!Threw([Image EXCEPT !.broken = TRUE], v, Abstract!BrokenCost)
    <2>1. /\ data \in Seq(Cell) /\ data' \in Seq(Cell) /\ currSize = currSize_
          /\ currSize_ \in 0 .. Len(data) /\ currSize_ <= Len(data')
          /\ currSize_' = currSize_
          /\ \A i \in 1 .. currSize_ : data'[i] = data[i]
      BY <1>4, GrownBlock DEF Overflow, GetMem1, IInv, TypeOK, CountsAgree
    <2>2. Contents' = Contents
      BY <2>1, SamePrefix DEF Contents
    <2>3. ok /\ ~ok'
      <3>1. ok /\ currSize + 1 > MaxElements /\ currSize' = currSize + 1
        BY <1>4 DEF Overflow, GetMem1
      <3>2. ~ (currSize' <= MaxElements)
        BY <2>1, <3>1, StackMemAssumption
      <3> QED
        BY <3>1, <3>2 DEF ok
    <2>4. Image' = o.st
      BY <2>2, <2>3 DEF Image, Abstract!Threw
    <2>5. Ends("push", o.end, o.val, o.records)
      BY <1>4 DEF Overflow, Abstract!Threw, Abstract!BrokenCost
    <2>6. ~ (Abstract!Depth(Image) < MaxElements)
      BY <1>4, <2>1, ImageFacts, StackMemAssumption DEF Overflow
    <2>7. o \in Abstract!PushOutcomes(Image, v)
      BY <1>0, <2>3, <2>6
    <2> HIDE DEF o
    <2> QED
      BY <1>0, <2>4, <2>5, <2>7, CallStep DEF Image
  <1> QED
    BY <1>1, <1>2, <1>3, <1>4 DEF Push

\* Each way a pop of the three layers may end is a pop of LifoStack.
LEMMA PopRefines ==
  ASSUME IInv, IInv', Pop
  PROVE  Abstract!Pop
  <1> USE DEF Abstract!Pop, Abstract!PopOutcomes
  <1>0. life = "live" /\ (Image.broken <=> ~ok) /\ Image.items = Contents
    BY DEF Pop, Image
  <1>a. Abstract!Depth(Image) = currSize_ /\ currSize_ \in Nat
    BY ImageFacts DEF IInv, TypeOK
  <1>1. CASE NotOk("pop", last.val)
    <2>1. Image.broken
      BY <1>0, <1>1 DEF NotOk
    <2> QED
      BY <1>0, <1>1, <2>1, NotOkRefines DEF Image
  <1>2. CASE PopEmpty
    <2> DEFINE o == Abstract!Threw(Image, last.val, Abstract!FailureCost)
    <2>1. o \in Abstract!PopOutcomes(Image, last.val)
      BY <1>0, <1>a, <1>2 DEF PopEmpty
    <2>2. Image' = o.st
      BY <1>2, ImageUnchanged DEF PopEmpty, Abstract!Threw
    <2>3. Ends("pop", o.end, o.val, o.records)
      BY <1>2 DEF PopEmpty, Abstract!Threw, Abstract!FailureCost
    <2> HIDE DEF o
    <2> QED
      BY <1>0, <2>1, <2>2, <2>3, CallStep DEF Image
  <1>3. CASE Remove
    <2> DEFINE o == Abstract!Returned([Image EXCEPT !.items = SubSeq(@, 1, Len(@) - 1)],
                                      Narrow(Abstract!TopOf(Image)))
    <2>1. /\ data \in Seq(Cell) /\ data' \in Seq(Cell) /\ currSize = currSize_
          /\ Len(data) = currSize /\ Len(data') = currSize - 1
          /\ currSize_ \in 1 .. Len(data)
          /\ currSize_' = currSize_ - 1
          /\ \A i \in 1 .. currSize_ - 1 : data'[i] = data[i]
      <3>1. /\ data \in Seq(Cell) /\ data' \in Seq(Cell) /\ currSize = currSize_
            /\ Len(data) = currSize /\ Len(data') = currSize' /\ currSize_ > 0
            /\ currSize_ \in Nat /\ currSize_' = currSize_ - 1
        BY <1>3 DEF Remove, IInv, TypeOK, CountsAgree
      <3>2. CASE 1 >= currSize
        BY <1>3, <3>1, <3>2 DEF Remove, FreeMem1
      <3>3. CASE ~ (1 >= currSize)
        BY <1>3, <3>1, <3>3, ShrunkBlock DEF Remove, FreeMem1
      <3> QED
        BY <3>2, <3>3
    <2>2. Contents' = SubSeq(Contents, 1, Len(Contents) - 1)
      BY <2>1, ShorterPrefix DEF Contents
    <2>3. ok
      BY <1>3 DEF Remove
    <2>4. ok'
      <3>1. currSize' = currSize - 1 /\ currSize \in Nat
        BY <2>1 DEF IInv, CountsAgree, TypeOK
      <3>2. ~allocated' => currSize' = 0
        BY DEF IInv, CountsAgree
      <3>3. currSize <= MaxElements
        BY <2>3 DEF ok
      <3> QED
        BY <3>1, <3>2, <3>3, StackMemAssumption DEF ok
    <2>5. Image' = o.st
      BY <2>2, <2>3, <2>4 DEF Image, Abstract!Returned
    <2>6. Abstract!TopOf(Image) = data[currSize_]
      BY <2>1, ImageFacts
    <2>7. Ends("pop", o.end, o.val, o.records)
      BY <1>3, <2>6 DEF Remove, Abstract!Returned
    <2>8. o \in Abstract!PopOutcomes(Image, last.val)
      <3>1. ~Image.broken /\ Abstract!Depth(Image) # 0
        BY <1>0, <1>a, <2>1, <2>3
      <3> HIDE DEF Abstract!Pop
      <3> QED
        BY <3>1, Zenon
    <2> HIDE DEF o
    <2> QED
      BY <1>0, <2>5, <2>7, <2>8, CallStep DEF Image
  <1>4. CASE RemoveBadAlloc
    <2> DEFINE o == Abstract!Threw(Image, last.val, Abstract!FailureCost)
    <2>1. o \in Abstract!PopOutcomes(Image, last.val)
      <3>1. ok /\ AllocFails /\ currSize_ > 1
        BY <1>4 DEF RemoveBadAlloc, BadAlloc, IInv, CountsAgree
      <3> QED
        BY <1>0, <1>a, <3>1 DEF Abstract!AllocFailure
    <2>2. Image' = o.st
      BY <1>4, ImageUnchanged DEF RemoveBadAlloc, BadAlloc, Abstract!Threw
    <2>3. Ends("pop", o.end, o.val, o.records)
      BY <1>4 DEF RemoveBadAlloc, BadAlloc, Abstract!Threw, Abstract!FailureCost
    <2> HIDE DEF o
    <2> QED
      BY <1>0, <2>1, <2>2, <2>3, CallStep DEF Image
  <1> QED
    BY <1>1, <1>2, <1>3, <1>4 DEF Pop

\* top () of the three layers is the peek of LifoStack.
LEMMA PeekRefines ==
  ASSUME IInv, Peek
  PROVE  Abstract!Peek
  <1> USE DEF Abstract!Peek, Abstract!TopOutcomes
  <1>0. life = "live" /\ (Image.broken <=> ~ok) /\ currSize_ \in Nat
    BY DEF Peek, Image, IInv, TypeOK
  <1>a. /\ Abstract!Depth(Image) = currSize_
        /\ currSize_ > 0 => Abstract!TopOf(Image) = data[currSize_]
    BY ImageFacts
  <1>1. CASE NotOk("top", last.val)
    <2>1. Image.broken
      BY <1>0, <1>1 DEF NotOk
    <2> QED
      BY <1>0, <1>1, <2>1, NotOkRefines DEF Image
  <1>2. CASE ReadTop
    <2>1. PICK o \in Abstract!TopOutcomes(Image, last.val) :
            o.st = Image /\ Ends("top", o.end, o.val, o.records)
      <3>0. ok /\ ~Image.broken
        BY <1>0, <1>2 DEF ReadTop
      <3>1. CASE currSize_ > 0
        <4>1. Ends("top", "returned", data[currSize_], 0)
          BY <1>2, <3>1 DEF ReadTop
        <4>2. Abstract!Returned(Image, data[currSize_])
                \in Abstract!TopOutcomes(Image, last.val)
          BY <1>0, <1>a, <3>0, <3>1
        <4> QED
          BY <4>1, <4>2 DEF Abstract!Returned
      <3>2. CASE ~ (currSize_ > 0) /\ allocated
        <4>1. PICK v \in Wild : Ends("top", "returned", v, 0)
          BY <1>2, <3>2 DEF ReadTop
        <4>2. Abstract!Returned(Image, v) \in Abstract!TopOutcomes(Image, last.val)
          BY <1>0, <1>a, <3>0, <3>2
        <4> QED
          BY <4>1, <4>2 DEF Abstract!Returned
      <3>3. CASE ~ (currSize_ > 0) /\ ~allocated
        <4>1. Ends("top", "fault", last.val, 0)
          BY <1>2, <3>3 DEF ReadTop
        <4>2. Abstract!Faulted(Image, last.val) \in Abstract!TopOutcomes(Image, last.val)
          BY <1>0, <1>a, <3>0, <3>3
        <4> QED
          BY <4>1, <4>2 DEF Abstract!Faulted
      <3> QED
        BY <3>1, <3>2, <3>3
    <2>2. Image' = o.st
      BY <1>2, <2>1, ImageUnchanged DEF ReadTop
    <2> QED
      BY <1>0, <2>1, <2>2, CallStep DEF Image
  <1> QED
    BY <1>1, <1>2 DEF Peek

\* At () of the three layers is the indexed access of LifoStack.
LEMMA AtRefines ==
  ASSUME IInv, NEW i \in 0 .. MaxElements, At(i)
  PROVE  Abstract!At(i)
  <1> USE DEF Abstract!At, Abstract!AtOutcomes
  <1>0. /\ life = "live" /\ (Image.broken <=> ~ok) /\ currSize_ \in Nat
        /\ i \in Nat /\ Image.items = Contents
    <2>1. i \in Nat
      BY StackMemAssumption
    <2>2. currSize_ \in Nat
      BY DEF IInv, TypeOK
    <2> QED
      BY <2>1, <2>2 DEF At, Image
  <1>a. /\ Abstract!Depth(Image) = currSize_
        /\ \A j \in 1 .. currSize_ : Contents[j] = data[j]
    BY ImageFacts
  <1>1. CASE NotOk("at", last.val)
    <2>1. Image.broken
      BY <1>0, <1>1 DEF NotOk
    <2> QED
      BY <1>0, <1>1, <2>1, NotOkRefines DEF Image
  <1>2. CASE ~NotOk("at", last.val)
    <2>0. ok /\ UNCHANGED block /\ ~Image.broken
      BY <1>0, <1>2 DEF At
    <2>1. PICK o \in Abstract!AtOutcomes(Image, i, last.val) :
            o.st = Image /\ Ends("at", o.end, o.val, o.records)
      <3>1. CASE i >= currSize_ \/ i < 0
        <4>1. Ends("at", "threw", last.val, 3)
          BY <1>2, <3>1 DEF At
        <4>2. i \notin 0 .. currSize_ - 1
          BY <1>0, <3>1
        <4>3. Abstract!Threw(Image, last.val, Abstract!FailureCost)
                \in Abstract!AtOutcomes(Image, i, last.val)
          BY <1>a, <2>0, <4>2
        <4> QED
          BY <4>1, <4>3 DEF Abstract!Threw, Abstract!FailureCost
      <3>2. CASE ~ (i >= currSize_ \/ i < 0)
        <4>1. i \in 0 .. currSize_ - 1 /\ Contents[i + 1] = data[i + 1]
          BY <1>0, <1>a, <3>2
        <4>2. Ends("at", "returned", data[i + 1], 0)
          BY <1>2, <3>2 DEF At
        <4>3. Abstract!Returned(Image, data[i + 1])
                \in Abstract!AtOutcomes(Image, i, last.val)
          BY <1>0, <1>a, <2>0, <4>1
        <4> QED
          BY <4>2, <4>3 DEF Abstract!Returned
      <3> QED
        BY <3>1, <3>2
    <2>2. Image' = o.st
      BY <2>0, <2>1, ImageUnchanged
    <2> QED
      BY <1>0, <2>1, <2>2, CallStep DEF Image
  <1> QED
    BY <1>1, <1>2

\* Every step of the implementation is a step of LifoStack or a stutter.
LEMMA NextRefines ==
  IInv /\ IInv' /\ [Next]_vars => [Abstract!Next]_(Abstract!vars)
  <1> SUFFICES ASSUME IInv, IInv', [Next]_vars
               PROVE  Abstract!Next \/ UNCHANGED Abstract!vars
    OBVIOUS
  <1>1. ASSUME NEW v \in Value, Push(v) PROVE Abstract!Next
    BY <1>1, PushRefines DEF Abstract!Next
  <1>2. ASSUME Pop PROVE Abstract!Next
    BY <1>2, PopRefines DEF Abstract!Next
  <1>3. ASSUME Peek PROVE Abstract!Next
    BY <1>3, PeekRefines DEF Abstract!Next
  <1>4. ASSUME NEW i \in 0 .. MaxElements, At(i) PROVE Abstract!Next
    BY <1>4, AtRefines DEF Abstract!Next
  <1>5. ASSUME Destroy PROVE Abstract!Next
    <2>1. UNCHANGED Image
      BY <1>5, ImageUnchanged DEF Destroy
    <2>2. Abstract!Destroy
      BY <1>5, <2>1 DEF Destroy, Abstract!Destroy, Image
    <2> QED
      BY <2>2 DEF Abstract!Next
  <1>6. ASSUME UNCHANGED vars PROVE UNCHANGED Abstract!vars
    BY <1>6 DEF vars, Abstract!vars, Contents, ok
  <1> QED
    BY <1>1, <1>2, <1>3, <1>4, <1>5, <1>6 DEF Next

\* The three layers implement LifoStack: the block that is reallocated by every
\* call, the two counters and the late overflow check show the client a bounded
\* stack whose calls take effect completely or throw and leave it alone.
THEOREM Implements == Spec => ImplementsLifo
  BY InitRefines, NextRefines, Invariant, PTL
     DEF Spec, ImplementsLifo, Abstract!Spec
=============================================================================
