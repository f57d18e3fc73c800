------------------------------ MODULE StackMem ------------------------------
(***************************************************************************)
(* The stack library as its three layers implement it: stack<T> calls       *)
(* Array<T>, which counts the elements (currSize_), and Array inherits      *)
(* DynamicMem<T>, which owns the block (data) and counts the cells it has    *)
(* allocated (currSize).  The block is reallocated on every push and pop.    *)
(* The overflow check, DynamicMem::ok, runs after the block has grown.       *)
(* One action per stack operation; each models the whole call, the checks   *)
(* of the three layers included.                                            *)
(***************************************************************************)
EXTENDS Integers, Sequences

CONSTANTS
  Value, Wild, Narrow(_), MaxElements, AllocFails,   \* as in StackOps
  Junk   \* the contents of a cell that no element was constructed in

ASSUME StackMemAssumption ==
  /\ MaxElements \in Nat \ {0}
  /\ AllocFails \in BOOLEAN
  /\ \A v \in Value : Narrow(v) \in Value
  /\ Wild \subseteq Value
  /\ Junk \notin Value

VARIABLES
  data,       \* the cells of the block DynamicMem::data points to
  allocated,  \* data # nullptr
  currSize,   \* DynamicMem::currSize, cells allocated
  currSize_,  \* Array::currSize_, elements stored
  last,       \* the last call, as in LifoStack
  life

block == <<data, allocated, currSize, currSize_>>
vars  == <<data, allocated, currSize, currSize_, last, life>>

Cell == Value \cup {Junk}

TypeOK ==
  /\ data \in Seq(Cell)
  /\ allocated \in BOOLEAN
  /\ currSize \in Nat
  /\ currSize_ \in Nat
  /\ last \in [op : {"ctor", "push", "pop", "top", "at"}, 
               end : {"returned", "threw", "fault"}, val : Value, records : 0 .. 4]
  /\ life \in {"live", "destroyed", "terminated", "crashed"}

-----------------------------------------------------------------------------
\* DynamicMem::ok, which Array::ok and stack::ok run first in every call.
ok == currSize <= MaxElements /\ (~allocated => currSize = 0)

Ends(op, end, v, n) ==
  /\ last' = [op |-> op, end |-> end, val |-> v, records |-> n]
  /\ life' = IF end = "fault" THEN "crashed" ELSE "live"

\* A call whose first check fails: DynamicMem, Array and stack each add a
\* record, and so does the catch of the called method.
NotOk(op, v) ==
  /\ ~ok
  /\ Ends(op, "threw", v, 4)
  /\ UNCHANGED block

\* operator new throws before data or currSize is assigned.
BadAlloc(op, v) ==
  /\ AllocFails
  /\ ok
  /\ Ends(op, "threw", v, 3)
  /\ UNCHANGED block

\* GetMem (1) allocates a block one cell larger and copies the old cells.
Grown == [i \in 1 .. currSize + 1 |-> IF i <= currSize THEN data[i] ELSE Junk]

GetMem1(newData) ==
  /\ data' = newData
  /\ currSize' = currSize + 1
  /\ allocated' = TRUE

\* The block still fits: Array::push_back constructs the element in it.
Store(v) ==
  /\ ok
  /\ currSize + 1 <= MaxElements
  /\ GetMem1([Grown EXCEPT ![currSize_ + 1] = v])
  /\ currSize_' = currSize_ + 1
  /\ Ends("push", "returned", v, 0)

\* Mutant: the element is counted before the block is known to fit.
OverflowCounted(v) ==
  /\ ok
  /\ currSize + 1 > MaxElements
  /\ GetMem1(Grown)
  /\ currSize_' = currSize_ + 1
  /\ Ends("push", "threw", v, 4)

\* GetMem grows the block, then its closing ok () finds the overflow: the
\* block stays grown, nothing is constructed.
Overflow(v) ==
  /\ ok
  /\ currSize + 1 > MaxElements
  /\ GetMem1(Grown)
  /\ UNCHANGED currSize_
  /\ Ends("push", "threw", v, 4)

Push(v) ==
  /\ life = "live"
  /\ NotOk("push", v) \/ BadAlloc("push", v) \/ Store(v) \/ Overflow(v)

\* Mutant: the element is counted out before the stack is known to have one.
PopEmptyCounted ==
  /\ ok
  /\ currSize_ = 0
  /\ currSize_' = currSize_ - 1
  /\ Ends("pop", "threw", last.val, 3)
  /\ UNCHANGED <<data, allocated, currSize>>

\* Array::pop on an empty stack throws before it touches the block.
PopEmpty ==
  /\ ok
  /\ currSize_ = 0
  /\ Ends("pop", "threw", last.val, 3)
  /\ UNCHANGED block

\* Mutant: the copy starts at the second cell.
FreeMem1Front ==
  IF 1 >= currSize
  THEN data' = <<>> /\ currSize' = 0 /\ allocated' = FALSE
  ELSE data' = [i \in 1 .. currSize - 1 |-> data[i + 1]] /\ currSize' = currSize - 1
       /\ UNCHANGED allocated

\* FreeMem (1): the last cell's block is deleted, a larger one is copied into
\* a block one cell smaller.
FreeMem1 ==
  IF 1 >= currSize
  THEN data' = <<>> /\ currSize' = 0 /\ allocated' = FALSE
  ELSE data' = [i \in 1 .. currSize - 1 |-> data[i]] /\ currSize' = currSize - 1
       /\ UNCHANGED allocated

\* Mutant: pop forgets to check the block first.
RemoveUnchecked ==
  /\ currSize_ > 0
  /\ FreeMem1
  /\ currSize_' = currSize_ - 1
  /\ Ends("pop", "returned", Narrow(data[currSize_]), 0)

\* Array::pop reads the last element, frees its cell and counts it out.
Remove ==
  /\ ok
  /\ currSize_ > 0
  /\ FreeMem1
  /\ currSize_' = currSize_ - 1
  /\ Ends("pop", "returned", Narrow(data[currSize_]), 0)

\* FreeMem allocates only when a smaller block is needed.
RemoveBadAlloc ==
  /\ currSize_ > 0
  /\ currSize > 1
  /\ BadAlloc("pop", last.val)

Pop ==
  /\ life = "live"
  /\ NotOk("pop", last.val) \/ PopEmpty \/ Remove \/ RemoveBadAlloc

\* stack::top dereferences Array::right () = data + (currSize_ - 1).  With no
\* element that is memory before the block, or near nullptr without a block.
ReadTop ==
  /\ ok
  /\ IF currSize_ > 0 THEN Ends("top", "returned", data[currSize_], 0)
     ELSE IF allocated THEN \E v \in Wild : Ends("top", "returned", v, 0)
     ELSE Ends("top", "fault", last.val, 0)
  /\ UNCHANGED block

Peek ==
  /\ life = "live"
  /\ NotOk("top", last.val) \/ ReadTop

At(i) ==
  /\ life = "live"
  /\ \/ NotOk("at", last.val)
     \/ /\ ok
        /\ IF i >= currSize_ \/ i < 0
           THEN Ends("at", "threw", last.val, 3)
           ELSE Ends("at", "returned", data[i + 1], 0)
        /\ UNCHANGED block

\* ~Array runs ok () and rethrows: an exception that leaves a destructor ends
\* the process.  Otherwise ~DynamicMem deletes the block.
Destroy ==
  /\ life = "live"
  /\ life' = IF ok THEN "destroyed" ELSE "terminated"
  /\ UNCHANGED <<block, last>>

-----------------------------------------------------------------------------
Init ==
  /\ data = <<>>
  /\ allocated = TRUE     \* new int8_t [0] is not nullptr
  /\ currSize = 0
  /\ currSize_ = 0
  /\ last \in [op : {"ctor"}, end : {"returned"}, val : Wild, records : {0}]
  /\ life = "live"

Next ==
  \/ \E v \in Value : Push(v)
  \/ Pop
  \/ Peek
  \/ \E i \in 0 .. MaxElements : At(i)
  \/ Destroy

Spec == Init /\ [][Next]_vars

-----------------------------------------------------------------------------
\* The elements the client sees.
Contents == SubSeq(data, 1, currSize_)

(***************************************************************************)
(* The two counters kept by two classes agree: the block has one cell per    *)
(* element, except that an overflow leaves it exactly one cell too large for *)
(* ever; and no cell below the element count is one nothing was constructed  *)
(* in.  (DynamicMem::currSize against Array::currSize_.)                     *)
(***************************************************************************)
CountsAgree ==
  /\ Len(data) = currSize
  /\ ok => currSize = currSize_
  /\ ~ok => currSize_ = MaxElements /\ currSize = MaxElements + 1
  /\ \A i \in 1 .. currSize_ : data[i] \in Value
  /\ ~allocated => currSize = 0

(***************************************************************************)
(* A stack that overflowed once never serves a call again: from then on no   *)
(* call returns, nothing in the block changes, and its destruction ends the  *)
(* process.  (The check in DynamicMem::ok runs after GetMem grew the block   *)
(* and nothing shrinks it back.)                                             *)
(***************************************************************************)
BrokenForever ==
  [][~ok => /\ UNCHANGED block
            /\ last'.end = "threw"
            /\ life' # "destroyed"]_vars

\* The three layers together implement the bounded stack of LifoStack: each
\* call has one of the outcomes promised there.
Abstract == INSTANCE LifoStack WITH
              st <- [items |-> Contents, broken |-> ~ok]

ImplementsLifo == Abstract!Spec

(***************************************************************************)
(* README.md:12 offers the user "a stack": what pop returns is the element   *)
(* that was on top.  (Array::pop reads one byte of it, DynamicArray.cpp:112.)*)
(***************************************************************************)
PopReturnsTop ==
  [][last'.op = "pop" /\ currSize_' = currSize_ - 1
       => last'.val = data[currSize_]]_vars
=============================================================================
