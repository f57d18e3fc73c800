------------------------------ MODULE StackOps ------------------------------
(***************************************************************************)
(* The promise of the stack library (Stack/StackV2.h over                   *)
(* Stack/DynamicArray.cpp and Stack/MemoryClass.h) as operators: the         *)
(* outcomes a call on a stack may have.  A call takes effect completely or   *)
(* throws and leaves the contents alone.  A push beyond the bound throws and *)
(* breaks the stack: every later call throws too.                            *)
(* LifoStack makes a state machine of them, StackMem implements it, and      *)
(* Interpreter uses them for the two stacks of a running script.             *)
(***************************************************************************)
EXTENDS Integers, Sequences

CONSTANTS
  Value,        \* the elements a client stores
  Wild,         \* what memory outside the block may look like, as an element
  Narrow(_),    \* what Array::pop makes of the element it removes
  MaxElements,  \* DynamicMem::maxElements
  AllocFails    \* whether operator new may throw std::bad_alloc

Stacks == [items : Seq(Value), broken : BOOLEAN]

EmptyStack == [items |-> <<>>, broken |-> FALSE]

Depth(s) == Len(s.items)

TopOf(s) == s.items[Len(s.items)]

(***************************************************************************)
(* An outcome: the stack left behind, how the call ended ("returned",        *)
(* "threw", or "fault" for an access violation), the value it is about and,  *)
(* for a throw, how many exception records the cascade took: one where it    *)
(* started and one per method that rethrew.                                  *)
(***************************************************************************)
Returned(s, v) == [st |-> s, end |-> "returned", val |-> v, records |-> 0]
Threw(s, v, n) == [st |-> s, end |-> "threw", val |-> v, records |-> n]
Faulted(s, v)  == [st |-> s, end |-> "fault", val |-> v, records |-> 0]

\* Recorded by DynamicMem::ok, Array::ok, stack::ok and the method called.
BrokenCost == 4
\* Recorded by the Array or DynamicMem method, its caller in Array, stack.
FailureCost == 3

AllocFailure(s, v) == IF AllocFails THEN {Threw(s, v, FailureCost)} ELSE {}

PushOutcomes(s, v) ==
  IF s.broken THEN {Threw(s, v, BrokenCost)}
  ELSE AllocFailure(s, v) \cup
       {IF Depth(s) < MaxElements
        THEN Returned([s EXCEPT !.items = Append(@, v)], v)
        ELSE Threw([s EXCEPT !.broken = TRUE], v, BrokenCost)}

\* idle is the value recorded when nothing is returned.
PopOutcomes(s, idle) ==
  IF s.broken THEN {Threw(s, idle, BrokenCost)}
  ELSE IF Depth(s) = 0 THEN {Threw(s, idle, FailureCost)}
  ELSE {Returned([s EXCEPT !.items = SubSeq(@, 1, Len(@) - 1)], Narrow(TopOf(s)))}
       \cup IF Depth(s) > 1 THEN AllocFailure(s, idle) ELSE {}

\* top () has no emptiness check: on an empty stack it reads what lies before
\* the block, or faults once the block has been given back.
TopOutcomes(s, idle) ==
  IF s.broken THEN {Threw(s, idle, BrokenCost)}
  ELSE IF Depth(s) = 0 THEN {Returned(s, v) : v \in Wild} \cup {Faulted(s, idle)}
  ELSE {Returned(s, TopOf(s))}

AtOutcomes(s, i, idle) ==
  IF s.broken THEN {Threw(s, idle, BrokenCost)}
  ELSE IF i \in 0 .. Depth(s) - 1 THEN {Returned(s, s.items[i + 1])}
  ELSE {Threw(s, idle, FailureCost)}
=============================================================================
