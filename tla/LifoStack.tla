----------------------------- MODULE LifoStack -----------------------------
(***************************************************************************)
(* The abstract specification of stack<T>: one client calling one stack,     *)
(* each call having one of the outcomes StackOps allows.  Destroying a       *)
(* broken stack ends the process.                                            *)
(***************************************************************************)
EXTENDS StackOps

VARIABLES
  st,    \* the stack
  last,  \* the last call: its name, how it ended, its value, its records
  life   \* "live", "destroyed", "terminated" or "crashed"

vars == <<st, last, life>>

Call(op, outcomes) ==
  /\ life = "live"
  /\ \E o \in outcomes :
       /\ st' = o.st
       /\ last' = [op |-> op, end |-> o.end, val |-> o.val, records |-> o.records]
       /\ life' = IF o.end = "fault" THEN "crashed" ELSE "live"

Push(v) == Call("push", PushOutcomes(st, v))
Pop     == Call("pop", PopOutcomes(st, last.val))
Peek    == Call("top", TopOutcomes(st, last.val))
At(i)   == Call("at", AtOutcomes(st, i, last.val))

Destroy ==
  /\ life = "live"
  /\ life' = IF st.broken THEN "terminated" ELSE "destroyed"
  /\ UNCHANGED <<st, last>>

Init ==
  /\ st = EmptyStack
  /\ last \in [op : {"ctor"}, end : {"returned"}, val : Wild, records : {0}]
  /\ life = "live"

Next ==
  \/ \E v \in Value : Push(v)
  \/ Pop
  \/ Peek
  \/ \E i \in 0 .. MaxElements : At(i)
  \/ Destroy

Spec == Init /\ [][Next]_vars
=============================================================================
