------------------------------ MODULE WriteSet ------------------------------
(***************************************************************************)
(* What the writers of a set promise to each other and to main: a writer   *)
(* registers its write paths one at a time, no more than allowed and none  *)
(* after it has left; the set is over when all have left; the next set     *)
(* begins with nothing registered.  WritePaths implements this with a      *)
(* directory tree below it, Dispatch with threads and limits around it.    *)
(***************************************************************************)
EXTENDS Integers, FiniteSets

CONSTANTS
  Writer,  \* the writers of a set
  Limit    \* paths that a writer may create, none if not positive

VARIABLES
  num,    \* paths registered in this set, by each writer
  left,   \* the writers that have left
  phase   \* "run" until the report, "over" at the report, then "ended"

vars == <<num, left, phase>>

NothingYet == num = [t \in Writer |-> 0] /\ left = {}

Init == NothingYet /\ phase \in {"run", "ended"}

Register(t) ==
  /\ phase = "run" /\ t \notin left
  /\ Limit > 0 => num[t] < Limit
  /\ num' = [num EXCEPT ![t] = @ + 1]
  /\ UNCHANGED <<left, phase>>

Leave(t) ==
  /\ phase = "run" /\ left' = left \cup {t}
  /\ UNCHANGED <<num, phase>>

SetOver ==
  /\ phase = "run" /\ left = Writer
  /\ phase' = "over"
  /\ UNCHANGED <<num, left>>

NextSet == phase = "over" /\ phase' = "run" /\ NothingYet'

\* The program may end at any point.
End == phase' = "ended" /\ UNCHANGED <<num, left>>

Next == (\E t \in Writer : Register(t) \/ Leave(t)) \/ SetOver \/ NextSet \/ End

Spec == Init /\ [][Next]_vars
=============================================================================
