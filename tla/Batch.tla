------------------------------- MODULE Batch --------------------------------
(***************************************************************************)
(* What the dispatch of workers promises, without threads, time or limits: *)
(* a batch is a sequence of sets; in each set every worker gets one        *)
(* verdict, and gets it once; the next set begins when all have theirs and *)
(* none was interrupted; the batch ends well only after its last set or    *)
(* after an interrupted one.                                               *)
(***************************************************************************)
EXTENDS Naturals

CONSTANTS
  Worker,  \* the workers of a set
  Sets     \* the number of sets

VARIABLES
  set,      \* the set that runs, from 0
  verdict,  \* the verdict of every worker in it
  outcome   \* what the batch came to

vars == <<set, verdict, outcome>>

Verdict == {"complete", "interrupted", "error"}

TypeOK ==
  /\ set \in Nat
  /\ verdict \in [Worker -> Verdict \cup {"none"}]
  /\ outcome \in {"running", "ok", "failed"}

Undecided == [w \in Worker |-> "none"]

Init ==
  /\ set = 0
  /\ verdict = Undecided
  /\ outcome = IF Sets = 0 THEN "ok" ELSE "running"

AllDecided == \A w \in Worker : verdict[w] # "none"

Interrupted == \E w \in Worker : verdict[w] = "interrupted"

Decide(w) ==
  /\ outcome = "running"
  /\ verdict[w] = "none"
  /\ \E v \in Verdict : verdict' = [verdict EXCEPT ![w] = v]
  /\ UNCHANGED <<set, outcome>>

NextSet ==
  /\ outcome = "running"
  /\ AllDecided /\ ~Interrupted /\ set + 1 < Sets
  /\ set' = set + 1
  /\ verdict' = Undecided
  /\ UNCHANGED outcome

Finish ==
  /\ outcome = "running"
  /\ AllDecided /\ (Interrupted \/ set + 1 >= Sets)
  /\ outcome' = "ok"
  /\ UNCHANGED <<set, verdict>>

\* An exception or a failed assertion ends the batch at any point.
Fail ==
  /\ outcome = "running"
  /\ outcome' = "failed"
  /\ UNCHANGED <<set, verdict>>

Next == (\E w \in Worker : Decide(w)) \/ NextSet \/ Finish \/ Fail

Spec == Init /\ [][Next]_vars
=============================================================================
