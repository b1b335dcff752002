-------------------------------- MODULE Rng ---------------------------------
(***************************************************************************)
(* The random engine that all threads share without a lock: its            *)
(* initialisation on the first call of get_random_engine, and the draws.   *)
(* main comes first if it fills the random data of Dir, then the workers.  *)
(*                                                                         *)
(* The engine is an array of words and a position; a position beyond the   *)
(* array makes the next draw compute new words.  The accesses are races,   *)
(* undefined in C++: here every one of them is a step, in program order,   *)
(* and the position may be read again or kept in a register.  A position   *)
(* that two draws drive out of the array reads what lies behind it.        *)
(***************************************************************************)
EXTENDS Integers

CONSTANTS
  Worker,    \* the worker threads
  N,         \* bound: words of the engine, std::mt19937::state_size
  MaxDraws   \* bound: draws of one thread

ASSUME RngAssumption ==
  "main" \notin Worker /\ N \in Nat \ {0} /\ MaxDraws \in Nat

VARIABLES
  random, \* opt::random_write_data
  word,   \* the words: made from the "default" seed, or "seeded"
  p,      \* the position of the next draw
  init,   \* the flag of get_random_engine
  th,     \* thread -> where it is, its index, its number of draws
  drawn   \* history: the kinds of words that were drawn

vars == <<random, word, p, init, th, drawn>>

Thread == Worker \cup {"main"}

\* The static engine is constructed, with the default seed, before init is read.
Init ==
  /\ random \in BOOLEAN
  /\ word = [i \in 0 .. N - 1 |-> "default"] /\ p = N
  /\ init = FALSE
  /\ th = [t \in Thread |-> [pc |-> "idle", i |-> 0, n |-> 0]]
  /\ drawn = {}

Goto(t, pc) == th' = [th EXCEPT ![t].pc = pc]

\* Dir is constructed before the threads are created.
MainDone == th["main"].pc = "idle" /\ (random => th["main"].n = MaxDraws)

Call(t) ==
  /\ th[t].pc = "idle" /\ th[t].n < MaxDraws
  /\ IF t = "main" THEN random ELSE MainDone
  /\ Goto(t, "test")
  /\ UNCHANGED <<random, word, p, init, drawn>>

TestInit(t) ==
  /\ th[t].pc = "test"
  /\ th' = [th EXCEPT ![t].pc = IF init THEN "check" ELSE "assign", ![t].i = 0]
  /\ UNCHANGED <<random, word, p, init, drawn>>

\* Mutation: the flag is set before the engine is.
AssignLate(t) ==
  /\ th[t].pc = "assign"
  /\ IF th[t].i < N
     THEN /\ word' = [word EXCEPT ![th[t].i] = "seeded"]
          /\ th' = [th EXCEPT ![t].i = @ + 1]
          /\ init' = TRUE /\ UNCHANGED p
     ELSE p' = N /\ Goto(t, "set") /\ UNCHANGED <<word, init>>
  /\ UNCHANGED <<random, drawn>>

\* engine = std::mt19937(seed_gen()): word by word, then the position.
Assign(t) ==
  /\ th[t].pc = "assign"
  /\ IF th[t].i < N
     THEN /\ word' = [word EXCEPT ![th[t].i] = "seeded"]
          /\ th' = [th EXCEPT ![t].i = @ + 1]
          /\ UNCHANGED p
     ELSE p' = N /\ Goto(t, "set") /\ UNCHANGED word
  /\ UNCHANGED <<random, init, drawn>>

\* Mutation: the flag is not set.
SetInitForgotten(t) ==
  /\ th[t].pc = "set"
  /\ Goto(t, "check")
  /\ UNCHANGED <<random, word, p, init, drawn>>

SetInit(t) ==
  /\ th[t].pc = "set"
  /\ init' = TRUE /\ Goto(t, "check")
  /\ UNCHANGED <<random, word, p, drawn>>

\* A draw with no words left computes new ones from the old.
Check(t) ==
  /\ th[t].pc = "check"
  /\ p' = IF p >= N THEN 0 ELSE p
  /\ th' = [th EXCEPT ![t].pc = "draw", ![t].i = p']
  /\ UNCHANGED <<random, word, init, drawn>>

Draw(t) ==
  /\ th[t].pc = "draw"
  /\ \E i \in {th[t].i, p} :
       /\ th' = [th EXCEPT ![t].pc = "store", ![t].i = i]
       /\ drawn' = drawn \cup {IF i < N THEN word[i] ELSE "behind"}
  /\ UNCHANGED <<random, word, p, init>>

Store(t) ==
  /\ th[t].pc = "store"
  /\ p' = th[t].i + 1
  /\ th' = [th EXCEPT ![t].pc = "idle", ![t].n = @ + 1]
  /\ UNCHANGED <<random, word, init, drawn>>

Step(t) == \/ Call(t) \/ TestInit(t) \/ Assign(t) \/ SetInit(t)
           \/ Check(t) \/ Draw(t) \/ Store(t)

Done == (\A t \in Thread : th[t].pc = "idle") /\ UNCHANGED vars

Next == (\E t \in Thread : Step(t)) \/ Done

Spec == Init /\ [][Next]_vars

-----------------------------------------------------------------------------
(* Properties.                                                             *)

\* However the first calls overlap, nobody draws from the engine as it is before
\* it is seeded: the runs would all be the same.
NeverUnseeded == "default" \notin drawn

\* The engine is seeded once if main draws first.  Otherwise workers may seed it
\* over each other, but each of them only in its first call.
SeededOnce ==
  \A t \in Thread : th[t].pc \in {"assign", "set"} =>
    th[t].n = 0 /\ (random => t = "main")
=============================================================================
