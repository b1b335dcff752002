------------------------------- MODULE Worker -------------------------------
(***************************************************************************)
(* The worker threads: worker_handler and worker_handler_impl.  A worker   *)
(* makes passes over its entries until it is told to stop, its time is up, *)
(* it has made NumRepeat passes or, for a writer, it has created           *)
(* NumWritePaths paths; it leaves with exactly one verdict.                *)
(*                                                                         *)
(* What happens to one entry is abstracted to its outcome: read_entry and  *)
(* write_entry return 0, return an error or throw, and a write may         *)
(* register one more write path.  Every access to state that another       *)
(* thread writes (the signal flag, the statistics) is a step of its own.   *)
(***************************************************************************)
EXTENDS Global, Functions

VARIABLES
  thr,          \* [Thread -> record], the XThread objects
  stat,         \* [Thread -> StatType], the ThreadStat in each XThread
  interrupted,  \* the flag that sigint_handler sets
  what,         \* the number of exceptions recorded by add_exception
  hist          \* history: seconds since creation, entries after SIGINT

Working == {"start", "pass", "intr", "time", "catch"}
Leaving == {"setdone", "settime"}
WorkerPc == {"none", "exited"} \cup Working \cup Leaving

\* The thread exists and has not ended.
Live(t) == thr[t].pc \notin {"none", "exited"}

ThrType == [pc : WorkerPc, i : Nat, repeat : -IntMax - 1 .. IntMax + 1,
            num_complete : Nat, num_interrupted : Nat, num_error : Nat,
            num_write_paths : 0 .. PathsCap]

NewThread == [pc |-> "none", i |-> 0, repeat |-> 0, num_complete |-> 0,
              num_interrupted |-> 0, num_error |-> 0, num_write_paths |-> 0]

HistType == [life : 0 .. AgeCap, late : 0 .. 2]

NewHist == [life |-> 0, late |-> 0]

Verdicts(t) ==
  thr[t].num_complete + thr[t].num_interrupted + thr[t].num_error

\* Mutation: the limit is passed before it is noticed.
IsWriteDoneLate(t) ==
  /\ ~IsReader(t)
  /\ NumWritePaths > 0
  /\ thr[t].num_write_paths > NumWritePaths

IsWriteDone(t) ==
  /\ ~IsReader(t)
  /\ NumWritePaths > 0
  /\ thr[t].num_write_paths >= NumWritePaths

-----------------------------------------------------------------------------
(* One entry.                                                              *)

\* Paths created by this set.  A walk may come across any of them.
Created == SumFunction([t \in Thread |-> thr[t].num_write_paths])

\* The entry at position i of a pass: one kind, or a choice of kinds where
\* the code leaves it open (a random index, an entry that appeared in the
\* tree during the walk).  No kind when the pass is over.
NextKinds(t) ==
  LET fl == Entries(t)
      n  == Len(fl)
      i  == thr[t].i
  IN  IF i < n
      THEN CASE Iter \in {"walk", "ordered"} -> {fl[i + 1]}
             [] Iter = "reverse" -> {fl[n - i]}
             [] Iter = "random"  -> {fl[j] : j \in 1 .. n}
      ELSE IF Iter = "walk" /\ i < n + Created
           THEN {"reg", "dir", "symlink"}
           ELSE {}

\* May the entry be written to?  write_file returns at once when the writer
\* has created all its paths.
Writes(t, kind) == ~IsReader(t) /\ kind \in {"reg", "dir"} /\ ~IsWriteDone(t)

\* Results of read_entry and write_entry with the number of paths they
\* registered.  Looking at the entry may throw, whatever it is; a write can
\* also fail before or after it registered its path.
Outcomes(t, kind) ==
  {[ret |-> "ok", paths |-> IF Writes(t, kind) THEN 1 ELSE 0]}
  \cup [ret : Faults \cap {"throw"}, paths : {0}]
  \cup (IF Writes(t, kind) THEN [ret : Faults, paths : {0, 1}] ELSE {})

MorePaths(n, more) == IF n + more <= PathsCap THEN n + more ELSE n

AfterEntry(ret) == CASE ret = "ok"    -> "intr"
                     [] ret = "error" -> "setdone"
                     [] ret = "throw" -> "catch"

Entry(t) ==
  /\ thr[t].pc = "pass"
  /\ \E kind \in NextKinds(t) : \E o \in Outcomes(t, kind) :
       thr' = [thr EXCEPT
         ![t].pc = AfterEntry(o.ret),
         ![t].num_error = IF o.ret = "error" THEN @ + 1 ELSE @,
         ![t].num_write_paths = MorePaths(@, o.paths)]
  /\ hist' = [hist EXCEPT ![t].late = IF interrupted /\ @ < 2 THEN @ + 1 ELSE @]
  /\ UNCHANGED <<stat, interrupted, what>>

\* The directory iterator itself throws, also before the first entry.
WalkThrows(t) ==
  /\ thr[t].pc = "pass"
  /\ Iter = "walk" /\ "throw" \in Faults
  /\ thr' = [thr EXCEPT ![t].pc = "catch"]
  /\ UNCHANGED <<stat, interrupted, what, hist>>

-----------------------------------------------------------------------------
(* The rest of worker_handler_impl.                                        *)

\* The thread copies its argument, then sets its input path.
Start(t) ==
  /\ thr[t].pc = "start"
  /\ thr' = [thr EXCEPT ![t].pc = "pass"]
  /\ stat' = [stat EXCEPT ![t].ready = TRUE]
  /\ UNCHANGED <<interrupted, what, hist>>

\* Mutation: the pass is not left.
CheckInterruptedFalls(t) ==
  /\ thr[t].pc = "intr"
  /\ thr' = [thr EXCEPT ![t].pc = "time",
                        ![t].num_interrupted = IF interrupted THEN @ + 1 ELSE @]
  /\ UNCHANGED <<stat, interrupted, what, hist>>

\* Mutation: the flag is read once, before the passes.
CheckInterruptedIgnored(t) ==
  /\ thr[t].pc = "intr"
  /\ thr' = [thr EXCEPT ![t].pc = "time"]
  /\ UNCHANGED <<stat, interrupted, what, hist>>

CheckInterrupted(t) ==
  /\ thr[t].pc = "intr"
  /\ thr' = IF interrupted
            THEN [thr EXCEPT ![t].pc = "setdone", ![t].num_interrupted = @ + 1]
            ELSE [thr EXCEPT ![t].pc = "time"]
  /\ UNCHANGED <<stat, interrupted, what, hist>>

CheckTime(t) ==
  /\ thr[t].pc = "time"
  /\ thr' = IF SecElapsed(stat[t])
            THEN [thr EXCEPT ![t].pc = "setdone", ![t].num_complete = @ + 1]
            ELSE [thr EXCEPT ![t].pc = "pass", ![t].i = @ + 1]
  /\ UNCHANGED <<stat, interrupted, what, hist>>

\* Mutation: repeat is not incremented.
NextRepeatStuck(n) == {n}

\* Mutation: repeat runs out of its width.
NextRepeatWide(n) == {n + 1}

\* repeat is an int and its overflow is undefined: in some builds it wraps, in
\* others it was widened for the comparison with a long and goes on.  One value
\* stands for all the numbers above IntMax.
NextRepeat(n) == IF n < IntMax THEN {n + 1} ELSE {-IntMax - 1, IntMax + 1}

\* Mutation: one pass too few.
RepeatsDoneEarly(n) == NumRepeat > 0 /\ n + 1 >= NumRepeat

RepeatsDone(n) == NumRepeat > 0 /\ n >= NumRepeat

EndPass(t) ==
  /\ thr[t].pc = "pass"
  /\ thr[t].i >= Len(Entries(t))
  /\ \E n \in NextRepeat(thr[t].repeat) :
       thr' = IF RepeatsDone(n) \/ IsWriteDone(t)
              THEN [thr EXCEPT ![t].pc = "setdone", ![t].repeat = n,
                               ![t].num_complete = @ + 1]
              ELSE [thr EXCEPT ![t].i = 0, ![t].repeat = n]
  /\ UNCHANGED <<stat, interrupted, what, hist>>

-----------------------------------------------------------------------------
(* The rest of worker_handler.                                             *)

\* Mutation: the worker leaves without set_done.
SetDoneForgotten(t) ==
  /\ thr[t].pc = "setdone"
  /\ thr' = [thr EXCEPT ![t].pc = "settime"]
  /\ UNCHANGED <<stat, interrupted, what, hist>>

SetDone(t) ==
  /\ thr[t].pc = "setdone"
  /\ stat' = [stat EXCEPT ![t].done = TRUE]
  /\ thr' = [thr EXCEPT ![t].pc = "settime"]
  /\ UNCHANGED <<interrupted, what, hist>>

StampEnd(t) ==
  /\ thr[t].pc = "settime"
  /\ stat' = [stat EXCEPT ![t] = SetTimeEnd(@)]
  /\ thr' = [thr EXCEPT ![t].pc = "exited"]
  /\ UNCHANGED <<interrupted, what, hist>>

\* add_exception holds the global lock around its only access to _what.
Catch(t) ==
  /\ thr[t].pc = "catch"
  /\ what' = what + 1
  /\ thr' = [thr EXCEPT ![t].pc = "exited", ![t].num_error = @ + 1]
  /\ UNCHANGED <<stat, interrupted, hist>>

WorkerStep(t) ==
  \/ Start(t) \/ Entry(t) \/ WalkThrows(t) \/ EndPass(t)
  \/ CheckInterrupted(t) \/ CheckTime(t)
  \/ SetDone(t) \/ StampEnd(t) \/ Catch(t)
=============================================================================
