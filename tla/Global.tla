------------------------------- MODULE Global -------------------------------
(***************************************************************************)
(* The options of a run (namespace opt, read only after getopt) and the    *)
(* per-thread statistics object that the worker, the monitor and the main  *)
(* thread share without a lock.                                            *)
(*                                                                         *)
(* Time is counted in whole seconds and only relatively: a stat holds the  *)
(* age of its _time_begin and the signed distance _time_end - _time_begin, *)
(* so that no absolute clock is needed and the state space stays finite.   *)
(***************************************************************************)
EXTENDS Integers, Sequences, FiniteSets

CONSTANTS
  NumReader,      \* opt::num_reader
  NumWriter,      \* opt::num_writer
  NumSet,         \* opt::num_set
  NumRepeat,      \* opt::num_repeat, -1 when the threads repeat for ever
  TimeSecond,     \* opt::time_second after the minutes were added to it
  MonitorInt,     \* opt::monitor_int_second after the same adjustment
  NumWritePaths,  \* opt::num_write_paths
  Iter,           \* opt::path_iter
  Input,          \* the file list of every <path> argument, as kinds
  Faults,         \* how a file operation may fail: "error", "throw"
  CreateFails,    \* how Thread::create may fail: it "returns" an error number
                  \* (POSIX build) or "throws" (std build)
  IntMax,         \* bound: INT_MAX of the build, scaled down
  AgeCap,         \* bound: seconds after which an age stops growing
  PathsCap        \* bound: a longer _write_paths is not told apart, but one
                  \* above a limit is

Kind == {"reg", "dir", "symlink", "ignored"}

ASSUME GlobalAssumption ==
  /\ NumReader \in Nat /\ NumWriter \in Nat /\ NumSet \in Nat
  /\ NumRepeat \in Int /\ (NumRepeat = -1 \/ NumRepeat > 0)
  /\ TimeSecond \in Int /\ MonitorInt \in Int
  /\ NumWritePaths \in Int
  /\ Iter \in {"walk", "ordered", "reverse", "random"}
  /\ Input \in Seq(Seq(Kind)) /\ Input # <<>>
  /\ Faults \subseteq {"error", "throw"}
  /\ CreateFails \subseteq {"returns", "throws"}
  /\ IntMax \in Nat
  /\ AgeCap \in Nat /\ (TimeSecond > 0 => AgeCap > TimeSecond)
  /\ PathsCap \in Nat /\ (NumWritePaths > 0 => PathsCap > NumWritePaths)

NumThread == NumReader + NumWriter

\* A thread is named by its gid, readers first.
Thread == 0 .. NumThread - 1

IsReader(t) == t < NumReader

\* Thread t works on input[gid % input.size()] and its file list.
Entries(t) == Input[(t % Len(Input)) + 1]

-----------------------------------------------------------------------------
(* ThreadStat.  "ready" is is_ready(): _input_path has been set.           *)

StatType == [ready : BOOLEAN, done : BOOLEAN,
             age : 0 .. AgeCap, sec : -AgeCap .. AgeCap]

NewStat == [ready |-> FALSE, done |-> FALSE, age |-> 0, sec |-> 0]

\* Mutation: the end is moved with the begin, the age is kept.
SetTimeBeginKept(s) == [s EXCEPT !.sec = 0]

SetTimeBegin(s) == [s EXCEPT !.sec = s.sec - s.age, !.age = 0]

SetTimeEnd(s) == [s EXCEPT !.sec = s.age]

\* Mutation: the limit is compared with the time between begin and end.
SecElapsedAtEnd(s) == TimeSecond > 0 /\ s.sec > TimeSecond

SecElapsed(s) == TimeSecond > 0 /\ s.age > TimeSecond

\* A second passes.
Older(n) == IF n < AgeCap THEN n + 1 ELSE n
=============================================================================
