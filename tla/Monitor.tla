------------------------------ MODULE Monitor -------------------------------
(***************************************************************************)
(* The monitor thread: monitor_handler_impl.  Every MonitorInt seconds it  *)
(* looks at every worker's statistics, stamps the end time of those that   *)
(* are not done, prints, and stops when all are done.  It reads and writes *)
(* the workers' statistics without a lock, one field at a time.            *)
(***************************************************************************)
EXTENDS Worker

VARIABLE mon  \* the monitor's locals

MonitorPc == {"none", "start", "timer", "scan", "stamp", "print", "intr", "time",
              "sleep", "exited"}

MonType == [pc : MonitorPc, age : Nat, k : 0 .. NumThread,
            done : BOOLEAN]

NoMonitor == [pc |-> "none", age |-> 0, k |-> 0, done |-> TRUE]

MonitorLive == mon.pc \notin {"none", "exited"}

\* The monitor changes nothing of the workers but the end time it stamps.
OnlyMon == UNCHANGED <<thr, stat, interrupted, what, hist>>

\* The timer starts with the thread.
MonStart ==
  /\ mon.pc = "start"
  /\ mon' = [mon EXCEPT !.pc = "timer", !.age = 0]
  /\ OnlyMon

\* The timer is only compared with the interval.
MonOlder(n) == IF n < MonitorInt THEN n + 1 ELSE n

\* Timer::elapsed with frequency 0.
Poll ==
  /\ mon.pc = "timer"
  /\ mon' = IF mon.age >= MonitorInt
            THEN [mon EXCEPT !.pc = "scan", !.k = 0, !.done = TRUE]
            ELSE [mon EXCEPT !.pc = "intr"]
  /\ OnlyMon

\* Mutation: the last worker looked at decides.
ScanLast ==
  /\ mon.pc = "scan" /\ mon.k < NumThread
  /\ mon' = IF stat[mon.k].done
            THEN [mon EXCEPT !.k = @ + 1, !.done = TRUE]
            ELSE [mon EXCEPT !.pc = "stamp", !.done = FALSE]
  /\ OnlyMon

\* is_done() of one worker; the stamp that follows is a separate access.
Scan ==
  /\ mon.pc = "scan" /\ mon.k < NumThread
  /\ mon' = IF stat[mon.k].done
            THEN [mon EXCEPT !.k = @ + 1]
            ELSE [mon EXCEPT !.pc = "stamp", !.done = FALSE]
  /\ OnlyMon

Stamp ==
  /\ mon.pc = "stamp"
  /\ stat' = [stat EXCEPT ![mon.k] = SetTimeEnd(@)]
  /\ mon' = [mon EXCEPT !.pc = "scan", !.k = @ + 1]
  /\ UNCHANGED <<thr, interrupted, what, hist>>

ScanEnd ==
  /\ mon.pc = "scan" /\ mon.k = NumThread
  /\ mon' = [mon EXCEPT !.pc = IF mon.done THEN "exited" ELSE "print"]
  /\ OnlyMon

\* print_stat asserts that every input path has been set.
PrintAssert == \A t \in Thread : stat[t].ready

\* print_stat and the timer reset; Dispatch models the failed assertion.
Show ==
  /\ mon.pc = "print" /\ PrintAssert
  /\ mon' = [mon EXCEPT !.pc = "intr", !.age = 0]
  /\ OnlyMon

MonCheckInterrupted ==
  /\ mon.pc = "intr"
  /\ mon' = [mon EXCEPT !.pc = IF interrupted THEN "exited" ELSE "time"]
  /\ OnlyMon

\* The time limit is that of the first thread.
MonCheckTime ==
  /\ mon.pc = "time"
  /\ mon' = [mon EXCEPT !.pc = IF SecElapsed(stat[0]) THEN "exited" ELSE "sleep"]
  /\ OnlyMon

MonitorStep == \/ MonStart \/ Poll \/ Scan \/ Stamp \/ ScanEnd \/ Show
               \/ MonCheckInterrupted \/ MonCheckTime
=============================================================================
