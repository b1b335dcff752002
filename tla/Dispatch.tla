------------------------------ MODULE Dispatch ------------------------------
(***************************************************************************)
(* The whole program once its options are read: the loop over the sets in  *)
(* main, dispatch_worker, the threads it creates and joins, SIGINT and the *)
(* passing of time.                                                        *)
(*                                                                         *)
(* The process ends in "exit0" or "exit1" (exit status 0 or 1), in "abort" *)
(* (a failed assertion), or in "undefined": dispatch_worker returned while *)
(* threads it created were still running on its destroyed objects.  No     *)
(* step follows any of them.                                               *)
(***************************************************************************)
EXTENDS Monitor

VARIABLES
  main,  \* where the main thread is
  k,     \* its loop index over the threads
  set,   \* its loop index over the sets
  res    \* the verdict counts of dispatch_res

mainVars == <<main, k, set, res>>
workVars == <<thr, stat, interrupted, what, hist>>
vars == <<mainVars, workVars, mon>>

Ended == {"exit0", "exit1", "abort", "undefined"}
MainPc == Ended \cup {"setup", "flist", "create_mon", "create", "begin",
                      "join", "join_mon", "collect", "cleanup", "report"}

NoResult == [complete |-> 0, interrupted |-> 0, error |-> 0]
ResType == [complete : Nat, interrupted : Nat, error : Nat]

TypeOK ==
  /\ thr \in [Thread -> ThrType]
  /\ stat \in [Thread -> StatType]
  /\ hist \in [Thread -> HistType]
  /\ interrupted \in BOOLEAN
  /\ what \in Nat
  /\ mon \in MonType
  /\ main \in MainPc /\ k \in Nat /\ set \in Nat
  /\ res \in ResType

Init ==
  /\ thr = [t \in Thread |-> NewThread]
  /\ stat = [t \in Thread |-> NewStat]
  /\ hist = [t \in Thread |-> NewHist]
  /\ interrupted = FALSE /\ what = 0
  /\ mon = NoMonitor
  /\ main = IF NumSet = 0 THEN "exit0" ELSE "setup"
  /\ k = 0 /\ set = 0 /\ res = NoResult

-----------------------------------------------------------------------------
(* dispatch_worker, in program order.                                      *)

\* Nothing to do without threads; otherwise build the thread structures.
Setup ==
  /\ main = "setup"
  /\ res' = NoResult /\ k' = 0
  /\ main' = IF NumThread = 0 THEN "report" ELSE "flist"
  /\ thr' = [t \in Thread |-> NewThread]
  /\ stat' = [t \in Thread |-> NewStat]
  /\ hist' = [t \in Thread |-> NewHist]
  /\ mon' = NoMonitor
  /\ UNCHANGED <<set, interrupted, what>>

FirstCreate == IF MonitorInt > 0 THEN "create_mon" ELSE "create"

\* setup_flist scans the inputs again for every set unless they are walked.  An
\* empty list is an error, so is a flist file line outside the inputs, and main
\* catches an exception.
SetupFlist ==
  /\ main = "flist"
  /\ \/ /\ Iter = "walk" \/ \A n \in DOMAIN Input : Input[n] # <<>>
        /\ main' = FirstCreate /\ UNCHANGED what
     \/ /\ Iter # "walk"
        /\ "error" \in Faults \/ \E n \in DOMAIN Input : Input[n] = <<>>
        /\ main' = "exit1" /\ UNCHANGED what
     \/ /\ Iter # "walk" /\ "throw" \in Faults
        /\ main' = "exit1" /\ what' = what + 1
  /\ UNCHANGED <<k, set, res, thr, stat, interrupted, hist, mon>>

\* Thread creation fails.  A POSIX build returns a positive error number, but
\* main only takes a negative one for an error and goes on with a result that
\* was never filled in.  A std build unwinds dispatch_worker, whose destructors
\* terminate the program if a thread was created and not joined.
EarlyReturn ==
  /\ \/ /\ "returns" \in CreateFails
        /\ main' = IF MonitorLive \/ \E t \in Thread : Live(t)
                   THEN "undefined" ELSE "report"
        /\ UNCHANGED what
     \/ /\ "throws" \in CreateFails
        /\ IF mon.pc # "none" \/ \E t \in Thread : thr[t].pc # "none"
           THEN main' = "abort" /\ UNCHANGED what
           ELSE main' = "exit1" /\ what' = what + 1
  /\ UNCHANGED <<k, set, res, thr, stat, interrupted, hist, mon>>

CreateMonitor ==
  /\ main = "create_mon"
  /\ \/ /\ mon' = [NoMonitor EXCEPT !.pc = "start"]
        /\ main' = "create"
        /\ UNCHANGED <<k, set, res, workVars>>
     \/ EarlyReturn

CreateWorker ==
  /\ main = "create"
  /\ \/ /\ thr' = [thr EXCEPT ![k].pc = "start"]
        /\ hist' = [hist EXCEPT ![k] = NewHist]
        /\ main' = "begin"
        /\ UNCHANGED <<k, set, res, stat, interrupted, what, mon>>
     \/ EarlyReturn

\* k runs over the threads; at the last one main goes on to its next loop.
NextThread(here, next) ==
  IF k + 1 < NumThread THEN main' = here /\ k' = k + 1
                       ELSE main' = next /\ k' = 0

\* set_time_begin comes after the thread was created.
StampBegin ==
  /\ main = "begin"
  /\ stat' = [stat EXCEPT ![k] = SetTimeBegin(@)]
  /\ NextThread("create", "join")
  /\ UNCHANGED <<set, res, thr, interrupted, what, hist, mon>>

\* Mutation: the main thread polls is_done instead of joining.
JoinedWhenDone(t) == stat[t].done \/ ~Live(t)

Joined(t) == ~Live(t)

AfterJoins == IF MonitorInt > 0 THEN "join_mon" ELSE "collect"

JoinWorker ==
  /\ main = "join" /\ Joined(k)
  /\ NextThread("join", AfterJoins)
  /\ UNCHANGED <<set, res, workVars, mon>>

JoinMonitor ==
  /\ main = "join_mon" /\ ~MonitorLive
  /\ main' = "collect"
  /\ UNCHANGED <<k, set, res, workVars, mon>>

\* Mutation: a failed worker is counted among the completed ones.
AddVerdictsMixed(r, t) ==
  [complete    |-> r.complete + thr[t].num_complete + thr[t].num_error,
   interrupted |-> r.interrupted + thr[t].num_interrupted,
   error       |-> r.error]

AddVerdicts(r, t) ==
  [complete    |-> r.complete + thr[t].num_complete,
   interrupted |-> r.interrupted + thr[t].num_interrupted,
   error       |-> r.error + thr[t].num_error]

Total(r) == r.complete + r.interrupted + r.error

\* Sums the verdicts up, and asserts that there is one for every thread.
Collect ==
  /\ main = "collect"
  /\ res' = AddVerdicts(res, k)
  /\ NextThread("collect", IF Total(res') = NumThread THEN "cleanup" ELSE "abort")
  /\ UNCHANGED <<set, workVars, mon>>

\* Unlinking the write paths may throw (module WritePaths has the details).
Cleanup ==
  /\ main = "cleanup"
  /\ \/ main' = "report" /\ UNCHANGED what
     \/ "throw" \in Faults /\ main' = "exit1" /\ what' = what + 1
  /\ UNCHANGED <<k, set, res, thr, stat, interrupted, hist, mon>>

\* Mutation: only the number of sets ends the loop.
AnotherSetAlways == set + 1 < NumSet

\* Mutation: the loop stops on failed workers instead of interrupted ones.
AnotherSetUnlessError == res.error = 0 /\ set + 1 < NumSet

AnotherSet == res.interrupted = 0 /\ set + 1 < NumSet

\* main prints the result; a set with an interrupted worker is the last one.
Report ==
  /\ main = "report"
  /\ IF AnotherSet
     THEN main' = "setup" /\ set' = set + 1
     ELSE main' = "exit0" /\ UNCHANGED set
  /\ UNCHANGED <<k, res, workVars, mon>>

MainStep ==
  \/ Setup \/ SetupFlist \/ CreateMonitor \/ CreateWorker \/ StampBegin
  \/ JoinWorker \/ JoinMonitor \/ Collect \/ Cleanup \/ Report

-----------------------------------------------------------------------------
(* The environment.                                                        *)

Sigint ==
  /\ ~interrupted
  /\ interrupted' = TRUE
  /\ UNCHANGED <<mainVars, thr, stat, what, hist, mon>>

\* A second passes: every age grows, a sleeping monitor wakes up.
Tick ==
  /\ stat' = [t \in Thread |-> [stat[t] EXCEPT !.age = Older(@)]]
  /\ hist' = [t \in Thread |-> [hist[t] EXCEPT !.life = Older(@)]]
  /\ mon' = [mon EXCEPT !.age = MonOlder(@),
                        !.pc = IF @ = "sleep" THEN "timer" ELSE @]
  /\ UNCHANGED <<mainVars, thr, interrupted, what>>

\* The monitor's print_stat finds a worker without an input path.
PrintAborts ==
  /\ mon.pc = "print" /\ ~PrintAssert
  /\ main' = "abort"
  /\ UNCHANGED <<k, set, res, workVars, mon>>

\* The process is gone.
Stopped == main \in Ended /\ UNCHANGED vars

WorkerRuns(t) == main \notin Ended /\ WorkerStep(t) /\ UNCHANGED <<mainVars, mon>>
MonitorRuns == /\ main \notin Ended
               /\ (MonitorStep /\ UNCHANGED mainVars) \/ PrintAborts
TimeRuns == main \notin Ended /\ Tick

Next ==
  \/ \E t \in Thread : WorkerRuns(t)
  \/ MonitorRuns
  \/ MainStep
  \/ main \notin Ended /\ Sigint
  \/ TimeRuns
  \/ Stopped

\* The kernel schedules every runnable thread; the clock runs.  SIGINT need
\* not come, and no fault needs to happen.
Fairness ==
  /\ \A t \in Thread : WF_vars(WorkerRuns(t))
  /\ WF_vars(MonitorRuns)
  /\ WF_vars(MainStep)
  /\ WF_vars(TimeRuns)

Spec == Init /\ [][Next]_vars
FairSpec == Spec /\ Fairness

-----------------------------------------------------------------------------
(* The dispatch seen as a batch of sets.                                   *)

VerdictOf(t) ==
  IF main = "setup" \/ Verdicts(t) = 0 THEN "none"
  ELSE IF thr[t].num_complete > 0 THEN "complete"
  ELSE IF thr[t].num_interrupted > 0 THEN "interrupted"
  ELSE "error"

Outcome == IF main \notin Ended THEN "running"
           ELSE IF main = "exit0" THEN "ok" ELSE "failed"

B == INSTANCE Batch WITH
       Worker <- Thread, Sets <- NumSet, set <- set,
       verdict <- [t \in Thread |-> VerdictOf(t)], outcome <- Outcome

\* The threads, joins and sums of dispatch_worker and the loop in main amount to
\* a batch: verdicts are given once, sets follow each other only when all were
\* given and no worker was interrupted.
BatchSpec == B!Spec

Writers == {t \in Thread : ~IsReader(t)}

PathsSeen == [t \in Writers |-> IF main = "setup" THEN 0 ELSE thr[t].num_write_paths]
LeftSeen == IF main = "setup" THEN {} ELSE {t \in Writers : thr[t].pc = "exited"}
SetPhase == IF main \in Ended THEN "ended" ELSE IF main = "report" THEN "over" ELSE "run"

S == INSTANCE WriteSet WITH
       Writer <- Writers, Limit <- NumWritePaths,
       num <- PathsSeen, left <- LeftSeen, phase <- SetPhase

\* The writers among the threads are a WriteSet, as those of WritePaths are: the
\* one step that stands for a whole write here registers no other paths.
WriteSetSpec == S!Spec

-----------------------------------------------------------------------------
(* Safety.                                                                 *)

Judged == Leaving \cup {"exited"}

\* A worker has no verdict while it works and exactly one once it is leaving,
\* whichever of the signal, the clock, the limits and the failures came first
\* (the counters of XThread, asserted over in dispatch_worker).
OneVerdict ==
  \A t \in Thread : Verdicts(t) = IF thr[t].pc \in Judged THEN 1 ELSE 0

\* The sums that dispatch_worker returns cover every thread, and main learns of
\* an interrupted worker if and only if there is one (it then runs no more
\* sets).  This is the assertion before the results are collected.
ResultComplete ==
  main = "cleanup" =>
    /\ Total(res) = NumThread
    /\ res.interrupted > 0 <=> \E t \in Thread : thr[t].num_interrupted > 0
    /\ res.error > 0 <=> \E t \in Thread : thr[t].num_error > 0

\* No worker and no monitor is running once dispatch_worker is past its joins
\* or has returned: Dir, the XThreads and the arguments live on its stack.
NoThreadOutlives ==
  main \in {"collect", "cleanup", "report", "exit0", "exit1", "undefined"} =>
    ~MonitorLive /\ \A t \in Thread : ~Live(t)

\* Without a time limit a worker completes only because it made all its passes
\* or created all its paths, and it is counted as interrupted only after SIGINT.
VerdictJustified ==
  \A t \in Thread :
    /\ thr[t].num_interrupted > 0 => interrupted
    /\ thr[t].num_complete > 0 /\ TimeSecond <= 0 =>
         \/ NumRepeat > 0 /\ thr[t].repeat >= NumRepeat
         \/ /\ ~IsReader(t) /\ NumWritePaths > 0
            /\ thr[t].num_write_paths >= NumWritePaths

\* After SIGINT a worker of the current set begins at most one more entry.
InterruptPrompt == \A t \in Thread : hist[t].late <= 1

\* No set follows one in which a worker took up an entry after SIGINT, unless
\* that worker failed: the signal reaches main only through the verdicts.
InterruptedSetIsLast ==
  [][main = "report" /\ main' = "setup" =>
       \A t \in Thread : hist[t].late > 0 => thr[t].num_error > 0]_vars

\* The monitor leaves before its workers are done only because of SIGINT or the
\* time limit: its scan is not atomic, but done never becomes false again.
MonitorLeavesLast ==
  mon.pc = "exited" =>
    interrupted \/ TimeSecond > 0 \/ \A t \in Thread : stat[t].done

\* A worker that completes on the time limit has run for longer than it, at least
\* once main has stamped every begin.  (Before, the limit counts from the time its
\* statistics were constructed.)
TimeoutNotEarly ==
  [][\A t \in Thread :
       main \notin {"create", "begin"} /\ thr[t].pc = "time" /\ thr'[t].pc = "setdone" =>
         hist[t].life > TimeSecond]_vars

\* No assertion of the program fails.
NeverAborts == main # "abort"

-----------------------------------------------------------------------------
(* The inductive invariant: what each place in dispatch_worker knows of    *)
(* the threads, the monitor, the sums and the statistics.                  *)

NoneCreated == \A t \in Thread : thr[t].pc = "none"
AllExited == \A t \in Thread : thr[t].pc = "exited"
NoneLive == ~MonitorLive /\ \A t \in Thread : ~Live(t)

PhaseOK ==
  /\ main \in {"create", "begin", "join", "join_mon", "collect"} => k \in Thread
  /\ main \in {"flist", "create_mon"} =>
       k = 0 /\ 0 \in Thread /\ NoneCreated /\ mon.pc = "none"
  /\ main = "create_mon" => MonitorInt > 0
  /\ main = "create" => \A t \in Thread : thr[t].pc = "none" <=> t >= k
  /\ main = "begin" => \A t \in Thread : thr[t].pc = "none" <=> t > k
  /\ main = "join" =>
       \A t \in Thread : thr[t].pc # "none" /\ (t < k => thr[t].pc = "exited")
  /\ main \in {"join_mon", "collect", "cleanup"} => AllExited
  /\ main = "report" /\ "returns" \notin CreateFails => AllExited
  /\ main = "join_mon" => k = 0
  /\ main \in {"collect", "cleanup", "report", "setup", "exit0", "exit1"} => NoneLive
  /\ MonitorInt <= 0 => mon.pc = "none"
  /\ main = "undefined" => "returns" \in CreateFails

\* The sums cover the threads before n.
SumsUpTo(n) ==
  /\ Total(res) = n
  /\ res.interrupted > 0 <=> \E t \in Thread : t < n /\ thr[t].num_interrupted > 0
  /\ res.error > 0 <=> \E t \in Thread : t < n /\ thr[t].num_error > 0

SumsOK ==
  /\ main \in {"flist", "create_mon", "create", "begin", "join", "join_mon"} =>
       res = NoResult
  /\ main = "collect" => SumsUpTo(k)
  /\ main = "cleanup" => SumsUpTo(NumThread)
  /\ main = "report" /\ "returns" \notin CreateFails => SumsUpTo(NumThread)

\* Before set_time_begin no end lies before the begin.
NotBegun(t) ==
  \/ main \in {"flist", "create_mon"}
  \/ main \in {"create", "begin"} /\ t >= k

BeginOK == \A t \in Thread : NotBegun(t) => stat[t].sec >= 0

\* A begin that was stamped is no older than its thread.
Begun(t) == main = "join" \/ (main \in {"create", "begin"} /\ t < k)

AgeOK == \A t \in Thread : Begun(t) => stat[t].age <= hist[t].life

ScanOK ==
  /\ mon.pc = "stamp" => mon.k < NumThread /\ ~mon.done
  /\ mon.pc = "scan" /\ mon.done => \A t \in Thread : t < mon.k => stat[t].done

\* An entry taken up after SIGINT is the last one and decides the verdict.
LateOK ==
  \A t \in Thread :
    /\ thr[t].pc \in {"none", "start", "pass", "time"} => hist[t].late = 0
    /\ hist[t].late > 0 => interrupted
    /\ hist[t].late > 0 /\ thr[t].pc \in Judged =>
         thr[t].num_interrupted > 0 \/ thr[t].num_error > 0

IndInv ==
  /\ TypeOK /\ OneVerdict /\ PhaseOK /\ SumsOK /\ BeginOK /\ AgeOK /\ ScanOK
  /\ LateOK /\ InterruptPrompt /\ MonitorLeavesLast /\ VerdictJustified

-----------------------------------------------------------------------------
(* Liveness.                                                               *)

\* The program ends.
Terminates == <>(main \in Ended)

\* SIGINT ends the program, whatever the other limits.
InterruptEnds == interrupted ~> main \in Ended

\* With a time limit every worker that was created exits.
TimeLimitEndsWorkers ==
  \A t \in Thread : (TimeSecond > 0 /\ Live(t)) ~> ~Live(t)

\* Once all workers have exited so does the monitor.
MonitorEnds == (\A t \in Thread : thr[t].pc = "exited") ~> ~MonitorLive
=============================================================================
