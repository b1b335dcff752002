--------------------------- MODULE DispatchProofs ---------------------------
(***************************************************************************)
(* Proofs about Dispatch, for every number of threads and sets and every   *)
(* value of the other options.                                             *)
(***************************************************************************)
EXTENDS Dispatch, TLAPS

\* What the proofs use of the assumption on the options.
LEMMA Options ==
  /\ NumReader \in Nat /\ NumWriter \in Nat /\ NumThread \in Nat
  /\ TimeSecond \in Int /\ MonitorInt \in Int /\ NumRepeat \in Int
  /\ IntMax \in Nat /\ AgeCap \in Nat /\ PathsCap \in Nat
  /\ Faults \subseteq {"error", "throw"}
  /\ Thread \subseteq Nat
  /\ \A n \in Nat : n \in Thread <=> n < NumThread
BY GlobalAssumption DEF GlobalAssumption, NumThread, Thread

\* Registering a path keeps the count within its cap.
LEMMA MorePathsType ==
  ASSUME NEW n \in 0 .. PathsCap, NEW more \in {0, 1}
  PROVE  MorePaths(n, more) \in 0 .. PathsCap
BY Options DEF MorePaths

\* The outcomes of an entry.
LEMMA OutcomeType ==
  ASSUME NEW t, NEW kind, NEW o \in Outcomes(t, kind)
  PROVE  o.ret \in {"ok", "error", "throw"} /\ o.paths \in {0, 1}
<1>1. CASE o = [ret |-> "ok", paths |-> IF Writes(t, kind) THEN 1 ELSE 0]
  BY <1>1
<1>2. CASE o \in [ret : Faults, paths : {0, 1}]
  BY <1>2, Options
<1>3. CASE o \in [ret : Faults \cap {"throw"}, paths : {0}]
  BY <1>3, Options
<1> QED BY <1>1, <1>2, <1>3 DEF Outcomes

\* The next value of repeat is a value of repeat.
LEMMA NextRepeatType ==
  ASSUME NEW n \in -IntMax - 1 .. IntMax + 1, NEW m \in NextRepeat(n)
  PROVE  m \in -IntMax - 1 .. IntMax + 1
BY Options DEF NextRepeat

LEMMA OlderType ==
  ASSUME NEW n \in 0 .. AgeCap
  PROVE  Older(n) \in 0 .. AgeCap
BY Options DEF Older

LEMMA TypeInit == Init => TypeOK
<1> SUFFICES ASSUME Init PROVE TypeOK
  OBVIOUS
<1>1. NewThread \in ThrType
  BY Options DEF NewThread, ThrType, WorkerPc
<1>2. NewStat \in StatType /\ NewHist \in HistType
  BY Options DEF NewStat, StatType, NewHist, HistType
<1>3. NoMonitor \in MonType
  BY Options DEF NoMonitor, MonType, MonitorPc
<1>4. NoResult \in ResType
  BY DEF NoResult, ResType
<1> QED BY <1>1, <1>2, <1>3, <1>4 DEF Init, TypeOK, MainPc, Ended

\* The two ways in which the steps below rewrite a thread.
LEMMA ThrAfterEntry ==
  ASSUME thr \in [Thread -> ThrType], NEW t \in Thread,
         NEW pc \in WorkerPc, NEW e \in Nat, NEW p \in 0 .. PathsCap
  PROVE  [thr EXCEPT ![t].pc = pc, ![t].num_error = e, ![t].num_write_paths = p]
           \in [Thread -> ThrType]
BY DEF ThrType

LEMMA ThrAfterPass ==
  ASSUME thr \in [Thread -> ThrType], NEW t \in Thread,
         NEW n \in -IntMax - 1 .. IntMax + 1, NEW c \in Nat, NEW pc \in WorkerPc
  PROVE  /\ [thr EXCEPT ![t].pc = pc, ![t].repeat = n, ![t].num_complete = c]
              \in [Thread -> ThrType]
         /\ [thr EXCEPT ![t].i = 0, ![t].repeat = n] \in [Thread -> ThrType]
BY DEF ThrType

\* The steps of a worker keep the types.
LEMMA TypeWorker ==
  ASSUME TypeOK, NEW t \in Thread, WorkerStep(t), UNCHANGED <<mainVars, mon>>
  PROVE  TypeOK'
<1> USE Options
<1> DEFINE Typed == /\ thr' \in [Thread -> ThrType]
                    /\ stat' \in [Thread -> StatType]
                    /\ hist' \in [Thread -> HistType]
                    /\ interrupted' \in BOOLEAN
                    /\ what' \in Nat
<1> SUFFICES Typed
  BY DEF TypeOK, mainVars
<1>1. CASE Start(t)
  <2>1. thr' \in [Thread -> ThrType]
    BY <1>1 DEF Start, TypeOK, ThrType, WorkerPc, Working
  <2>2. stat' \in [Thread -> StatType]
    BY <1>1 DEF Start, TypeOK, StatType
  <2> QED BY <1>1, <2>1, <2>2 DEF Start, TypeOK
<1>2. CASE Entry(t)
  <2>0. PICK kind \in NextKinds(t) : \E o \in Outcomes(t, kind) :
          thr' = [thr EXCEPT
            ![t].pc = AfterEntry(o.ret),
            ![t].num_error = IF o.ret = "error" THEN @ + 1 ELSE @,
            ![t].num_write_paths = MorePaths(@, o.paths)]
    BY <1>2 DEF Entry
  <2>1. PICK o \in Outcomes(t, kind) :
          thr' = [thr EXCEPT
            ![t].pc = AfterEntry(o.ret),
            ![t].num_error = IF o.ret = "error" THEN @ + 1 ELSE @,
            ![t].num_write_paths = MorePaths(@, o.paths)]
    BY <2>0
  <2>2. AfterEntry(o.ret) \in WorkerPc
    BY OutcomeType DEF AfterEntry, WorkerPc, Working, Leaving
  <2>3. MorePaths(thr[t].num_write_paths, o.paths) \in 0 .. PathsCap
    BY OutcomeType, MorePathsType DEF TypeOK, ThrType
  <2> DEFINE e == IF o.ret = "error" THEN thr[t].num_error + 1 ELSE thr[t].num_error
  <2>31. e \in Nat
    BY DEF TypeOK, ThrType
  <2>32. thr' = [thr EXCEPT ![t].pc = AfterEntry(o.ret), ![t].num_error = e,
                  ![t].num_write_paths = MorePaths(thr[t].num_write_paths, o.paths)]
    BY <2>1, Zenon
  <2> HIDE DEF e
  <2>4. thr' \in [Thread -> ThrType]
    BY <2>2, <2>3, <2>31, <2>32, ThrAfterEntry DEF TypeOK
  <2>5. hist' \in [Thread -> HistType]
    BY <1>2 DEF Entry, TypeOK, HistType
  <2>6. UNCHANGED <<stat, interrupted, what>>
    BY <1>2 DEF Entry
  <2> QED BY <2>4, <2>5, <2>6 DEF TypeOK
<1>3. CASE WalkThrows(t)
  BY <1>3 DEF WalkThrows, TypeOK, ThrType, WorkerPc, Working
<1>4. CASE EndPass(t)
  <2>1. PICK n \in NextRepeat(thr[t].repeat) :
          thr' = IF RepeatsDone(n) \/ IsWriteDone(t)
                 THEN [thr EXCEPT ![t].pc = "setdone", ![t].repeat = n,
                                  ![t].num_complete = @ + 1]
                 ELSE [thr EXCEPT ![t].i = 0, ![t].repeat = n]
    BY <1>4 DEF EndPass
  <2>2. n \in -IntMax - 1 .. IntMax + 1
    BY NextRepeatType DEF TypeOK, ThrType
  <2>21. "setdone" \in WorkerPc /\ thr[t].num_complete + 1 \in Nat
    BY DEF WorkerPc, Leaving, TypeOK, ThrType
  <2>3. thr' \in [Thread -> ThrType]
    BY <2>1, <2>2, <2>21, ThrAfterPass DEF TypeOK
  <2>4. UNCHANGED <<stat, interrupted, what, hist>>
    BY <1>4 DEF EndPass
  <2> QED BY <2>3, <2>4 DEF TypeOK
<1>5. CASE CheckInterrupted(t)
  BY <1>5 DEF CheckInterrupted, TypeOK, ThrType, WorkerPc, Working, Leaving
<1>6. CASE CheckTime(t)
  BY <1>6 DEF CheckTime, TypeOK, ThrType, WorkerPc, Working, Leaving
<1>7. CASE SetDone(t)
  BY <1>7 DEF SetDone, TypeOK, ThrType, StatType, WorkerPc, Leaving
<1>8. CASE StampEnd(t)
  BY <1>8 DEF StampEnd, TypeOK, ThrType, StatType, SetTimeEnd, WorkerPc
<1>9. CASE Catch(t)
  BY <1>9 DEF Catch, TypeOK, ThrType, WorkerPc
<1> QED
  BY <1>1, <1>2, <1>3, <1>4, <1>5, <1>6, <1>7, <1>8, <1>9 DEF WorkerStep

\* The ways in which the steps below rewrite the monitor's locals.
LEMMA MonUpdates ==
  ASSUME NEW m \in MonType, NEW pc \in MonitorPc, NEW n \in 0 .. NumThread,
         NEW d \in BOOLEAN
  PROVE  /\ [m EXCEPT !.pc = pc] \in MonType
         /\ [m EXCEPT !.k = n] \in MonType
         /\ [m EXCEPT !.pc = pc, !.age = 0] \in MonType
         /\ [m EXCEPT !.pc = pc, !.done = d] \in MonType
         /\ [m EXCEPT !.pc = pc, !.k = n] \in MonType
         /\ [m EXCEPT !.pc = pc, !.k = n, !.done = d] \in MonType
<1>1. 0 \in 0 .. AgeCap
  BY Options
<1> QED BY <1>1 DEF MonType

\* The steps of the monitor keep the types.
LEMMA TypeMonitor ==
  ASSUME TypeOK, ScanOK, MonitorStep, UNCHANGED mainVars
  PROVE  TypeOK'
<1> DEFINE Typed == mon' \in MonType /\ stat' \in [Thread -> StatType]
<1>1. SUFFICES Typed /\ UNCHANGED <<thr, interrupted, what, hist>>
  BY DEF TypeOK, mainVars
<1>2. /\ mon \in MonType
      /\ {"timer", "scan", "stamp", "print", "intr", "time", "sleep", "exited"}
           \subseteq MonitorPc
      /\ 0 \in 0 .. NumThread
      /\ mon.k < NumThread => mon.k + 1 \in 0 .. NumThread
  BY Options DEF TypeOK, MonType, MonitorPc
<1> DEFINE Only == UNCHANGED <<thr, stat, interrupted, what, hist>>
<1>3. OnlyMon => Only /\ stat' \in [Thread -> StatType]
  BY DEF OnlyMon, TypeOK
<1>4. CASE MonStart
  BY <1>2, <1>3, <1>4, MonUpdates DEF MonStart
<1>5. CASE Poll
  BY <1>2, <1>3, <1>5, MonUpdates DEF Poll
<1>6. CASE Scan
  BY <1>2, <1>3, <1>6, MonUpdates DEF Scan
<1>7. CASE Stamp
  <2>1. mon.k < NumThread
    BY <1>7 DEF Stamp, ScanOK
  <2>2. mon.k \in Thread
    BY <1>2, <2>1, Options DEF MonType
  <2>3. stat' \in [Thread -> StatType]
    BY <1>7, <2>2, Options DEF Stamp, TypeOK, StatType, SetTimeEnd
  <2>4. mon' \in MonType
    BY <1>2, <1>7, <2>1, MonUpdates DEF Stamp
  <2> QED BY <1>7, <2>3, <2>4 DEF Stamp
<1>8. CASE ScanEnd
  BY <1>2, <1>3, <1>8, MonUpdates DEF ScanEnd
<1>9. CASE Show
  BY <1>2, <1>3, <1>9, MonUpdates DEF Show
<1>10. CASE MonCheckInterrupted
  BY <1>2, <1>3, <1>10, MonUpdates DEF MonCheckInterrupted
<1>11. CASE MonCheckTime
  BY <1>2, <1>3, <1>11, MonUpdates DEF MonCheckTime
<1> QED
  BY <1>4, <1>5, <1>6, <1>7, <1>8, <1>9, <1>10, <1>11 DEF MonitorStep

\* Where NextThread takes the main thread.
LEMMA NextThreadGoes ==
  ASSUME NEW here, NEW next, NextThread(here, next), k \in Thread
  PROVE  \/ main' = here /\ k' = k + 1 /\ k' \in Thread
         \/ main' = next /\ k' = 0 /\ k + 1 = NumThread
BY Options DEF NextThread

\* The steps of the main thread keep the types.
LEMMA TypeMain ==
  ASSUME TypeOK, PhaseOK, BeginOK, MainStep
  PROVE  TypeOK'
<1> USE Options
<1>1. CASE Setup
  <2>1. NewThread \in ThrType
    BY DEF NewThread, ThrType, WorkerPc
  <2>2. NewStat \in StatType /\ NewHist \in HistType
    BY DEF NewStat, StatType, NewHist, HistType
  <2>3. NoMonitor \in MonType /\ NoResult \in ResType
    BY DEF NoMonitor, MonType, MonitorPc, NoResult, ResType
  <2>4. main' \in MainPc
    BY <1>1 DEF Setup, MainPc
  <2> QED BY <1>1, <2>1, <2>2, <2>3, <2>4 DEF Setup, TypeOK
<1>2. CASE SetupFlist
  BY <1>2 DEF SetupFlist, TypeOK, MainPc, FirstCreate, Ended
<1>3. CASE CreateMonitor
  <2>1. CASE EarlyReturn
    BY <2>1 DEF EarlyReturn, TypeOK, MainPc, Ended
  <2>2. CASE /\ mon' = [NoMonitor EXCEPT !.pc = "start"]
             /\ main' = "create"
             /\ UNCHANGED <<k, set, res, workVars>>
    <3>1. NoMonitor \in MonType /\ "start" \in MonitorPc
      BY DEF NoMonitor, MonType, MonitorPc
    <3>2. mon' \in MonType
      BY <2>2, <3>1 DEF MonType
    <3> QED BY <2>2, <3>2 DEF TypeOK, MainPc, workVars
  <2> QED BY <1>3, <2>1, <2>2 DEF CreateMonitor
<1>4. CASE CreateWorker
  <2>1. CASE EarlyReturn
    BY <2>1 DEF EarlyReturn, TypeOK, MainPc, Ended
  <2>2. CASE /\ thr' = [thr EXCEPT ![k].pc = "start"]
             /\ hist' = [hist EXCEPT ![k] = NewHist]
             /\ main' = "begin"
             /\ UNCHANGED <<k, set, res, stat, interrupted, what, mon>>
    <3>1. thr' \in [Thread -> ThrType]
      BY <2>2 DEF TypeOK, ThrType, WorkerPc, Working
    <3>2. hist' \in [Thread -> HistType]
      <4>1. NewHist \in HistType
        BY DEF NewHist, HistType
      <4> QED BY <2>2, <4>1 DEF TypeOK
    <3> QED BY <2>2, <3>1, <3>2 DEF TypeOK, MainPc
  <2> QED BY <1>4, <2>1, <2>2 DEF CreateWorker
<1>5. CASE StampBegin
  <2>1. k \in Thread /\ stat[k].sec \in 0 .. AgeCap /\ stat[k].age \in 0 .. AgeCap
    BY <1>5 DEF StampBegin, PhaseOK, BeginOK, NotBegun, TypeOK, StatType
  <2>2. stat' \in [Thread -> StatType]
    <3> DEFINE begun == [stat[k] EXCEPT !.sec = stat[k].sec - stat[k].age, !.age = 0]
    <3>1. stat[k] \in StatType
      BY <2>1 DEF TypeOK
    <3>2. stat[k].sec - stat[k].age \in -AgeCap .. AgeCap /\ 0 \in 0 .. AgeCap
      BY <2>1
    <3>3. begun \in StatType
      BY <3>1, <3>2 DEF StatType
    <3>4. stat' = [stat EXCEPT ![k] = begun]
      BY <1>5 DEF StampBegin, SetTimeBegin
    <3> QED BY <3>3, <3>4 DEF TypeOK
  <2>3. main' \in MainPc /\ k' \in Nat
    BY <1>5, <2>1, NextThreadGoes DEF StampBegin, MainPc
  <2> QED BY <1>5, <2>2, <2>3 DEF StampBegin, TypeOK
<1>6. CASE JoinWorker
  <2>1. k \in Thread
    BY <1>6 DEF JoinWorker, PhaseOK
  <2>2. main' \in MainPc /\ k' \in Nat
    BY <1>6, <2>1, NextThreadGoes DEF JoinWorker, AfterJoins, MainPc
  <2> QED BY <1>6, <2>2 DEF JoinWorker, TypeOK, workVars
<1>7. CASE JoinMonitor
  BY <1>7 DEF JoinMonitor, TypeOK, MainPc, workVars
<1>8. CASE Collect
  <2>1. k \in Thread
    BY <1>8 DEF Collect, PhaseOK
  <2>2. main' \in MainPc /\ k' \in Nat
    BY <1>8, <2>1, NextThreadGoes DEF Collect, MainPc, Ended
  <2>3. res' \in ResType
    BY <1>8, <2>1 DEF Collect, AddVerdicts, TypeOK, ResType, ThrType
  <2> QED BY <1>8, <2>2, <2>3 DEF Collect, TypeOK, workVars
<1>9. CASE Cleanup
  BY <1>9 DEF Cleanup, TypeOK, MainPc, Ended
<1>10. CASE Report
  BY <1>10 DEF Report, TypeOK, MainPc, Ended, workVars
<1> QED
  BY <1>1, <1>2, <1>3, <1>4, <1>5, <1>6, <1>7, <1>8, <1>9, <1>10 DEF MainStep

\* The passing of a second keeps the types.
LEMMA TypeTick ==
  ASSUME TypeOK, Tick
  PROVE  TypeOK'
<1>1. ASSUME NEW t \in Thread
      PROVE  [stat[t] EXCEPT !.age = Older(@)] \in StatType
  BY OlderType DEF TypeOK, StatType
<1>2. ASSUME NEW t \in Thread
      PROVE  [hist[t] EXCEPT !.life = Older(@)] \in HistType
  BY OlderType DEF TypeOK, HistType
<1>3. mon' \in MonType
  <2>1. mon.age \in Nat => MonOlder(mon.age) \in Nat
    BY Options DEF MonOlder
  <2> QED BY <2>1 DEF Tick, TypeOK, MonType, MonitorPc
<1> QED BY <1>1, <1>2, <1>3 DEF Tick, TypeOK, mainVars

LEMMA TypeStep ==
  ASSUME TypeOK, PhaseOK, BeginOK, ScanOK, [Next]_vars
  PROVE  TypeOK'
<1>1. CASE \E t \in Thread : WorkerRuns(t)
  BY <1>1, TypeWorker DEF WorkerRuns
<1>2. CASE MonitorRuns
  BY <1>2, TypeMonitor DEF MonitorRuns, PrintAborts, TypeOK, MainPc, Ended, workVars
<1>3. CASE MainStep
  BY <1>3, TypeMain
<1>4. CASE Sigint
  BY <1>4 DEF Sigint, TypeOK, mainVars
<1>5. CASE Tick
  BY <1>5, TypeTick
<1>6. CASE UNCHANGED vars
  BY <1>6 DEF vars, mainVars, workVars, TypeOK
<1> QED
  BY <1>1, <1>2, <1>3, <1>4, <1>5, <1>6 DEF Next, TimeRuns, Stopped

-----------------------------------------------------------------------------
(* The invariants, one lemma each.                                         *)

\* What an entry does to its worker.
LEMMA EntryMoves ==
  ASSUME TypeOK, NEW t \in Thread, Entry(t)
  PROVE  /\ thr[t].pc = "pass"
         /\ thr'[t].num_complete = thr[t].num_complete
         /\ thr'[t].num_interrupted = thr[t].num_interrupted
         /\ \/ thr'[t].pc = "setdone" /\ thr'[t].num_error = thr[t].num_error + 1
            \/ thr'[t].pc \in {"intr", "catch"} /\ thr'[t].num_error = thr[t].num_error
         /\ \A u \in Thread : u # t => thr'[u] = thr[u]
<1>1. PICK kind \in NextKinds(t) : \E o \in Outcomes(t, kind) :
        thr' = [thr EXCEPT
          ![t].pc = AfterEntry(o.ret),
          ![t].num_error = IF o.ret = "error" THEN @ + 1 ELSE @,
          ![t].num_write_paths = MorePaths(@, o.paths)]
  BY DEF Entry
<1>2. PICK o \in Outcomes(t, kind) :
        thr' = [thr EXCEPT
          ![t].pc = AfterEntry(o.ret),
          ![t].num_error = IF o.ret = "error" THEN @ + 1 ELSE @,
          ![t].num_write_paths = MorePaths(@, o.paths)]
  BY <1>1
<1>3. /\ thr'[t].pc = AfterEntry(o.ret)
      /\ thr'[t].num_error = IF o.ret = "error" THEN thr[t].num_error + 1
                             ELSE thr[t].num_error
      /\ thr'[t].num_complete = thr[t].num_complete
      /\ thr'[t].num_interrupted = thr[t].num_interrupted
      /\ \A u \in Thread : u # t => thr'[u] = thr[u]
  BY <1>2 DEF TypeOK, ThrType
<1>4. CASE o.ret = "error"
  BY <1>3, <1>4 DEF AfterEntry, Entry
<1>5. CASE o.ret \in {"ok", "throw"}
  BY <1>3, <1>5 DEF AfterEntry, Entry
<1> QED BY <1>4, <1>5, OutcomeType

\* What the end of a pass does to its worker.
LEMMA EndPassMoves ==
  ASSUME TypeOK, NEW t \in Thread, EndPass(t)
  PROVE  /\ thr[t].pc = "pass"
         /\ thr'[t].num_error = thr[t].num_error
         /\ thr'[t].num_interrupted = thr[t].num_interrupted
         /\ \/ thr'[t].pc = "setdone" /\ thr'[t].num_complete = thr[t].num_complete + 1
            \/ thr'[t].pc = "pass" /\ thr'[t].num_complete = thr[t].num_complete
         /\ \A u \in Thread : u # t => thr'[u] = thr[u]
<1>1. PICK n \in NextRepeat(thr[t].repeat) :
        thr' = IF RepeatsDone(n) \/ IsWriteDone(t)
               THEN [thr EXCEPT ![t].pc = "setdone", ![t].repeat = n,
                                ![t].num_complete = @ + 1]
               ELSE [thr EXCEPT ![t].i = 0, ![t].repeat = n]
  BY DEF EndPass
<1> QED BY <1>1 DEF EndPass, TypeOK, ThrType

\* A step of worker t touches no other worker; t was alive and does not start.
LEMMA WorkerMoves ==
  ASSUME TypeOK, NEW t \in Thread, WorkerStep(t)
  PROVE  /\ thr[t].pc \in Working \cup Leaving
         /\ thr'[t].pc \in (Working \ {"start"}) \cup Leaving \cup {"exited"}
         /\ \A u \in Thread : u # t => thr'[u] = thr[u] /\ stat'[u] = stat[u]
                                     /\ hist'[u] = hist[u]
         /\ UNCHANGED interrupted
<1> USE DEF TypeOK, ThrType, Working, Leaving
<1>1. CASE Start(t)
  BY <1>1 DEF Start
<1>2. CASE Entry(t)
  <2>1. \A u \in Thread : u # t => hist'[u] = hist[u]
    BY <1>2 DEF Entry
  <2> QED BY <1>2, <2>1, EntryMoves DEF Entry
<1>3. CASE WalkThrows(t)
  BY <1>3 DEF WalkThrows
<1>4. CASE EndPass(t)
  <2>1. UNCHANGED <<stat, hist, interrupted>>
    BY <1>4 DEF EndPass
  <2> QED BY <1>4, <2>1, EndPassMoves
<1>5. CASE CheckInterrupted(t)
  BY <1>5 DEF CheckInterrupted
<1>6. CASE CheckTime(t)
  BY <1>6 DEF CheckTime
<1>7. CASE SetDone(t)
  BY <1>7 DEF SetDone
<1>8. CASE StampEnd(t)
  BY <1>8 DEF StampEnd
<1>9. CASE Catch(t)
  BY <1>9 DEF Catch
<1> QED
  BY <1>1, <1>2, <1>3, <1>4, <1>5, <1>6, <1>7, <1>8, <1>9 DEF WorkerStep

\* A worker's own step gives it a verdict exactly when it begins to leave.
LEMMA WorkerVerdict ==
  ASSUME TypeOK, NEW t \in Thread, WorkerStep(t),
         Verdicts(t) = IF thr[t].pc \in Judged THEN 1 ELSE 0
  PROVE  Verdicts(t)' = IF thr'[t].pc \in Judged THEN 1 ELSE 0
<1>1. /\ thr[t].num_complete \in Nat /\ thr[t].num_interrupted \in Nat
      /\ thr[t].num_error \in Nat
  BY DEF TypeOK, ThrType
<1>2. Judged = {"setdone", "settime", "exited"}
  BY DEF Judged, Leaving
<1> DEFINE moved == thr'[t].num_complete + thr'[t].num_interrupted + thr'[t].num_error
<1>3. SUFFICES moved = IF thr'[t].pc \in {"setdone", "settime", "exited"} THEN 1 ELSE 0
  BY <1>2 DEF Verdicts
<1>4. Verdicts(t) = IF thr[t].pc \in {"setdone", "settime", "exited"} THEN 1 ELSE 0
  BY <1>2
<1>5. CASE Start(t)
  BY <1>1, <1>4, <1>5 DEF Start, TypeOK, ThrType, Verdicts
<1>6. CASE Entry(t)
  BY <1>1, <1>4, <1>6, EntryMoves DEF Verdicts
<1>7. CASE WalkThrows(t)
  BY <1>1, <1>4, <1>7 DEF WalkThrows, TypeOK, ThrType, Verdicts
<1>8. CASE EndPass(t)
  <2>1. /\ thr[t].pc = "pass"
        /\ thr'[t].num_error = thr[t].num_error
        /\ thr'[t].num_interrupted = thr[t].num_interrupted
        /\ \/ thr'[t].pc = "setdone" /\ thr'[t].num_complete = thr[t].num_complete + 1
           \/ thr'[t].pc = "pass" /\ thr'[t].num_complete = thr[t].num_complete
    BY <1>8, EndPassMoves
  <2>2. thr[t].num_complete + thr[t].num_interrupted + thr[t].num_error = 0
    BY <1>4, <2>1 DEF Verdicts
  <2>3. CASE thr'[t].pc = "setdone" /\ thr'[t].num_complete = thr[t].num_complete + 1
    BY <1>1, <2>1, <2>2, <2>3
  <2>4. CASE thr'[t].pc = "pass" /\ thr'[t].num_complete = thr[t].num_complete
    BY <1>1, <2>1, <2>2, <2>4
  <2> QED BY <2>1, <2>3, <2>4
<1>9. CASE CheckInterrupted(t)
  BY <1>1, <1>4, <1>9 DEF CheckInterrupted, TypeOK, ThrType, Verdicts
<1>10. CASE CheckTime(t)
  BY <1>1, <1>4, <1>10 DEF CheckTime, TypeOK, ThrType, Verdicts
<1>11. CASE SetDone(t)
  BY <1>1, <1>4, <1>11 DEF SetDone, TypeOK, ThrType, Verdicts
<1>12. CASE StampEnd(t)
  BY <1>1, <1>4, <1>12 DEF StampEnd, TypeOK, ThrType, Verdicts
<1>13. CASE Catch(t)
  BY <1>1, <1>4, <1>13 DEF Catch, TypeOK, ThrType, Verdicts
<1> QED
  BY <1>5, <1>6, <1>7, <1>8, <1>9, <1>10, <1>11, <1>12, <1>13 DEF WorkerStep

\* The successful halves of the two create actions.
NewMonitor ==
  /\ main = "create_mon" /\ main' = "create"
  /\ mon' = [NoMonitor EXCEPT !.pc = "start"]
  /\ UNCHANGED <<k, set, res, workVars>>

NewWorker ==
  /\ main = "create" /\ main' = "begin"
  /\ thr' = [thr EXCEPT ![k].pc = "start"]
  /\ hist' = [hist EXCEPT ![k] = NewHist]
  /\ UNCHANGED <<k, set, res, stat, interrupted, what, mon>>

CreateFailed == main \in {"create_mon", "create"} /\ EarlyReturn

\* The steps of the program, one by one.
LEMMA NextCases ==
  ASSUME [Next]_vars
  PROVE  \/ \E t \in Thread : WorkerRuns(t)
         \/ MonitorStep /\ UNCHANGED mainVars
         \/ PrintAborts \/ Setup \/ SetupFlist \/ NewMonitor \/ NewWorker
         \/ CreateFailed \/ StampBegin \/ JoinWorker \/ JoinMonitor \/ Collect
         \/ Cleanup \/ Report \/ Sigint \/ Tick \/ UNCHANGED vars
BY DEF Next, MonitorRuns, MainStep, CreateMonitor, CreateWorker, NewMonitor, NewWorker,
       CreateFailed, TimeRuns, Stopped

\* The monitor leaves the threads alone.
LEMMA MonitorKeeps ==
  ASSUME MonitorStep
  PROVE  UNCHANGED <<thr, interrupted, what, hist>>
BY DEF MonitorStep, MonStart, Poll, Scan, Stamp, ScanEnd, Show, MonCheckInterrupted,
       MonCheckTime, OnlyMon

\* Every worker has no verdict while it works and one once it leaves.
LEMMA VerdictStep ==
  ASSUME TypeOK, OneVerdict, PhaseOK, [Next]_vars
  PROVE  OneVerdict'
<1>1. CASE \E t \in Thread : WorkerRuns(t)
  <2>1. PICK t \in Thread : WorkerRuns(t)
    BY <1>1
  <2>2. ASSUME NEW u \in Thread
        PROVE  Verdicts(u)' = IF thr'[u].pc \in Judged THEN 1 ELSE 0
    <3>1. CASE u = t
      BY <2>1, <3>1, WorkerVerdict DEF WorkerRuns, OneVerdict
    <3>2. CASE u # t
      BY <2>1, <3>2, WorkerMoves DEF WorkerRuns, OneVerdict, Verdicts
    <3> QED BY <3>1, <3>2
  <2> QED BY <2>2 DEF OneVerdict
<1>2. CASE Setup
  BY <1>2 DEF Setup, OneVerdict, Verdicts, NewThread, Judged, Leaving
<1>3. CASE NewWorker
  <2>1. k \in Thread /\ thr[k].pc = "none"
    BY <1>3, Options DEF NewWorker, PhaseOK
  <2>2. ASSUME NEW u \in Thread
        PROVE  Verdicts(u)' = IF thr'[u].pc \in Judged THEN 1 ELSE 0
    BY <1>3, <2>1 DEF NewWorker, OneVerdict, Verdicts, Judged, Leaving, TypeOK, ThrType
  <2> QED BY <2>2 DEF OneVerdict
<1>4. CASE UNCHANGED thr
  BY <1>4 DEF OneVerdict, Verdicts
<1> QED
  BY <1>1, <1>2, <1>3, <1>4, NextCases, MonitorKeeps
     DEF PrintAborts, SetupFlist, NewMonitor, CreateFailed, EarlyReturn, StampBegin,
         JoinWorker, JoinMonitor, Collect, Cleanup, Report, Sigint, Tick, vars, workVars

\* Only a live monitor takes a step.
LEMMA MonitorWasLive ==
  ASSUME MonitorStep
  PROVE  MonitorLive
BY DEF MonitorStep, MonStart, Poll, Scan, Stamp, ScanEnd, Show, MonCheckInterrupted,
       MonCheckTime, MonitorLive

\* Where the main thread is tells which threads exist and which have ended.
LEMMA PhaseStep ==
  ASSUME TypeOK, PhaseOK, [Next]_vars
  PROVE  PhaseOK'
<1> USE DEF NoneCreated, AllExited, NoneLive, Live, MonitorLive
<1>1. CASE \E t \in Thread : WorkerRuns(t)
  <2>1. PICK t \in Thread : WorkerRuns(t)
    BY <1>1
  <2>2. thr[t].pc \notin {"none", "exited"} /\ thr'[t].pc # "none"
    BY <2>1, WorkerMoves DEF WorkerRuns, Working, Leaving
  <2>3. \A u \in Thread : u # t => thr'[u] = thr[u]
    BY <2>1, WorkerMoves DEF WorkerRuns
  <2>4. UNCHANGED <<main, k, mon>>
    BY <2>1 DEF WorkerRuns, mainVars
  <2> QED BY <2>2, <2>3, <2>4 DEF PhaseOK
<1>2. CASE MonitorStep /\ UNCHANGED mainVars
  <2>1. mon.pc \notin {"none", "exited"} /\ UNCHANGED <<thr, main, k>>
    BY <1>2, MonitorWasLive, MonitorKeeps DEF mainVars
  <2> QED BY <2>1 DEF PhaseOK
<1>3. CASE PrintAborts
  BY <1>3 DEF PrintAborts, PhaseOK, workVars
<1>4. CASE Setup
  <2>1. IF NumThread = 0 THEN Thread = {} ELSE 0 \in Thread
    BY Options
  <2> QED BY <1>4, <2>1 DEF Setup, PhaseOK, NewThread, NoMonitor
<1>5. CASE SetupFlist
  <2>1. \A t \in Thread : t >= 0
    BY Options
  <2> QED BY <1>5, <2>1 DEF SetupFlist, FirstCreate, PhaseOK
<1>6. CASE NewMonitor
  <2>1. \A t \in Thread : t >= 0
    BY Options
  <2>2. main = "create_mon" /\ UNCHANGED <<thr, k>>
    BY <1>6 DEF NewMonitor, workVars
  <2>3. k = 0 /\ 0 \in Thread /\ NoneCreated /\ MonitorInt > 0
    BY <2>2 DEF PhaseOK
  <2>4. main' = "create" /\ ~(MonitorInt <= 0)
    BY <1>6, <2>3, Options DEF NewMonitor
  <2> QED BY <2>1, <2>2, <2>3, <2>4 DEF PhaseOK
<1>7. CASE NewWorker
  <2>1. k \in Thread
    BY <1>7 DEF NewWorker, PhaseOK
  <2>2. \A t \in Thread : thr'[t].pc = "none" <=> t > k
    BY <1>7, <2>1, Options DEF NewWorker, PhaseOK, TypeOK, ThrType
  <2> QED BY <1>7, <2>1, <2>2 DEF NewWorker, PhaseOK
<1>8. CASE CreateFailed
  BY <1>8 DEF CreateFailed, EarlyReturn, PhaseOK
<1>9. CASE StampBegin
  <2>1. k \in Thread /\ \A t \in Thread : thr[t].pc = "none" <=> t > k
    BY <1>9 DEF StampBegin, PhaseOK
  <2>2. UNCHANGED <<thr, mon>> /\ NextThread("create", "join")
    BY <1>9 DEF StampBegin
  <2>3. \/ main' = "create" /\ k' = k + 1 /\ k' \in Thread
        \/ main' = "join" /\ k' = 0 /\ k + 1 = NumThread
    BY <2>1, <2>2, NextThreadGoes
  <2>4. CASE main' = "create" /\ k' = k + 1 /\ k' \in Thread
    BY <2>1, <2>2, <2>4, Options DEF PhaseOK
  <2>5. CASE main' = "join" /\ k' = 0 /\ k + 1 = NumThread
    BY <2>1, <2>2, <2>5, Options DEF PhaseOK
  <2> QED BY <2>3, <2>4, <2>5
<1>10. CASE JoinWorker
  <2>0. /\ k \in Thread
        /\ \A t \in Thread : thr[t].pc # "none" /\ (t < k => thr[t].pc = "exited")
    BY <1>10 DEF JoinWorker, PhaseOK
  <2>1. thr[k].pc = "exited"
    BY <1>10, <2>0 DEF JoinWorker, Joined
  <2>2. UNCHANGED <<thr, mon>> /\ NextThread("join", AfterJoins)
    BY <1>10 DEF JoinWorker, workVars
  <2>3. \/ main' = "join" /\ k' = k + 1 /\ k' \in Thread
        \/ main' = AfterJoins /\ k' = 0 /\ k + 1 = NumThread
    BY <2>0, <2>2, NextThreadGoes
  <2>4. CASE main' = "join" /\ k' = k + 1 /\ k' \in Thread
    BY <2>0, <2>1, <2>2, <2>4, Options DEF PhaseOK
  <2>5. CASE main' = AfterJoins /\ k' = 0 /\ k + 1 = NumThread
    <3>1. 0 \in Thread /\ \A t \in Thread : t < k \/ t = k
      BY <2>0, <2>5, Options
    <3>2. AllExited'
      BY <2>0, <2>1, <2>2, <3>1
    <3> QED BY <2>2, <2>5, <3>1, <3>2, Options DEF AfterJoins, PhaseOK
  <2> QED BY <2>3, <2>4, <2>5
<1>11. CASE JoinMonitor
  BY <1>11 DEF JoinMonitor, PhaseOK, workVars
<1>12. CASE Collect
  <2>1. k \in Thread /\ AllExited /\ NoneLive
    BY <1>12 DEF Collect, PhaseOK
  <2>2. UNCHANGED <<thr, mon>>
    BY <1>12 DEF Collect, workVars
  <2>3. \/ main' = "collect" /\ k' \in Thread
        \/ main' \in {"cleanup", "abort"}
    BY <1>12, <2>1, NextThreadGoes DEF Collect
  <2> QED BY <2>1, <2>2, <2>3 DEF PhaseOK
<1>13. CASE Cleanup
  BY <1>13 DEF Cleanup, PhaseOK
<1>14. CASE Report
  BY <1>14 DEF Report, PhaseOK, workVars
<1>15. CASE UNCHANGED <<thr, mon.pc, main, k>>
  BY <1>15 DEF PhaseOK
<1>16. CASE Sigint \/ UNCHANGED vars
  BY <1>15, <1>16 DEF Sigint, mainVars, vars, workVars
<1>17. CASE Tick
  <2>1. UNCHANGED <<thr, main, k>>
    BY <1>17 DEF Tick, mainVars
  <2>2. /\ mon'.pc = "none" <=> mon.pc = "none"
        /\ mon'.pc = "exited" <=> mon.pc = "exited"
    BY <1>17 DEF Tick, TypeOK, MonType
  <2> QED BY <2>1, <2>2 DEF PhaseOK
<1> QED
  BY <1>1, <1>2, <1>3, <1>4, <1>5, <1>6, <1>7, <1>8, <1>9, <1>10, <1>11, <1>12, <1>13,
     <1>14, <1>16, <1>17, NextCases

\* Adding the verdicts of thread k extends the sums by one thread.
LEMMA SumsExtend ==
  ASSUME TypeOK, OneVerdict, k \in Thread, thr[k].pc = "exited", SumsUpTo(k),
         res' = AddVerdicts(res, k), UNCHANGED thr,
         NEW n \in Nat, n = k + 1
  PROVE  SumsUpTo(n)'
<1>1. Verdicts(k) = 1
  BY DEF OneVerdict, Judged
<1>2. /\ thr[k].num_complete \in Nat /\ thr[k].num_interrupted \in Nat
      /\ thr[k].num_error \in Nat
      /\ res.complete \in Nat /\ res.interrupted \in Nat /\ res.error \in Nat
  BY DEF TypeOK, ThrType, ResType
<1>3. /\ res'.complete = res.complete + thr[k].num_complete
      /\ res'.interrupted = res.interrupted + thr[k].num_interrupted
      /\ res'.error = res.error + thr[k].num_error
  BY DEF AddVerdicts
<1>4. Total(res)' = n
  BY <1>1, <1>2, <1>3, Options DEF SumsUpTo, Total, Verdicts
<1>5. \A t \in Thread : t < n <=> t < k \/ t = k
  BY Options
<1>6. res'.interrupted > 0 <=> \E t \in Thread : t < n /\ thr[t].num_interrupted > 0
  <2>1. res'.interrupted > 0 <=> res.interrupted > 0 \/ thr[k].num_interrupted > 0
    BY <1>2, <1>3
  <2> QED BY <2>1, <1>5 DEF SumsUpTo
<1>7. res'.error > 0 <=> \E t \in Thread : t < n /\ thr[t].num_error > 0
  <2>1. res'.error > 0 <=> res.error > 0 \/ thr[k].num_error > 0
    BY <1>2, <1>3
  <2> QED BY <2>1, <1>5 DEF SumsUpTo
<1> QED BY <1>4, <1>6, <1>7 DEF SumsUpTo

\* The sums cover the threads collected so far, then all of them.
LEMMA SumsStep ==
  ASSUME TypeOK, OneVerdict, PhaseOK, SumsOK, [Next]_vars
  PROVE  SumsOK'
<1> DEFINE NoSums == main \in {"flist", "create_mon", "create", "begin", "join", "join_mon"}
<1>1. CASE \E t \in Thread : WorkerRuns(t)
  <2>1. PICK t \in Thread : WorkerRuns(t)
    BY <1>1
  <2>2. thr[t].pc \notin {"none", "exited"} /\ UNCHANGED <<main, res>>
    BY <2>1, WorkerMoves DEF WorkerRuns, Working, Leaving, mainVars
  <2>3. main \notin {"collect", "cleanup", "report"}
    BY <2>2 DEF PhaseOK, AllExited, NoneLive, Live
  <2> QED BY <2>2, <2>3 DEF SumsOK
<1>2. CASE UNCHANGED <<main, k, res, thr>>
  BY <1>2 DEF SumsOK, SumsUpTo, Total
<1>3. CASE Setup
  <2>1. NumThread = 0 => Thread = {}
    BY Options
  <2> QED BY <1>3, <2>1 DEF Setup, SumsOK, SumsUpTo, Total, NoResult
<1>4. CASE SetupFlist \/ NewMonitor \/ NewWorker
  BY <1>4 DEF SetupFlist, FirstCreate, NewMonitor, NewWorker, SumsOK
<1>5. CASE CreateFailed
  BY <1>5 DEF CreateFailed, EarlyReturn, SumsOK
<1>6. ASSUME NoSums, main' \in {"begin", "create", "join", "join_mon", "collect"},
             k' = 0 \/ main' # "collect", UNCHANGED <<res, thr>>
      PROVE  SumsOK'
  <2>1. res = NoResult
    BY <1>6 DEF SumsOK
  <2>2. SumsUpTo(0)'
    BY <1>6, <2>1, Options DEF SumsUpTo, Total, NoResult
  <2> QED BY <1>6, <2>1, <2>2 DEF SumsOK
<1>7. CASE StampBegin
  <2>1. main = "begin" /\ UNCHANGED <<res, thr>> /\ NextThread("create", "join")
    BY <1>7 DEF StampBegin
  <2>2. main' \in {"create", "join"}
    BY <2>1 DEF NextThread
  <2> QED BY <1>6, <2>1, <2>2 DEF SumsOK
<1>8. CASE JoinWorker
  <2>1. main = "join" /\ UNCHANGED <<res, thr>> /\ NextThread("join", AfterJoins)
    BY <1>8 DEF JoinWorker, workVars
  <2>2. main' = "join" \/ (main' \in {"join_mon", "collect"} /\ k' = 0)
    <3>1. k \in Thread
      BY <2>1 DEF PhaseOK
    <3>2. \/ main' = "join" /\ k' = k + 1 /\ k' \in Thread
          \/ main' = AfterJoins /\ k' = 0 /\ k + 1 = NumThread
      BY <2>1, <3>1, NextThreadGoes
    <3> QED BY <3>2 DEF AfterJoins
  <2> QED BY <1>6, <2>1, <2>2 DEF SumsOK
<1>9. CASE JoinMonitor
  <2>1. main = "join_mon" /\ main' = "collect" /\ k = 0 /\ UNCHANGED <<res, thr, k>>
    BY <1>9 DEF JoinMonitor, PhaseOK, workVars
  <2> QED BY <1>6, <2>1 DEF SumsOK
<1>10. CASE Collect
  <2>1. /\ main = "collect" /\ k \in Thread /\ thr[k].pc = "exited" /\ SumsUpTo(k)
        /\ res' = AddVerdicts(res, k) /\ UNCHANGED thr
    BY <1>10 DEF Collect, PhaseOK, AllExited, SumsOK, workVars
  <2>2. PICK n \in Nat : n = k + 1
    BY <2>1, Options
  <2>3. SumsUpTo(n)'
    BY <2>1, <2>2, SumsExtend
  <2>4. \/ main' = "collect" /\ k' = n
        \/ main' \in {"cleanup", "abort"} /\ n = NumThread
    BY <1>10, <2>1, <2>2, NextThreadGoes DEF Collect
  <2>5. CASE main' = "collect" /\ k' = n
    BY <2>3, <2>5 DEF SumsOK, SumsUpTo
  <2>6. CASE main' \in {"cleanup", "abort"} /\ n = NumThread
    BY <2>3, <2>6, Options DEF SumsOK, SumsUpTo
  <2> QED BY <2>4, <2>5, <2>6
<1>11. CASE Cleanup
  BY <1>11 DEF Cleanup, SumsOK, SumsUpTo, Total
<1>12. CASE Report \/ PrintAborts
  BY <1>12 DEF Report, PrintAborts, SumsOK, SumsUpTo, Total, workVars
<1>13. UNCHANGED vars \/ Sigint \/ Tick \/ (MonitorStep /\ UNCHANGED mainVars)
         => UNCHANGED <<main, k, res, thr>>
  BY MonitorKeeps DEF vars, mainVars, workVars, Sigint, Tick
<1> QED
  BY <1>1, <1>2, <1>3, <1>4, <1>5, <1>7, <1>8, <1>9, <1>10, <1>11, <1>12, <1>13, NextCases

\* Before set_time_begin no recorded end lies before the begin.
LEMMA BeginStep ==
  ASSUME TypeOK, PhaseOK, ScanOK, BeginOK, [Next]_vars
  PROVE  BeginOK'
<1>1. ASSUME NEW t \in Thread, NotBegun(t)'
      PROVE  stat'[t].sec >= 0
  <2>1. stat[t] \in StatType /\ stat[t].age \in 0 .. AgeCap
    BY DEF TypeOK, StatType
  <2>2. CASE Setup
    BY <2>2 DEF Setup, NewStat
  <2>3. ASSUME NotBegun(t), UNCHANGED stat
        PROVE  stat'[t].sec >= 0
    BY <2>3 DEF BeginOK
  <2>4. CASE \E u \in Thread : WorkerRuns(u)
    <3>1. PICK u \in Thread : WorkerRuns(u)
      BY <2>4
    <3>2. NotBegun(t)
      BY <1>1, <3>1 DEF WorkerRuns, NotBegun, mainVars
    <3>3. UNCHANGED stat \/ Start(u) \/ SetDone(u) \/ StampEnd(u)
      BY <3>1 DEF WorkerRuns, WorkerStep, Entry, WalkThrows, EndPass, CheckInterrupted,
                  CheckTime, Catch
    <3>4. CASE Start(u) \/ SetDone(u)
      BY <3>2, <3>4 DEF Start, SetDone, BeginOK, TypeOK, StatType
    <3>5. CASE StampEnd(u)
      BY <2>1, <3>2, <3>5, Options DEF StampEnd, SetTimeEnd, BeginOK, TypeOK, StatType
    <3> QED BY <2>3, <3>2, <3>3, <3>4, <3>5
  <2>5. CASE MonitorStep /\ UNCHANGED mainVars
    <3>1. NotBegun(t)
      BY <1>1, <2>5 DEF NotBegun, mainVars
    <3>2. UNCHANGED stat \/ Stamp
      BY <2>5 DEF MonitorStep, MonStart, Poll, Scan, ScanEnd, Show, MonCheckInterrupted,
                  MonCheckTime, OnlyMon
    <3>3. CASE Stamp
      BY <2>1, <3>1, <3>3, Options DEF Stamp, SetTimeEnd, BeginOK, TypeOK, StatType
    <3> QED BY <2>3, <3>1, <3>2, <3>3
  <2>6. CASE SetupFlist \/ NewMonitor
    <3>1. t >= 0
      BY Options
    <3> QED BY <2>3, <2>6, <3>1, <1>1
        DEF SetupFlist, FirstCreate, NewMonitor, NotBegun, workVars, PhaseOK
  <2>7. CASE NewWorker
    BY <1>1, <2>3, <2>7 DEF NewWorker, NotBegun
  <2>8. CASE StampBegin
    <3>1. main = "begin" /\ k \in Thread
      BY <2>8 DEF StampBegin, PhaseOK
    <3>2. main' = "create" /\ k' = k + 1
      BY <1>1, <2>8, <3>1, NextThreadGoes DEF StampBegin, NotBegun
    <3>3. t > k /\ NotBegun(t)
      BY <1>1, <3>1, <3>2, Options DEF NotBegun
    <3>4. stat'[t] = stat[t]
      BY <2>8, <3>1, <3>3, Options DEF StampBegin, TypeOK
    <3> QED BY <3>3, <3>4 DEF BeginOK
  <2>9. CASE Tick
    <3>1. NotBegun(t) /\ stat'[t].sec = stat[t].sec
      BY <1>1, <2>9 DEF Tick, NotBegun, mainVars, TypeOK, StatType
    <3> QED BY <3>1 DEF BeginOK
  <2>10. CASE Sigint \/ UNCHANGED vars
    BY <1>1, <2>3, <2>10 DEF Sigint, vars, mainVars, workVars, NotBegun
  <2>11. CASE \/ PrintAborts \/ CreateFailed \/ JoinWorker \/ JoinMonitor
              \/ Collect \/ Cleanup \/ Report
    BY <1>1, <2>11 DEF PrintAborts, CreateFailed, EarlyReturn, JoinWorker, AfterJoins,
         JoinMonitor, Collect, Cleanup, Report, NextThread, NotBegun
  <2> QED
    BY <2>2, <2>4, <2>5, <2>6, <2>7, <2>8, <2>9, <2>10, <2>11, NextCases
<1> QED BY <1>1 DEF BeginOK

\* From the stamp of its begin on, the age of a worker's begin is at most its own.
LEMMA AgeStep ==
  ASSUME TypeOK, PhaseOK, AgeOK, [Next]_vars
  PROVE  AgeOK'
<1>1. ASSUME NEW t \in Thread, Begun(t)'
      PROVE  stat'[t].age <= hist'[t].life
  <2>1. /\ stat \in [Thread -> StatType] /\ hist \in [Thread -> HistType]
        /\ stat[t].age \in 0 .. AgeCap /\ hist[t].life \in 0 .. AgeCap
    BY DEF TypeOK, StatType, HistType
  <2>2. ASSUME Begun(t), stat'[t].age = stat[t].age, hist'[t].life = hist[t].life
        PROVE  stat'[t].age <= hist'[t].life
    BY <2>2 DEF AgeOK
  <2>3. CASE \E u \in Thread : WorkerRuns(u)
    <3>1. PICK u \in Thread : WorkerRuns(u)
      BY <2>3
    <3>2. Begun(t)
      BY <1>1, <3>1 DEF WorkerRuns, Begun, mainVars
    <3>3. stat'[t].age = stat[t].age
      <4>1. UNCHANGED stat \/ Start(u) \/ SetDone(u) \/ StampEnd(u)
        BY <3>1 DEF WorkerRuns, WorkerStep, Entry, WalkThrows, EndPass, CheckInterrupted,
                    CheckTime, Catch
      <4>2. CASE Start(u) \/ SetDone(u)
        BY <2>1, <4>2 DEF Start, SetDone, StatType
      <4>3. CASE StampEnd(u)
        BY <2>1, <4>3 DEF StampEnd, SetTimeEnd, StatType
      <4> QED BY <4>1, <4>2, <4>3
    <3>4. hist'[t].life = hist[t].life
      <4>1. UNCHANGED hist \/ Entry(u)
        BY <3>1 DEF WorkerRuns, WorkerStep, Start, WalkThrows, EndPass, CheckInterrupted,
                    CheckTime, SetDone, StampEnd, Catch
      <4>2. CASE Entry(u)
        BY <2>1, <4>2 DEF Entry, HistType
      <4> QED BY <4>1, <4>2
    <3> QED BY <2>2, <3>2, <3>3, <3>4
  <2>4. CASE MonitorStep /\ UNCHANGED mainVars
    <3>1. Begun(t) /\ hist'[t].life = hist[t].life
      BY <1>1, <2>4, MonitorKeeps DEF Begun, mainVars
    <3>2. stat'[t].age = stat[t].age
      BY <2>1, <2>4 DEF MonitorStep, MonStart, Poll, Scan, Stamp, SetTimeEnd, ScanEnd, Show,
         MonCheckInterrupted, MonCheckTime, OnlyMon, StatType
    <3> QED BY <2>2, <3>1, <3>2
  <2>5. CASE SetupFlist \/ NewMonitor
    BY <1>1, <2>5, Options DEF SetupFlist, FirstCreate, NewMonitor, Begun, PhaseOK
  <2>6. CASE NewWorker
    <3>1. k \in Thread /\ main = "create" /\ k' = k /\ t < k
      BY <1>1, <2>6 DEF NewWorker, Begun, PhaseOK
    <3>2. hist'[t] = hist[t] /\ stat' = stat
      BY <2>1, <2>6, <3>1, Options DEF NewWorker
    <3> QED BY <2>2, <3>1, <3>2 DEF Begun
  <2>7. CASE StampBegin
    <3>1. /\ main = "begin" /\ k \in Thread /\ hist' = hist
          /\ stat' = [stat EXCEPT ![k] = SetTimeBegin(@)] /\ NextThread("create", "join")
      BY <2>7 DEF StampBegin, PhaseOK
    <3>2. t <= k
      BY <1>1, <3>1, NextThreadGoes, Options DEF Begun
    <3>3. CASE t = k
      BY <2>1, <3>1, <3>3 DEF SetTimeBegin, StatType
    <3>4. CASE t # k
      <4>1. t < k /\ stat'[t] = stat[t]
        BY <2>1, <3>1, <3>2, <3>4, Options
      <4> QED BY <2>2, <3>1, <4>1 DEF Begun
    <3> QED BY <3>3, <3>4
  <2>8. CASE JoinWorker
    BY <1>1, <2>2, <2>8 DEF JoinWorker, workVars, Begun
  <2>9. CASE Tick
    <3>1. Begun(t) /\ stat[t].age <= hist[t].life
      BY <1>1, <2>9 DEF Tick, mainVars, Begun, AgeOK
    <3>2. stat'[t].age = Older(stat[t].age) /\ hist'[t].life = Older(hist[t].life)
      BY <2>1, <2>9 DEF Tick, StatType, HistType
    <3> QED BY <2>1, <3>1, <3>2, Options DEF Older
  <2>10. CASE Sigint \/ UNCHANGED vars
    BY <1>1, <2>2, <2>10 DEF Sigint, vars, mainVars, workVars, Begun
  <2>11. CASE \/ Setup \/ PrintAborts \/ CreateFailed \/ JoinMonitor \/ Collect
              \/ Cleanup \/ Report
    BY <1>1, <2>11 DEF Setup, PrintAborts, CreateFailed, EarlyReturn, JoinMonitor, Collect,
         Cleanup, Report, NextThread, Begun
  <2> QED
    BY <2>3, <2>4, <2>5, <2>6, <2>7, <2>8, <2>9, <2>10, <2>11, NextCases
<1> QED BY <1>1 DEF AgeOK

\* What the monitor has seen done stays done.
LEMMA ScanStep ==
  ASSUME TypeOK, PhaseOK, ScanOK, [Next]_vars
  PROVE  ScanOK'
<1>1. CASE \E t \in Thread : WorkerRuns(t)
  <2>1. PICK t \in Thread : WorkerRuns(t)
    BY <1>1
  <2>2. UNCHANGED mon
    BY <2>1 DEF WorkerRuns
  <2>3. \A u \in Thread : stat[u].done => stat'[u].done
    BY <2>1 DEF WorkerRuns, WorkerStep, Start, Entry, WalkThrows, EndPass,
         CheckInterrupted, CheckTime, SetDone, StampEnd, SetTimeEnd, Catch, TypeOK, StatType
  <2> QED BY <2>2, <2>3 DEF ScanOK
<1>2. CASE MonitorStep /\ UNCHANGED mainVars
  <2>1. mon \in MonType /\ mon.k \in 0 .. NumThread
    BY DEF TypeOK, MonType
  <2>2. CASE Stamp
    <3>1. mon'.pc = "scan" /\ mon'.k = mon.k + 1 /\ mon'.done = mon.done
      BY <2>1, <2>2 DEF Stamp, MonType
    <3>2. ~mon.done
      BY <2>2 DEF Stamp, ScanOK
    <3> QED BY <3>1, <3>2 DEF ScanOK
  <2>3. CASE Scan
    <3>1. \A t \in Thread : t < mon.k + 1 <=> t < mon.k \/ t = mon.k
      BY <2>1, Options
    <3> QED BY <2>1, <2>3, <3>1 DEF Scan, ScanOK, OnlyMon, MonType
  <2>4. CASE Poll
    <3>1. \A t \in Thread : ~(t < 0)
      BY Options
    <3> QED BY <2>1, <2>4, <3>1 DEF Poll, ScanOK, MonType
  <2>5. CASE MonStart \/ ScanEnd \/ Show \/ MonCheckInterrupted \/ MonCheckTime
    BY <2>1, <2>5 DEF MonStart, ScanEnd, Show, MonCheckInterrupted, MonCheckTime, MonType,
                      ScanOK
  <2> QED BY <1>2, <2>2, <2>3, <2>4, <2>5 DEF MonitorStep
<1>3. CASE UNCHANGED <<stat, mon>>
  BY <1>3 DEF ScanOK
<1>4. CASE Setup \/ NewMonitor
  BY <1>4 DEF Setup, NewMonitor, NoMonitor, ScanOK
<1>5. CASE StampBegin
  <2>1. \A t \in Thread : stat'[t].done = stat[t].done
    BY <1>5 DEF StampBegin, SetTimeBegin, TypeOK, StatType, PhaseOK
  <2> QED BY <1>5, <2>1 DEF StampBegin, ScanOK
<1>6. CASE Tick
  <2>1. \A t \in Thread : stat'[t].done = stat[t].done
    BY <1>6 DEF Tick, TypeOK, StatType
  <2>2. /\ mon'.pc = mon.pc \/ mon'.pc = "timer"
        /\ mon'.k = mon.k /\ mon'.done = mon.done
    BY <1>6 DEF Tick, TypeOK, MonType
  <2> QED BY <2>1, <2>2 DEF ScanOK
<1> QED
  BY <1>1, <1>2, <1>3, <1>4, <1>5, <1>6, NextCases
     DEF PrintAborts, SetupFlist, NewWorker, CreateFailed, EarlyReturn, JoinWorker,
         JoinMonitor, Collect, Cleanup, Report, Sigint, vars, workVars

\* The monitor leaves early only for SIGINT or the time limit.
LEMMA LeavesStep ==
  ASSUME TypeOK, PhaseOK, ScanOK, MonitorLeavesLast, [Next]_vars
  PROVE  MonitorLeavesLast'
<1>1. CASE \E t \in Thread : WorkerRuns(t)
  <2>1. PICK t \in Thread : WorkerRuns(t)
    BY <1>1
  <2>2. UNCHANGED <<mon, interrupted>>
    BY <2>1, WorkerMoves DEF WorkerRuns
  <2>3. \A u \in Thread : stat[u].done => stat'[u].done
    BY <2>1 DEF WorkerRuns, WorkerStep, Start, Entry, WalkThrows, EndPass,
         CheckInterrupted, CheckTime, SetDone, StampEnd, SetTimeEnd, Catch, TypeOK, StatType
  <2> QED BY <2>2, <2>3 DEF MonitorLeavesLast
<1>2. CASE MonitorStep /\ UNCHANGED mainVars
  <2>1. mon \in MonType
    BY DEF TypeOK
  <2>2. CASE ScanEnd
    <3>1. \A t \in Thread : t < NumThread
      BY Options
    <3> QED BY <2>1, <2>2, <3>1 DEF ScanEnd, OnlyMon, MonType, ScanOK, MonitorLeavesLast
  <2>3. CASE MonCheckInterrupted \/ MonCheckTime
    BY <2>1, <2>3 DEF MonCheckInterrupted, MonCheckTime, SecElapsed, OnlyMon, MonType,
                      MonitorLeavesLast
  <2>4. CASE MonStart \/ Poll \/ Scan \/ Stamp \/ Show
    <3>1. mon'.pc # "exited"
      BY <2>1, <2>4 DEF MonStart, Poll, Scan, Stamp, Show, MonType
    <3> QED BY <3>1 DEF MonitorLeavesLast
  <2> QED BY <1>2, <2>2, <2>3, <2>4 DEF MonitorStep
<1>3. CASE UNCHANGED <<stat, mon>> /\ (interrupted => interrupted')
  BY <1>3 DEF MonitorLeavesLast
<1>4. CASE Setup \/ NewMonitor
  BY <1>4 DEF Setup, NewMonitor, NoMonitor, MonitorLeavesLast
<1>5. CASE StampBegin
  <2>1. \A t \in Thread : stat'[t].done = stat[t].done
    BY <1>5 DEF StampBegin, SetTimeBegin, TypeOK, StatType, PhaseOK
  <2> QED BY <1>5, <2>1 DEF StampBegin, MonitorLeavesLast
<1>6. CASE Tick
  <2>1. \A t \in Thread : stat'[t].done = stat[t].done
    BY <1>6 DEF Tick, TypeOK, StatType
  <2>2. mon'.pc = mon.pc \/ mon'.pc = "timer"
    BY <1>6 DEF Tick, TypeOK, MonType
  <2> QED BY <1>6, <2>1, <2>2 DEF Tick, MonitorLeavesLast
<1>7. (PrintAborts \/ SetupFlist \/ NewWorker \/ CreateFailed \/ JoinWorker
       \/ JoinMonitor \/ Collect \/ Cleanup \/ Report \/ UNCHANGED vars)
        => UNCHANGED <<stat, mon, interrupted>>
  BY DEF PrintAborts, SetupFlist, NewWorker, CreateFailed, EarlyReturn, JoinWorker,
         JoinMonitor, Collect, Cleanup, Report, vars, workVars
<1>8. Sigint => UNCHANGED <<stat, mon>> /\ interrupted'
  BY DEF Sigint
<1> QED
  BY <1>1, <1>2, <1>3, <1>4, <1>5, <1>6, <1>7, <1>8, NextCases

\* What LateOK and InterruptPrompt say of one thread.
Late(t) ==
  /\ thr[t].pc \in {"none", "start", "pass", "time"} => hist[t].late = 0
  /\ hist[t].late > 0 => interrupted
  /\ hist[t].late > 0 /\ thr[t].pc \in Judged =>
       thr[t].num_interrupted > 0 \/ thr[t].num_error > 0
  /\ hist[t].late <= 1

\* A worker's own step takes up at most one entry after SIGINT.
LEMMA WorkerLate ==
  ASSUME TypeOK, NEW t \in Thread, WorkerStep(t), Late(t)
  PROVE  Late(t)'
<1>1. /\ thr[t].num_interrupted \in Nat /\ thr[t].num_error \in Nat
      /\ hist[t].late \in 0 .. 2 /\ hist[t] \in HistType /\ thr[t] \in ThrType
  BY DEF TypeOK, ThrType, HistType
<1>2. Judged = {"setdone", "settime", "exited"}
  BY DEF Judged, Leaving
<1>3. CASE Entry(t)
  <2>1. hist[t].late = 0
    BY <1>3, EntryMoves DEF Late
  <2>2. /\ hist'[t].late = IF interrupted THEN 1 ELSE 0
        /\ UNCHANGED interrupted
    BY <1>1, <1>3, <2>1 DEF Entry, TypeOK, HistType
  <2>3. \/ thr'[t].pc = "setdone" /\ thr'[t].num_error > 0
        \/ thr'[t].pc \in {"intr", "catch"}
    BY <1>1, <1>3, EntryMoves
  <2>4. interrupted' => interrupted
    BY <2>2
  <2> QED BY <1>2, <2>2, <2>3 DEF Late
<1>4. CASE EndPass(t)
  <2>1. hist[t].late = 0
    BY <1>4, EndPassMoves DEF Late
  <2> QED BY <1>4, <2>1 DEF EndPass, Late
<1>5. CASE CheckInterrupted(t)
  <2>1. UNCHANGED <<hist, interrupted>> /\ thr[t].pc = "intr"
    BY <1>5 DEF CheckInterrupted
  <2>2. CASE interrupted
    <3>1. thr'[t].pc = "setdone" /\ thr'[t].num_interrupted > 0
      BY <1>1, <1>5, <2>2 DEF CheckInterrupted, TypeOK, ThrType
    <3> QED BY <2>1, <3>1 DEF Late
  <2>3. CASE ~interrupted
    <3>1. thr'[t].pc = "time"
      BY <1>1, <1>5, <2>3 DEF CheckInterrupted, TypeOK, ThrType
    <3> QED BY <1>1, <1>2, <2>1, <2>3, <3>1 DEF Late
  <2> QED BY <2>2, <2>3
<1>6. CASE CheckTime(t)
  <2>1. UNCHANGED <<hist, interrupted>> /\ hist[t].late = 0
    BY <1>6 DEF CheckTime, Late
  <2> QED BY <2>1 DEF Late
<1>7. CASE Start(t) \/ WalkThrows(t)
  <2>1. UNCHANGED <<hist, interrupted>> /\ hist[t].late = 0
    BY <1>7 DEF Start, WalkThrows, Late
  <2> QED BY <2>1 DEF Late
<1>8. CASE SetDone(t) \/ StampEnd(t)
  <2>1. UNCHANGED <<hist, interrupted>> /\ thr[t].pc \in Judged
    BY <1>2, <1>8 DEF SetDone, StampEnd
  <2>2. /\ thr'[t].pc \in {"settime", "exited"}
        /\ thr'[t].num_interrupted = thr[t].num_interrupted
        /\ thr'[t].num_error = thr[t].num_error
    BY <1>8 DEF SetDone, StampEnd, TypeOK, ThrType
  <2> QED BY <2>1, <2>2 DEF Late
<1>9. CASE Catch(t)
  <2>1. UNCHANGED <<hist, interrupted>>
    BY <1>9 DEF Catch
  <2>2. thr'[t].pc = "exited" /\ thr'[t].num_error > 0
    BY <1>1, <1>9 DEF Catch, TypeOK, ThrType
  <2> QED BY <2>1, <2>2 DEF Late
<1> QED
  BY <1>3, <1>4, <1>5, <1>6, <1>7, <1>8, <1>9 DEF WorkerStep

LEMMA LateStep ==
  ASSUME TypeOK, PhaseOK, LateOK, InterruptPrompt, [Next]_vars
  PROVE  LateOK' /\ InterruptPrompt'
<1>1. \A t \in Thread : Late(t)
  BY DEF LateOK, InterruptPrompt, Late
<1>2. ASSUME NEW t \in Thread
      PROVE  Late(t)'
  <2>1. CASE \E u \in Thread : WorkerRuns(u)
    <3>1. PICK u \in Thread : WorkerRuns(u)
      BY <2>1
    <3>2. CASE u = t
      BY <1>1, <3>1, <3>2, WorkerLate DEF WorkerRuns
    <3>3. CASE u # t
      BY <1>1, <3>1, <3>3, WorkerMoves DEF WorkerRuns, Late
    <3> QED BY <3>2, <3>3
  <2>2. CASE Setup
    BY <2>2 DEF Setup, NewThread, NewHist, Late, Judged, Leaving
  <2>3. CASE NewWorker
    <3>1. k \in Thread
      BY <2>3 DEF NewWorker, PhaseOK
    <3>2. CASE t = k
      <4>1. thr'[t].pc = "start" /\ hist'[t].late = 0
        BY <2>3, <3>1, <3>2 DEF NewWorker, TypeOK, ThrType, NewHist
      <4> QED BY <4>1 DEF Late
    <3>3. CASE t # k
      BY <1>1, <2>3, <3>3 DEF NewWorker, TypeOK, Late
    <3> QED BY <3>2, <3>3
  <2>4. CASE Tick
    <3>1. hist'[t].late = hist[t].late /\ UNCHANGED <<thr, interrupted>>
      BY <2>4 DEF Tick, TypeOK, HistType
    <3> QED BY <1>1, <3>1 DEF Late
  <2>5. CASE UNCHANGED <<thr, hist>> /\ (interrupted => interrupted')
    BY <1>1, <2>5 DEF Late
  <2>6. (MonitorStep /\ UNCHANGED mainVars) => UNCHANGED <<thr, hist, interrupted>>
    BY MonitorKeeps
  <2>7. (\/ PrintAborts \/ SetupFlist \/ NewMonitor \/ CreateFailed \/ StampBegin
         \/ JoinWorker \/ JoinMonitor \/ Collect \/ Cleanup \/ Report \/ UNCHANGED vars)
          => UNCHANGED <<thr, hist, interrupted>>
    BY DEF PrintAborts, SetupFlist, NewMonitor, CreateFailed, EarlyReturn, StampBegin,
           JoinWorker, JoinMonitor, Collect, Cleanup, Report, vars, workVars
  <2>8. Sigint => UNCHANGED <<thr, hist>> /\ interrupted'
    BY DEF Sigint
  <2> QED
    BY <2>1, <2>2, <2>3, <2>4, <2>5, <2>6, <2>7, <2>8, NextCases
<1> QED BY <1>2 DEF LateOK, InterruptPrompt, Late

\* What VerdictJustified says of one thread.
Justified(t) ==
  /\ thr[t].num_interrupted > 0 => interrupted
  /\ thr[t].num_complete > 0 /\ TimeSecond <= 0 =>
       \/ NumRepeat > 0 /\ thr[t].repeat >= NumRepeat
       \/ /\ ~IsReader(t) /\ NumWritePaths > 0
          /\ thr[t].num_write_paths >= NumWritePaths

LEMMA SumZero ==
  ASSUME NEW a \in Nat, NEW b \in Nat, NEW c \in Nat, a + b + c = 0
  PROVE  a = 0 /\ b = 0 /\ c = 0
OBVIOUS

\* A working worker has no verdict yet.
LEMMA WorkingUndecided ==
  ASSUME TypeOK, OneVerdict, NEW t \in Thread, thr[t].pc \notin Judged
  PROVE  /\ thr[t].num_complete = 0 /\ thr[t].num_interrupted = 0
         /\ thr[t].num_error = 0
<1>1. /\ thr[t].num_complete \in Nat /\ thr[t].num_interrupted \in Nat
      /\ thr[t].num_error \in Nat
  BY DEF TypeOK, ThrType
<1>2. thr[t].num_complete + thr[t].num_interrupted + thr[t].num_error = 0
  BY DEF OneVerdict, Verdicts
<1> QED BY <1>1, <1>2, SumZero

LEMMA WorkerJustified ==
  ASSUME TypeOK, OneVerdict, NEW t \in Thread, WorkerStep(t), Justified(t)
  PROVE  Justified(t)'
<1>1. Judged = {"setdone", "settime", "exited"}
  BY DEF Judged, Leaving
<1>2. CASE Entry(t)
  <2>1. thr'[t].num_complete = 0 /\ thr'[t].num_interrupted = 0
    BY <1>1, <1>2, EntryMoves, WorkingUndecided
  <2> QED BY <2>1 DEF Justified
<1>3. CASE EndPass(t)
  <2>1. thr[t].num_complete = 0 /\ thr[t].num_interrupted = 0
    BY <1>1, <1>3, EndPassMoves, WorkingUndecided
  <2>2. PICK n \in NextRepeat(thr[t].repeat) :
          thr' = IF RepeatsDone(n) \/ IsWriteDone(t)
                 THEN [thr EXCEPT ![t].pc = "setdone", ![t].repeat = n,
                                  ![t].num_complete = @ + 1]
                 ELSE [thr EXCEPT ![t].i = 0, ![t].repeat = n]
    BY <1>3 DEF EndPass
  <2>3. CASE RepeatsDone(n) \/ IsWriteDone(t)
    <3>1. /\ thr'[t].repeat = n /\ thr'[t].num_interrupted = 0
          /\ thr'[t].num_write_paths = thr[t].num_write_paths
      BY <2>1, <2>2, <2>3 DEF TypeOK, ThrType
    <3> QED BY <2>3, <3>1 DEF RepeatsDone, IsWriteDone, Justified
  <2>4. CASE ~(RepeatsDone(n) \/ IsWriteDone(t))
    <3>1. thr'[t].num_complete = 0 /\ thr'[t].num_interrupted = 0
      BY <2>1, <2>2, <2>4 DEF TypeOK, ThrType
    <3> QED BY <3>1 DEF Justified
  <2> QED BY <2>3, <2>4
<1>4. CASE CheckInterrupted(t)
  <2>1. thr[t].num_complete = 0 /\ thr[t].num_interrupted = 0
    BY <1>1, <1>4, WorkingUndecided DEF CheckInterrupted
  <2>2. thr'[t].num_complete = 0 /\ (thr'[t].num_interrupted > 0 => interrupted')
    BY <1>4, <2>1 DEF CheckInterrupted, TypeOK, ThrType
  <2> QED BY <2>2 DEF Justified
<1>5. CASE CheckTime(t)
  <2>1. thr[t].num_complete = 0 /\ thr[t].num_interrupted = 0
    BY <1>1, <1>5, WorkingUndecided DEF CheckTime
  <2>2. thr'[t].num_interrupted = 0 /\ (thr'[t].num_complete > 0 => TimeSecond > 0)
    BY <1>5, <2>1 DEF CheckTime, SecElapsed, TypeOK, ThrType
  <2> QED BY <2>2, Options DEF Justified
<1>6. CASE Start(t) \/ WalkThrows(t) \/ SetDone(t) \/ StampEnd(t) \/ Catch(t)
  <2>1. /\ thr'[t].num_complete = thr[t].num_complete
        /\ thr'[t].num_interrupted = thr[t].num_interrupted
        /\ thr'[t].repeat = thr[t].repeat
        /\ thr'[t].num_write_paths = thr[t].num_write_paths
        /\ UNCHANGED interrupted
    BY <1>6 DEF Start, WalkThrows, SetDone, StampEnd, Catch, TypeOK, ThrType
  <2> QED BY <2>1 DEF Justified
<1> QED
  BY <1>2, <1>3, <1>4, <1>5, <1>6 DEF WorkerStep

LEMMA JustifiedStep ==
  ASSUME TypeOK, OneVerdict, PhaseOK, VerdictJustified, [Next]_vars
  PROVE  VerdictJustified'
<1>1. \A t \in Thread : Justified(t)
  BY DEF VerdictJustified, Justified
<1>2. ASSUME NEW t \in Thread
      PROVE  Justified(t)'
  <2>1. CASE \E u \in Thread : WorkerRuns(u)
    <3>1. PICK u \in Thread : WorkerRuns(u)
      BY <2>1
    <3>2. CASE u = t
      BY <1>1, <3>1, <3>2, WorkerJustified DEF WorkerRuns
    <3>3. CASE u # t
      BY <1>1, <3>1, <3>3, WorkerMoves DEF WorkerRuns, Justified
    <3> QED BY <3>2, <3>3
  <2>2. CASE Setup
    BY <2>2 DEF Setup, NewThread, Justified
  <2>3. CASE NewWorker
    <3>1. /\ thr'[t].num_complete = thr[t].num_complete
          /\ thr'[t].num_interrupted = thr[t].num_interrupted
          /\ thr'[t].repeat = thr[t].repeat
          /\ thr'[t].num_write_paths = thr[t].num_write_paths
          /\ UNCHANGED interrupted
      BY <2>3 DEF NewWorker, TypeOK, ThrType
    <3> QED BY <1>1, <3>1 DEF Justified
  <2>4. CASE UNCHANGED thr /\ (interrupted => interrupted')
    BY <1>1, <2>4 DEF Justified
  <2>5. (MonitorStep /\ UNCHANGED mainVars) => UNCHANGED <<thr, interrupted>>
    BY MonitorKeeps
  <2>6. (\/ PrintAborts \/ SetupFlist \/ NewMonitor \/ CreateFailed \/ StampBegin
         \/ JoinWorker \/ JoinMonitor \/ Collect \/ Cleanup \/ Report \/ Tick
         \/ UNCHANGED vars) => UNCHANGED <<thr, interrupted>>
    BY DEF PrintAborts, SetupFlist, NewMonitor, CreateFailed, EarlyReturn, StampBegin,
           JoinWorker, JoinMonitor, Collect, Cleanup, Report, Tick, vars, workVars
  <2>7. Sigint => UNCHANGED thr /\ interrupted'
    BY DEF Sigint
  <2> QED
    BY <2>1, <2>2, <2>3, <2>4, <2>5, <2>6, <2>7, NextCases
<1> QED BY <1>2 DEF VerdictJustified, Justified

-----------------------------------------------------------------------------
(* The theorems.                                                           *)

LEMMA IndInit == Init => IndInv
<1> SUFFICES ASSUME Init PROVE IndInv
  OBVIOUS
<1>1. TypeOK
  BY TypeInit
<1>2. OneVerdict
  BY DEF Init, OneVerdict, Verdicts, NewThread, Judged, Leaving
<1>3. PhaseOK
  BY DEF Init, PhaseOK, NoneLive, Live, MonitorLive, NewThread, NoMonitor
<1>4. SumsOK /\ BeginOK /\ ScanOK
  BY DEF Init, SumsOK, BeginOK, NewStat, ScanOK, NoMonitor
<1>41. AgeOK
  BY DEF Init, AgeOK, Begun
<1>5. LateOK /\ InterruptPrompt
  BY DEF Init, LateOK, InterruptPrompt, NewHist
<1>6. MonitorLeavesLast /\ VerdictJustified
  BY DEF Init, MonitorLeavesLast, NoMonitor, VerdictJustified, NewThread
<1> QED BY <1>1, <1>2, <1>3, <1>4, <1>41, <1>5, <1>6 DEF IndInv

LEMMA IndStep == IndInv /\ [Next]_vars => IndInv'
BY TypeStep, VerdictStep, PhaseStep, SumsStep, BeginStep, AgeStep, ScanStep, LateStep,
   LeavesStep, JustifiedStep DEF IndInv

\* The inductive invariant holds in every reachable state.
THEOREM Invariance == Spec => []IndInv
BY IndInit, IndStep, PTL DEF Spec

\* Type correctness: in particular the path counts stay within their cap, repeat
\* within its width, and the monitor's index within the threads.
THEOREM TypeCorrect == Spec => []TypeOK
BY Invariance, PTL DEF IndInv

\* Every worker gets exactly one verdict, whichever of the signal, the limits and
\* the failures comes first.
THEOREM VerdictOnce == Spec => []OneVerdict
BY Invariance, PTL DEF IndInv

\* The sums that dispatch_worker returns account for every thread.
THEOREM SumsAccount == Spec => []ResultComplete
<1>1. ASSUME IndInv PROVE ResultComplete
  <2>1. \A t \in Thread : t < NumThread
    BY Options
  <2> QED BY <1>1, <2>1 DEF IndInv, SumsOK, SumsUpTo, ResultComplete
<1> QED BY <1>1, Invariance, PTL

\* No thread outlives dispatch_worker, unless a failed creation returns from it: in the
\* std build, and in the POSIX build while no thread fails to be created.
THEOREM ThreadsEndFirst ==
  ASSUME "returns" \notin CreateFails
  PROVE  Spec => []NoThreadOutlives
<1>1. ASSUME IndInv PROVE NoThreadOutlives
  BY <1>1 DEF IndInv, PhaseOK, NoneLive, NoThreadOutlives
<1> QED BY <1>1, Invariance, PTL

\* A verdict has its reason: the signal, or one of the limits.
THEOREM VerdictsHaveReasons == Spec => []VerdictJustified
BY Invariance, PTL DEF IndInv

\* A worker takes up at most one more entry after SIGINT.
THEOREM SigintIsPrompt == Spec => []InterruptPrompt
BY Invariance, PTL DEF IndInv

\* The monitor's unlocked scan never makes it leave early.
THEOREM MonitorStays == Spec => []MonitorLeavesLast
BY Invariance, PTL DEF IndInv

\* sec_elapsed counts from the begin that dispatch_worker stamps, which is never before
\* the thread: the time limit ends no worker early.
THEOREM LimitIsNotEarly == Spec => TimeoutNotEarly
<1> DEFINE OnTime(t) ==
      main \notin {"create", "begin"} /\ thr[t].pc = "time" /\ thr'[t].pc = "setdone" =>
        hist[t].life > TimeSecond
<1>1. ASSUME IndInv, [Next]_vars, NEW t \in Thread, main \notin {"create", "begin"},
             thr[t].pc = "time", thr'[t].pc = "setdone"
      PROVE  hist[t].life > TimeSecond
  <2>1. \E u \in Thread : WorkerRuns(u)
    <3>1. thr' # thr
      BY <1>1
    <3>2. ~Setup
      BY <1>1 DEF Setup, NewThread
    <3> QED BY <1>1, <3>1, <3>2, NextCases, MonitorKeeps
      DEF PrintAborts, SetupFlist, NewMonitor, NewWorker, CreateFailed, EarlyReturn,
          StampBegin, JoinWorker, JoinMonitor, Collect, Cleanup, Report, Sigint, Tick, vars,
          workVars
  <2>2. PICK u \in Thread : WorkerRuns(u)
    BY <2>1
  <2>3. u = t /\ WorkerStep(t) /\ main \notin Ended
    BY <1>1, <2>2, WorkerMoves DEF WorkerRuns, IndInv
  <2>4. SecElapsed(stat[t])
    <3>1. CheckTime(t)
      BY <1>1, <2>3 DEF WorkerStep, Start, Entry, WalkThrows, EndPass, CheckInterrupted,
                        SetDone, StampEnd, Catch
    <3> QED BY <1>1, <3>1 DEF CheckTime, IndInv, TypeOK, ThrType
  <2>5. main = "join"
    BY <1>1, <2>3 DEF IndInv, TypeOK, MainPc, PhaseOK, NoneCreated, AllExited, NoneLive, Live
  <2>6. stat[t].age <= hist[t].life /\ stat[t].age \in Nat /\ hist[t].life \in Nat
    BY <1>1, <2>5, Options DEF IndInv, AgeOK, Begun, TypeOK, StatType, HistType
  <2> QED BY <2>4, <2>6, Options DEF SecElapsed
<1>2. IndInv /\ [Next]_vars => [\A t \in Thread : OnTime(t)]_vars
  BY <1>1
<1>3. Spec => [][\A t \in Thread : OnTime(t)]_vars
  BY <1>2, Invariance, PTL DEF Spec
<1> QED BY <1>3 DEF TimeoutNotEarly

\* SIGINT reaches the loop over the sets through the verdicts.
THEOREM SigintEndsSets ==
  ASSUME "returns" \notin CreateFails
  PROVE  Spec => InterruptedSetIsLast
<1>1. ASSUME IndInv, main = "report", main' = "setup", [Next]_vars, NEW t \in Thread,
             hist[t].late > 0
      PROVE  thr[t].num_error > 0
  <2>1. Report
    BY <1>1, NextCases
       DEF WorkerRuns, PrintAborts, Setup, SetupFlist, NewMonitor, NewWorker, CreateFailed,
           StampBegin, JoinWorker, JoinMonitor, Collect, Cleanup, Sigint, Tick, vars, mainVars
  <2>2. res.interrupted = 0 /\ SumsUpTo(NumThread)
    BY <1>1, <2>1 DEF Report, AnotherSet, IndInv, SumsOK
  <2>3. t < NumThread /\ ~(thr[t].num_interrupted > 0)
    BY <2>2, Options DEF SumsUpTo
  <2>4. thr[t].pc \in Judged
    BY <1>1 DEF IndInv, PhaseOK, AllExited, Judged
  <2> QED BY <1>1, <2>3, <2>4 DEF IndInv, LateOK
<1>2. IndInv /\ [Next]_vars =>
        [main = "report" /\ main' = "setup" =>
           \A t \in Thread : hist[t].late > 0 => thr[t].num_error > 0]_vars
  BY <1>1
<1> QED BY <1>2, Invariance, PTL DEF Spec, InterruptedSetIsLast

-----------------------------------------------------------------------------
(* The dispatch implements the batch.                                      *)

\* A worker that is leaving keeps its verdict.
LEMMA LeavingKeeps ==
  ASSUME TypeOK, OneVerdict, NEW t \in Thread, WorkerStep(t), Verdicts(t) # 0
  PROVE  /\ thr'[t].num_complete = thr[t].num_complete
         /\ thr'[t].num_interrupted = thr[t].num_interrupted
         /\ thr'[t].num_error = thr[t].num_error
<1>1. thr[t].pc \in {"setdone", "settime", "exited"}
  BY DEF OneVerdict, Judged, Leaving
<1>2. SetDone(t) \/ StampEnd(t)
  BY <1>1 DEF WorkerStep, Start, Entry, WalkThrows, EndPass, CheckInterrupted, CheckTime,
              Catch
<1> QED BY <1>2 DEF SetDone, StampEnd, TypeOK, ThrType

\* The verdicts of the batch, as functions of the threads.
Seen == [t \in Thread |-> VerdictOf(t)]

\* Nothing changes for the batch while the main thread stays where the verdicts
\* count and the threads keep theirs.
LEMMA BatchStutters ==
  ASSUME UNCHANGED <<set, Outcome>>,
         \A t \in Thread : VerdictOf(t)' = VerdictOf(t)
  PROVE  UNCHANGED B!vars
<1>1. Seen' = Seen
  BY DEF Seen
<1> QED BY <1>1 DEF B!vars, Seen

\* A step of a worker is a decision or nothing to the batch.
LEMMA BatchWorker ==
  ASSUME IndInv, NEW t \in Thread, WorkerRuns(t)
  PROVE  B!Decide(t) \/ UNCHANGED B!vars
<1>1. /\ TypeOK /\ OneVerdict /\ PhaseOK /\ WorkerStep(t)
      /\ UNCHANGED <<main, set>> /\ main \notin Ended
  BY DEF IndInv, WorkerRuns, mainVars
<1>2. \A u \in Thread : u # t => thr'[u] = thr[u]
  BY <1>1, WorkerMoves
<1>3. \A u \in Thread : u # t => VerdictOf(u)' = VerdictOf(u)
  BY <1>1, <1>2 DEF VerdictOf, Verdicts
<1>4. Outcome = "running" /\ Outcome' = "running"
  BY <1>1 DEF Outcome
<1>5. CASE VerdictOf(t)' = VerdictOf(t)
  BY <1>1, <1>3, <1>4, <1>5, BatchStutters
<1>6. CASE VerdictOf(t)' # VerdictOf(t)
  <2>1. VerdictOf(t) = "none"
    <3>1. CASE Verdicts(t) = 0
      BY <3>1 DEF VerdictOf
    <3>2. CASE Verdicts(t) # 0
      BY <1>1, <1>6, <3>2, LeavingKeeps DEF VerdictOf, Verdicts
    <3> QED BY <3>1, <3>2
  <2>2. VerdictOf(t)' \in B!Verdict
    BY <1>6, <2>1 DEF VerdictOf, B!Verdict
  <2>3. Seen' = [Seen EXCEPT ![t] = VerdictOf(t)']
    BY <1>3 DEF Seen
  <2> QED BY <1>1, <1>4, <2>1, <2>2, <2>3 DEF B!Decide, Seen
<1> QED BY <1>5, <1>6

\* At the report every thread has been judged, and the sums say what was seen.
LEMMA ReportSees ==
  ASSUME IndInv, "returns" \notin CreateFails, main = "report"
  PROVE  /\ \A t \in Thread : VerdictOf(t) # "none"
         /\ res.interrupted > 0 <=> \E t \in Thread : VerdictOf(t) = "interrupted"
<1>1. ASSUME NEW t \in Thread
      PROVE  /\ VerdictOf(t) # "none" /\ t < NumThread
             /\ VerdictOf(t) = "interrupted" <=> thr[t].num_interrupted > 0
  <2>1. Verdicts(t) = 1 /\ t < NumThread
    BY Options DEF IndInv, PhaseOK, AllExited, OneVerdict, Judged
  <2>2. /\ thr[t].num_complete \in Nat /\ thr[t].num_interrupted \in Nat
        /\ thr[t].num_error \in Nat
    BY DEF IndInv, TypeOK, ThrType
  <2>3. ~(thr[t].num_complete > 0 /\ thr[t].num_interrupted > 0)
    BY <2>1, <2>2 DEF Verdicts
  <2> QED BY <2>1, <2>2, <2>3 DEF VerdictOf
<1>2. res.interrupted > 0 <=>
        \E t \in Thread : t < NumThread /\ thr[t].num_interrupted > 0
  BY DEF IndInv, SumsOK, SumsUpTo
<1> QED BY <1>1, <1>2

\* The report is where the batch goes on to the next set, or finishes.
LEMMA BatchReport ==
  ASSUME IndInv, "returns" \notin CreateFails, Report
  PROVE  B!NextSet \/ B!Finish
<1>1. main = "report" /\ Outcome = "running"
  BY DEF Report, Outcome, Ended
<1>2. /\ B!AllDecided
      /\ res.interrupted > 0 <=> B!Interrupted
  BY <1>1, ReportSees DEF B!AllDecided, B!Interrupted
<1>3. res.interrupted \in Nat /\ set \in Nat /\ NumSet \in Nat
  BY GlobalAssumption DEF IndInv, TypeOK, ResType, GlobalAssumption
<1>4. CASE AnotherSet
  <2>1. main' = "setup" /\ set' = set + 1
    BY <1>4 DEF Report
  <2>2. Seen' = [t \in Thread |-> "none"] /\ Outcome' = "running"
    BY <2>1 DEF Seen, VerdictOf, Outcome, Ended
  <2>3. ~B!Interrupted /\ set + 1 < NumSet
    BY <1>2, <1>3, <1>4 DEF AnotherSet
  <2> QED BY <1>1, <1>2, <2>1, <2>2, <2>3 DEF B!NextSet, B!Undecided, Seen
<1>5. CASE ~AnotherSet
  <2>1. main' = "exit0" /\ UNCHANGED <<set, thr>>
    BY <1>5 DEF Report, workVars
  <2>2. Seen' = Seen /\ Outcome' = "ok"
    BY <1>1, <2>1 DEF Seen, VerdictOf, Verdicts, Outcome, Ended
  <2>3. B!Interrupted \/ set + 1 >= NumSet
    BY <1>2, <1>3, <1>5 DEF AnotherSet
  <2> QED BY <1>1, <1>2, <2>1, <2>2, <2>3 DEF B!Finish, Seen
<1> QED BY <1>4, <1>5

\* A step that ends the process badly is a failure to the batch; one that moves
\* the main thread while the verdicts stay is nothing.
LEMMA BatchMain ==
  ASSUME UNCHANGED set, main \notin Ended, main' # "exit0", main # "setup", main' # "setup",
         \A t \in Thread : /\ thr'[t].num_complete = thr[t].num_complete
                          /\ thr'[t].num_interrupted = thr[t].num_interrupted
                          /\ thr'[t].num_error = thr[t].num_error
  PROVE  B!Fail \/ UNCHANGED B!vars
<1>1. \A t \in Thread : VerdictOf(t)' = VerdictOf(t)
  BY DEF VerdictOf, Verdicts
<1>2. Seen' = Seen /\ Outcome = "running"
  BY <1>1 DEF Seen, Outcome
<1>3. CASE main' \in Ended
  BY <1>2, <1>3 DEF B!Fail, Outcome, Seen
<1>4. CASE main' \notin Ended
  <2>1. UNCHANGED Outcome
    BY <1>4 DEF Outcome
  <2> QED BY <1>1, <2>1, BatchStutters
<1> QED BY <1>3, <1>4

LEMMA BatchStep ==
  ASSUME IndInv, "returns" \notin CreateFails, [Next]_vars
  PROVE  [B!Next]_B!vars
<1>1. CASE \E t \in Thread : WorkerRuns(t)
  BY <1>1, BatchWorker DEF B!Next
<1>2. CASE Report
  BY <1>2, BatchReport DEF B!Next
<1>3. CASE Setup
  <2>1. \A t \in Thread : VerdictOf(t)' = VerdictOf(t)
    BY <1>3 DEF Setup, VerdictOf, Verdicts, NewThread
  <2>2. UNCHANGED <<set, Outcome>>
    BY <1>3 DEF Setup, Outcome, Ended
  <2> QED BY <2>1, <2>2, BatchStutters
<1>4. CASE UNCHANGED <<main, set, thr>>
  BY <1>4, BatchStutters DEF Outcome, VerdictOf, Verdicts
<1>5. CASE NewWorker
  <2>1. \A t \in Thread : /\ thr'[t].num_complete = thr[t].num_complete
                         /\ thr'[t].num_interrupted = thr[t].num_interrupted
                         /\ thr'[t].num_error = thr[t].num_error
    BY <1>5 DEF NewWorker, IndInv, TypeOK, ThrType
  <2>2. /\ UNCHANGED set /\ main \notin Ended /\ main' # "exit0"
        /\ main # "setup" /\ main' # "setup"
    BY <1>5 DEF NewWorker, Ended
  <2> QED BY <2>1, <2>2, BatchMain DEF B!Next
<1>6. CASE \/ SetupFlist \/ NewMonitor \/ StampBegin \/ JoinWorker
           \/ JoinMonitor \/ Collect \/ Cleanup
  <2>1. UNCHANGED <<set, thr>>
    BY <1>6 DEF SetupFlist, NewMonitor, StampBegin, JoinWorker, JoinMonitor, Collect,
                Cleanup, workVars
  <2>2. /\ main \notin Ended /\ main' # "exit0" /\ main # "setup" /\ main' # "setup"
    BY <1>6 DEF SetupFlist, FirstCreate, NewMonitor, StampBegin, JoinWorker, AfterJoins,
                JoinMonitor, Collect, Cleanup, NextThread, Ended
  <2> QED BY <2>1, <2>2, BatchMain DEF B!Next
<1>7. CASE PrintAborts
  <2>1. main' = "abort" /\ UNCHANGED <<set, thr>>
    BY <1>7 DEF PrintAborts, workVars
  <2>2. mon.pc = "print"
    BY <1>7 DEF PrintAborts
  <2>3. main \notin {"setup", "exit0", "exit1", "undefined"}
    BY <2>2 DEF IndInv, PhaseOK, NoneLive, MonitorLive
  <2>4. main # "abort" => B!Fail \/ UNCHANGED B!vars
    BY <2>1, <2>3, BatchMain DEF Ended
  <2>5. main = "abort" => UNCHANGED B!vars
    BY <1>4, <2>1, BatchStutters DEF Outcome, VerdictOf, Verdicts
  <2> QED BY <2>4, <2>5 DEF B!Next
<1>8. CASE CreateFailed
  <2>1. /\ main \in {"create_mon", "create"} /\ main' \in {"abort", "exit1"}
        /\ UNCHANGED <<set, thr>>
    BY <1>8 DEF CreateFailed, EarlyReturn
  <2> QED BY <2>1, BatchMain DEF B!Next, Ended
<1>9. (Sigint \/ Tick \/ UNCHANGED vars \/ (MonitorStep /\ UNCHANGED mainVars))
        => UNCHANGED <<main, set, thr>>
  BY MonitorKeeps DEF Sigint, Tick, vars, mainVars, workVars
<1> QED
  BY <1>1, <1>2, <1>3, <1>4, <1>5, <1>6, <1>7, <1>8, <1>9, NextCases

LEMMA BatchInit == Init => B!Init
<1> SUFFICES ASSUME Init PROVE B!Init
  OBVIOUS
<1>1. Seen = [t \in Thread |-> "none"]
  BY DEF Init, Seen, VerdictOf, Verdicts, NewThread
<1>2. Outcome = IF NumSet = 0 THEN "ok" ELSE "running"
  BY DEF Init, Outcome, Ended
<1> QED BY <1>1, <1>2 DEF Init, B!Init, B!Undecided, Seen

\* The threads, joins, sums and the loop over the sets implement the batch.
THEOREM ImplementsBatch ==
  ASSUME "returns" \notin CreateFails
  PROVE  Spec => BatchSpec
BY BatchInit, BatchStep, Invariance, PTL DEF Spec, BatchSpec, B!Spec

-----------------------------------------------------------------------------
(* The writers among the threads implement the write set.                  *)

\* What a step of a worker does to its paths.
LEMMA WorkerPaths ==
  ASSUME TypeOK, NEW t \in Thread, WorkerStep(t)
  PROVE  \/ thr'[t].num_write_paths = thr[t].num_write_paths
         \/ /\ t \in Writers /\ thr[t].pc # "exited" /\ thr'[t].pc # "exited"
            /\ NumWritePaths > 0 => thr[t].num_write_paths < NumWritePaths
            /\ thr'[t].num_write_paths = thr[t].num_write_paths + 1
<1>1. CASE Entry(t)
  <2>1. PICK kind \in NextKinds(t) : \E o \in Outcomes(t, kind) :
          thr' = [thr EXCEPT
            ![t].pc = AfterEntry(o.ret),
            ![t].num_error = IF o.ret = "error" THEN @ + 1 ELSE @,
            ![t].num_write_paths = MorePaths(@, o.paths)]
    BY <1>1 DEF Entry
  <2>2. PICK o \in Outcomes(t, kind) :
          thr' = [thr EXCEPT
            ![t].pc = AfterEntry(o.ret),
            ![t].num_error = IF o.ret = "error" THEN @ + 1 ELSE @,
            ![t].num_write_paths = MorePaths(@, o.paths)]
    BY <2>1
  <2>3. /\ thr'[t].pc = AfterEntry(o.ret)
        /\ thr'[t].num_write_paths = MorePaths(thr[t].num_write_paths, o.paths)
    BY <2>2 DEF TypeOK, ThrType
  <2>4. thr[t].pc # "exited" /\ thr'[t].pc # "exited"
    BY <1>1, EntryMoves
  <2>5. thr[t].num_write_paths \in Nat /\ NumWritePaths \in Int
    BY GlobalAssumption DEF TypeOK, ThrType, GlobalAssumption
  <2>6. CASE Writes(t, kind)
    <3>1. ~IsReader(t) /\ (NumWritePaths > 0 => thr[t].num_write_paths < NumWritePaths)
      BY <2>5, <2>6 DEF Writes, IsWriteDone
    <3> QED BY <2>3, <2>4, <2>5, <3>1, OutcomeType DEF MorePaths, Writers
  <2>7. CASE ~Writes(t, kind)
    <3>1. o.paths = 0
      BY <2>7 DEF Outcomes
    <3> QED BY <2>3, <2>5, <3>1 DEF MorePaths
  <2> QED BY <2>6, <2>7
<1>2. CASE EndPass(t)
  <2>1. PICK n \in NextRepeat(thr[t].repeat) :
          thr' = IF RepeatsDone(n) \/ IsWriteDone(t)
                 THEN [thr EXCEPT ![t].pc = "setdone", ![t].repeat = n,
                                  ![t].num_complete = @ + 1]
                 ELSE [thr EXCEPT ![t].i = 0, ![t].repeat = n]
    BY <1>2 DEF EndPass
  <2> QED BY <2>1 DEF TypeOK, ThrType
<1>3. CASE ~Entry(t) /\ ~EndPass(t)
  BY <1>3 DEF WorkerStep, Start, WalkThrows, CheckInterrupted, CheckTime, SetDone,
              StampEnd, Catch, TypeOK, ThrType
<1> QED BY <1>1, <1>2, <1>3

\* The write set only sees the paths, the exits and where the main thread is.
LEMMA WriteSetStutters ==
  ASSUME UNCHANGED SetPhase, main # "setup", main' # "setup",
         \A t \in Writers : /\ thr'[t].num_write_paths = thr[t].num_write_paths
                            /\ thr'[t].pc = "exited" <=> thr[t].pc = "exited"
  PROVE  UNCHANGED S!vars
<1>1. PathsSeen' = PathsSeen
  BY DEF PathsSeen, Writers
<1>2. LeftSeen' = LeftSeen
  BY DEF LeftSeen, Writers
<1> QED BY <1>1, <1>2 DEF S!vars

\* A step of a worker registers a path, leaves or is nothing to the write set.
LEMMA WriteSetWorker ==
  ASSUME IndInv, "returns" \notin CreateFails, NEW t \in Thread, WorkerRuns(t)
  PROVE  (t \in Writers /\ (S!Register(t) \/ S!Leave(t))) \/ UNCHANGED S!vars
<1>1. /\ TypeOK /\ PhaseOK /\ WorkerStep(t)
      /\ UNCHANGED main /\ main \notin Ended
  BY DEF IndInv, WorkerRuns, mainVars
<1>2. /\ thr[t].pc \in Working \cup Leaving
      /\ \A u \in Thread : u # t => thr'[u] = thr[u]
  BY <1>1, WorkerMoves
<1>3. main \notin {"setup", "report"}
  BY <1>1, <1>2 DEF PhaseOK, NoneLive, Live, Working, Leaving
<1>4. SetPhase = "run" /\ SetPhase' = "run"
  BY <1>1, <1>3 DEF SetPhase
<1>5. Writers \subseteq Thread /\ t \notin LeftSeen
  BY <1>2, <1>3 DEF Writers, LeftSeen, Working, Leaving
<1>6. CASE thr'[t].num_write_paths # thr[t].num_write_paths
  <2>1. /\ t \in Writers /\ thr'[t].pc # "exited"
        /\ NumWritePaths > 0 => thr[t].num_write_paths < NumWritePaths
        /\ thr'[t].num_write_paths = thr[t].num_write_paths + 1
    BY <1>1, <1>6, WorkerPaths
  <2>2. PathsSeen' = [PathsSeen EXCEPT ![t] = @ + 1]
    BY <1>1, <1>2, <1>3, <1>5, <2>1 DEF PathsSeen
  <2>3. LeftSeen' = LeftSeen
    BY <1>1, <1>2, <1>3, <1>5, <2>1 DEF LeftSeen
  <2>4. NumWritePaths > 0 => PathsSeen[t] < NumWritePaths
    BY <1>3, <2>1 DEF PathsSeen
  <2> QED BY <1>4, <1>5, <2>1, <2>2, <2>3, <2>4 DEF S!Register
<1>7. CASE thr'[t].num_write_paths = thr[t].num_write_paths
  <2>1. PathsSeen' = PathsSeen
    BY <1>1, <1>2, <1>3, <1>5, <1>7 DEF PathsSeen
  <2>2. CASE thr'[t].pc = "exited" /\ t \in Writers
    <3>1. LeftSeen' = LeftSeen \cup {t}
      BY <1>1, <1>2, <1>3, <1>5, <2>2 DEF LeftSeen
    <3> QED BY <1>4, <2>1, <2>2, <3>1 DEF S!Leave
  <2>3. CASE ~(thr'[t].pc = "exited" /\ t \in Writers)
    <3>1. LeftSeen' = LeftSeen
      BY <1>1, <1>2, <1>3, <1>5, <2>3 DEF LeftSeen
    <3> QED BY <1>4, <2>1, <3>1 DEF S!vars
  <2> QED BY <2>2, <2>3
<1> QED BY <1>6, <1>7

\* The set is over when the main thread is at the report, with all joined.
LEMMA WriteSetReport ==
  ASSUME IndInv, main \notin Ended \cup {"report", "setup"}, main' = "report",
         UNCHANGED thr, AllExited
  PROVE  S!SetOver
<1>1. SetPhase = "run" /\ SetPhase' = "over"
  BY DEF SetPhase, Ended
<1>2. UNCHANGED <<PathsSeen, LeftSeen>>
  BY DEF PathsSeen, LeftSeen
<1>3. LeftSeen = Writers
  BY DEF LeftSeen, AllExited, Writers
<1> QED BY <1>1, <1>2, <1>3 DEF S!SetOver

\* Setup makes new threads, or reports at once if there are none.
LEMMA WriteSetSetup ==
  ASSUME IndInv, Setup
  PROVE  S!SetOver \/ UNCHANGED S!vars
<1>1. UNCHANGED <<PathsSeen, LeftSeen>>
  BY DEF Setup, PathsSeen, LeftSeen, NewThread, Writers
<1>2. CASE NumThread = 0
  <2>1. SetPhase = "run" /\ SetPhase' = "over"
    BY <1>2 DEF Setup, SetPhase, Ended
  <2>2. Thread = {}
    BY <1>2, Options
  <2>3. Writers = {} /\ LeftSeen = {}
    BY <2>2 DEF Writers, LeftSeen
  <2> QED BY <1>1, <2>1, <2>3 DEF S!SetOver
<1>3. CASE NumThread # 0
  <2>1. SetPhase' = SetPhase
    BY <1>3 DEF Setup, SetPhase, Ended
  <2> QED BY <1>1, <2>1 DEF S!vars
<1> QED BY <1>2, <1>3

\* The end of the process ends the write set, wherever it was.
LEMMA WriteSetEnds ==
  ASSUME main # "setup", main' \in Ended, UNCHANGED thr
  PROVE  S!End
<1>1. UNCHANGED <<PathsSeen, LeftSeen>> /\ SetPhase' = "ended"
  BY DEF PathsSeen, LeftSeen, SetPhase, Ended
<1> QED BY <1>1 DEF S!End

LEMMA WriteSetStep ==
  ASSUME IndInv, "returns" \notin CreateFails, [Next]_vars
  PROVE  [S!Next]_S!vars
<1>1. CASE \E t \in Thread : WorkerRuns(t)
  BY <1>1, WriteSetWorker DEF S!Next
<1>2. CASE Setup
  BY <1>2, WriteSetSetup DEF S!Next
<1>3. CASE Report
  <2>1. main = "report" /\ main' \in {"setup", "exit0"} /\ UNCHANGED thr
    BY <1>3 DEF Report, workVars
  <2>2. CASE main' = "exit0"
    BY <2>1, <2>2, WriteSetEnds DEF S!Next, Ended
  <2>3. CASE main' = "setup"
    <3>1. SetPhase = "over" /\ SetPhase' = "run"
      BY <2>1, <2>3 DEF SetPhase, Ended
    <3>2. PathsSeen' = [t \in Writers |-> 0] /\ LeftSeen' = {}
      BY <2>3 DEF PathsSeen, LeftSeen
    <3> QED BY <3>1, <3>2 DEF S!Next, S!NextSet, S!NothingYet
  <2> QED BY <2>1, <2>2, <2>3
<1>4. CASE UNCHANGED <<main, thr>>
  BY <1>4 DEF S!vars, PathsSeen, LeftSeen, SetPhase
<1>5. CASE NewWorker
  <2>1. k \in Thread /\ thr[k].pc = "none" /\ main \notin {"setup", "report"} \cup Ended
        /\ main' \notin {"setup", "report"} \cup Ended
    BY <1>5, Options DEF NewWorker, IndInv, PhaseOK, Ended
  <2>2. \A t \in Writers : /\ thr'[t].num_write_paths = thr[t].num_write_paths
                           /\ thr'[t].pc = "exited" <=> thr[t].pc = "exited"
    BY <1>5, <2>1 DEF NewWorker, IndInv, TypeOK, ThrType, Writers
  <2> QED BY <2>1, <2>2, WriteSetStutters DEF SetPhase
<1>6. CASE SetupFlist \/ NewMonitor \/ StampBegin \/ JoinWorker \/ JoinMonitor \/ Collect
  <2>1. UNCHANGED thr /\ main \notin {"setup", "report"} \cup Ended
        /\ main' \notin {"setup", "report"}
    BY <1>6 DEF SetupFlist, FirstCreate, NewMonitor, StampBegin, JoinWorker, AfterJoins,
                JoinMonitor, Collect, NextThread, workVars, Ended
  <2>2. CASE main' \in Ended
    BY <2>1, <2>2, WriteSetEnds DEF S!Next
  <2>3. CASE main' \notin Ended
    BY <2>1, <2>3, WriteSetStutters DEF SetPhase
  <2> QED BY <2>2, <2>3
<1>7. CASE Cleanup
  <2>1. main = "cleanup" /\ UNCHANGED thr /\ main' \in {"report", "exit1"}
    BY <1>7 DEF Cleanup
  <2>2. AllExited
    BY <2>1 DEF IndInv, PhaseOK
  <2>3. CASE main' = "report"
    BY <2>1, <2>2, <2>3, WriteSetReport DEF S!Next, Ended
  <2>4. CASE main' = "exit1"
    BY <2>1, <2>4, WriteSetEnds DEF S!Next, Ended
  <2> QED BY <2>1, <2>3, <2>4
<1>8. CASE PrintAborts
  <2>1. main' = "abort" /\ UNCHANGED thr /\ mon.pc = "print"
    BY <1>8 DEF PrintAborts, workVars
  <2>2. main # "setup"
    BY <2>1 DEF IndInv, PhaseOK, NoneLive, MonitorLive
  <2> QED BY <2>1, <2>2, WriteSetEnds DEF S!Next, Ended
<1>9. CASE CreateFailed
  <2>1. /\ main \in {"create_mon", "create"} /\ main' \in {"abort", "exit1"}
        /\ UNCHANGED thr
    BY <1>9 DEF CreateFailed, EarlyReturn
  <2> QED BY <2>1, WriteSetEnds DEF S!Next, Ended
<1>10. (Sigint \/ Tick \/ UNCHANGED vars \/ (MonitorStep /\ UNCHANGED mainVars))
         => UNCHANGED <<main, thr>>
  BY MonitorKeeps DEF Sigint, Tick, vars, mainVars, workVars
<1> QED
  BY <1>1, <1>2, <1>3, <1>4, <1>5, <1>6, <1>7, <1>8, <1>9, <1>10, NextCases

LEMMA WriteSetInit == Init => S!Init
<1> SUFFICES ASSUME Init PROVE S!Init
  OBVIOUS
<1>1. PathsSeen = [t \in Writers |-> 0] /\ LeftSeen = {}
  BY DEF Init, PathsSeen, LeftSeen, NewThread, Writers
<1>2. SetPhase \in {"run", "ended"}
  BY DEF Init, SetPhase, Ended
<1> QED BY <1>1, <1>2 DEF S!Init, S!NothingYet

\* The writers, whatever the readers, the limits and the signal do meanwhile,
\* implement the write set.
THEOREM ImplementsWriteSet ==
  ASSUME "returns" \notin CreateFails
  PROVE  Spec => WriteSetSpec
BY WriteSetInit, WriteSetStep, Invariance, PTL DEF Spec, WriteSetSpec, S!Spec
=============================================================================
