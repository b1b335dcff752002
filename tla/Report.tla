------------------------------- MODULE Report -------------------------------
(***************************************************************************)
(* The counters of the workers and the tables made of them: print_stat,    *)
(* called by the monitor on the counters while they move, and by main on   *)
(* copies taken after the joins.  print_stat goes over the counters again  *)
(* and again, for the widths, for the rates and for the rows, and every    *)
(* access is a step.                                                       *)
(*                                                                         *)
(* Reads and writes count alike; one pair of counters stands for both.     *)
(***************************************************************************)
EXTENDS Integers, Sequences

CONSTANTS
  NumThread, \* the workers are 1 .. NumThread
  MaxOps,    \* bound: operations of one worker
  MaxTables, \* bound: tables of the monitor
  Sizes,     \* bytes of an operation
  Heading    \* the width of a heading; a number n is n wide

ASSUME ReportAssumption ==
  NumThread \in Nat \ {0} /\ MaxOps \in Nat /\ MaxTables \in Nat
  /\ Sizes \subseteq Nat /\ Heading \in Nat

VARIABLES
  count,   \* worker -> num_read or num_write, and the bytes
  owed,    \* worker -> what its operation still has to count
  log,     \* history: worker -> the bytes of its first operation, its first two, ...
  exited,  \* the workers that have exited
  mon,     \* the monitor: "runs" or "left"
  tables,  \* the tables that the monitor has begun
  copies,  \* the copies of dispatch_worker, none before
  who,     \* who is inside print_stat: "nobody", "monitor", "main"; main "finished"
  reads,   \* number of accesses of this print_stat
  seen,    \* column and row -> what was read for it
  last     \* worker -> what the table before this one said

workerVars == <<count, owed, log, exited>>
printVars == <<who, reads, seen, last>>
vars == <<workerVars, mon, tables, copies, printVars>>

Thread == 1 .. NumThread
Zero == [ops |-> 0, bytes |-> 0]
Passes == <<"width_ops", "width_bytes", "mib">>
Column == {"width_ops", "width_bytes", "mib", "ops", "bytes"}
NoTable == [c \in Column |-> [t \in Thread |-> 0]]

Init ==
  /\ count = [t \in Thread |-> Zero] /\ owed = [t \in Thread |-> Zero]
  /\ log = [t \in Thread |-> <<>>] /\ exited = {}
  /\ mon \in {"runs", "left"} /\ tables = 0
  /\ copies = <<>>
  /\ who = "nobody" /\ reads = 0 /\ seen = NoTable
  /\ last = [t \in Thread |-> Zero]

-----------------------------------------------------------------------------
(* The workers.                                                            *)

\* What the first n operations of t have moved.
BytesOf(t, n) == IF n <= 0 THEN 0 ELSE log[t][n]

Plus(a, b) == [ops |-> a.ops + b.ops, bytes |-> a.bytes + b.bytes]

\* inc_num and add_num_bytes: two stores that the build may swap.
CountFirst(t) ==
  /\ t \notin exited /\ owed[t] = Zero /\ Len(log[t]) < MaxOps
  /\ \E s \in Sizes :
       LET op == [Zero EXCEPT !.ops = 1]
           data == [Zero EXCEPT !.bytes = s]
       IN  /\ log' = [log EXCEPT ![t] = Append(@, BytesOf(t, Len(@)) + s)]
           /\ \E d \in {<<op, data>>, <<data, op>>} :
                /\ count' = [count EXCEPT ![t] = Plus(@, d[1])]
                /\ owed' = [owed EXCEPT ![t] = d[2]]
  /\ UNCHANGED <<exited, mon, tables, copies, printVars>>

CountRest(t) ==
  /\ owed[t] # Zero
  /\ count' = [count EXCEPT ![t] = Plus(@, owed[t])]
  /\ owed' = [owed EXCEPT ![t] = Zero]
  /\ UNCHANGED <<log, exited, mon, tables, copies, printVars>>

Exit(t) ==
  /\ t \notin exited /\ owed[t] = Zero
  /\ exited' = exited \cup {t}
  /\ UNCHANGED <<count, owed, log, mon, tables, copies, printVars>>

-----------------------------------------------------------------------------
(* print_stat.                                                             *)

PrintStat(p) == who' = p /\ reads' = 0 /\ seen' = NoTable

\* Mutation: the bytes come before the operations.
RowReadsSwapped == [k \in 1 .. 2 * NumThread |->
                      <<IF k % 2 = 1 THEN "bytes" ELSE "ops", (k + 1) \div 2>>]

\* The order of the rows: row by row, column by column.
RowReads == [k \in 1 .. 2 * NumThread |->
               <<IF k % 2 = 1 THEN "ops" ELSE "bytes", (k + 1) \div 2>>]

\* The widths and the rates go over all rows first.
Read(k) ==
  IF k <= 3 * NumThread
  THEN <<Passes[((k - 1) \div NumThread) + 1], ((k - 1) % NumThread) + 1>>
  ELSE RowReads[k - 3 * NumThread]

Cell(stat, c) == IF c \in {"width_ops", "ops"} THEN stat.ops ELSE stat.bytes

ReadStat ==
  /\ who \in {"monitor", "main"} /\ reads < 5 * NumThread
  /\ LET c == Read(reads + 1)[1]
         t == Read(reads + 1)[2]
         stat == IF who = "main" THEN copies[t] ELSE count[t]
     IN  seen' = [seen EXCEPT ![c][t] = Cell(stat, c)]
  /\ reads' = reads + 1
  /\ UNCHANGED <<workerVars, mon, tables, copies, who, last>>

Printed == reads = 5 * NumThread

PrintEnds ==
  /\ who \in {"monitor", "main"} /\ Printed
  /\ last' = [t \in Thread |-> [ops |-> seen["ops"][t], bytes |-> seen["bytes"][t]]]
  /\ who' = IF who = "main" THEN "finished" ELSE "nobody"
  /\ UNCHANGED <<workerVars, mon, tables, copies, reads, seen>>

-----------------------------------------------------------------------------
(* The monitor and main.                                                   *)

\* The scan found a worker that was not done.  It may be by now.
MonitorPrint ==
  /\ mon = "runs" /\ who = "nobody" /\ tables < MaxTables
  /\ exited # Thread
  /\ PrintStat("monitor") /\ tables' = tables + 1
  /\ UNCHANGED <<workerVars, mon, copies, last>>

\* On SIGINT or the time limit the workers may be running.
MonitorLeaves ==
  /\ mon = "runs" /\ who = "nobody" /\ mon' = "left"
  /\ UNCHANGED <<workerVars, tables, copies, printVars>>

\* Mutation: the statistics are copied when the monitor has ended.
CopyStatEarly ==
  /\ mon = "left" /\ copies = <<>>
  /\ copies' = count
  /\ UNCHANGED <<workerVars, mon, tables, printVars>>

\* dispatch_worker has joined the workers and the monitor.
CopyStat ==
  /\ exited = Thread /\ mon = "left" /\ copies = <<>>
  /\ copies' = count
  /\ UNCHANGED <<workerVars, mon, tables, printVars>>

MainPrint ==
  /\ copies # <<>> /\ who = "nobody"
  /\ PrintStat("main")
  /\ UNCHANGED <<workerVars, mon, tables, copies, last>>

Finished == who = "finished" /\ UNCHANGED vars

Next ==
  \/ \E t \in Thread : CountFirst(t) \/ CountRest(t) \/ Exit(t)
  \/ ReadStat \/ PrintEnds \/ MonitorPrint \/ MonitorLeaves
  \/ CopyStat \/ MainPrint \/ Finished

Spec == Init /\ [][Next]_vars

-----------------------------------------------------------------------------
(* Properties.                                                             *)

\* A table that is made while the counters move is late, never wrong by more than
\* the operation under way: a row has the bytes of all its operations but the
\* last, those that its rate was made of, and nothing that an earlier table had
\* is taken back.
LiveRowsAccount ==
  Printed => \A t \in Thread :
    /\ seen["bytes"][t] >= BytesOf(t, seen["ops"][t] - 1)
    /\ seen["bytes"][t] >= seen["mib"][t]
    /\ seen["bytes"][t] >= last[t].bytes /\ seen["ops"][t] >= last[t].ops

WidthOf == [ops |-> "width_ops", bytes |-> "width_bytes"]

\* The last table has every operation and every byte of every worker, and each
\* number fits into its column.
FinalTableExact ==
  who = "finished" =>
    /\ \A t \in Thread : /\ seen["ops"][t] = Len(log[t])
                         /\ seen["bytes"][t] = BytesOf(t, Len(log[t]))
                         /\ seen["mib"][t] = seen["bytes"][t]
    /\ \A c \in {"ops", "bytes"}, t \in Thread :
         seen[c][t] <= Heading \/ \E r \in Thread : seen[c][t] <= seen[WidthOf[c]][r]
=============================================================================
