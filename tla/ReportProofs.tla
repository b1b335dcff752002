---------------------------- MODULE ReportProofs ----------------------------
(***************************************************************************)
(* Proofs about Report, for every number of workers, operations, tables,   *)
(* and bytes: what a table says of counters that move under it, and that   *)
(* the last one is exact.                                                  *)
(***************************************************************************)
EXTENDS Report, TLAPS

Stat == [ops : Nat, bytes : Nat]

-----------------------------------------------------------------------------
(* The order of the accesses of print_stat.                                *)

\* The access that reads column c for t.
Offset == [width_ops |-> 0, width_bytes |-> NumThread, mib |-> 2 * NumThread,
           ops |-> 3 * NumThread - 1, bytes |-> 3 * NumThread]
At(c, t) == Offset[c] + (IF c \in {"ops", "bytes"} THEN 2 * t ELSE t)

LEMMA Divided ==
  ASSUME NEW n \in Nat \ {0}, NEW i \in 0 .. n - 1
  PROVE  /\ i \div n = 0 /\ i % n = i
         /\ (n + i) \div n = 1 /\ (n + i) % n = i
         /\ (2 * n + i) \div n = 2 /\ (2 * n + i) % n = i
OBVIOUS

\* Every access reads one cell, and every cell is read by one access.
LEMMA ReadAt ==
  ASSUME NEW k \in 1 .. 5 * NumThread
  PROVE  \E c \in Column, t \in Thread : Read(k) = <<c, t>> /\ At(c, t) = k
<1> NumThread \in Nat \ {0}
  BY ReportAssumption
<1>1. CASE k <= 3 * NumThread
  <2>1. PICK m \in 0 .. 2, t \in Thread : k = m * NumThread + t
    <3>1. CASE k <= NumThread
      BY <3>1 DEF Thread
    <3>2. CASE k > NumThread /\ k <= 2 * NumThread
      <4>1. k - NumThread \in Thread
        BY <3>2 DEF Thread
      <4> QED BY <4>1
    <3>3. CASE k > 2 * NumThread
      <4>1. k - 2 * NumThread \in Thread
        BY <1>1, <3>3 DEF Thread
      <4> QED BY <4>1
    <3> QED BY <3>1, <3>2, <3>3
  <2>2. t - 1 \in 0 .. NumThread - 1
    BY DEF Thread
  <2>3. (k - 1) \div NumThread = m /\ (k - 1) % NumThread = t - 1
    <3>1. k - 1 = m * NumThread + (t - 1)
      BY <2>1, <2>2 DEF Thread
    <3>2. CASE m = 0
      <4>1. k - 1 = t - 1
        BY <2>2, <3>1, <3>2
      <4> QED BY <2>2, <3>2, <4>1, Divided
    <3>3. CASE m = 1
      <4>1. k - 1 = NumThread + (t - 1)
        BY <2>2, <3>1, <3>3
      <4> QED BY <2>2, <3>3, <4>1, Divided
    <3>4. CASE m = 2
      <4>1. k - 1 = 2 * NumThread + (t - 1)
        BY <2>2, <3>1, <3>4
      <4>2. /\ (2 * NumThread + (t - 1)) \div NumThread = 2
            /\ (2 * NumThread + (t - 1)) % NumThread = t - 1
        BY <2>2, Divided
      <4> QED BY <3>4, <4>1, <4>2, Zenon
    <3> QED BY <3>2, <3>3, <3>4
  <2>4. Read(k) = <<Passes[m + 1], (t - 1) + 1>>
    BY <1>1, <2>3 DEF Read
  <2>5. (t - 1) + 1 = t
    BY DEF Thread
  <2>6. CASE m = 0
    <3>1. Read(k) = <<"width_ops", t>> /\ At("width_ops", t) = k
      BY <2>1, <2>4, <2>5, <2>6 DEF Passes, At, Offset, Thread
    <3> QED BY <3>1 DEF Column
  <2>7. CASE m = 1
    <3>1. Read(k) = <<"width_bytes", t>> /\ At("width_bytes", t) = k
      BY <2>1, <2>4, <2>5, <2>7 DEF Passes, At, Offset, Thread
    <3> QED BY <3>1 DEF Column
  <2>8. CASE m = 2
    <3>1. Read(k) = <<"mib", t>> /\ At("mib", t) = k
      BY <2>1, <2>4, <2>5, <2>8 DEF Passes, At, Offset, Thread
    <3> QED BY <3>1 DEF Column
  <2> QED BY <2>6, <2>7, <2>8
<1>2. CASE k > 3 * NumThread
  <2> DEFINE j == k - 3 * NumThread
  <2>1. j \in 1 .. 2 * NumThread
    BY <1>2
  <2>2. Read(k) = <<IF j % 2 = 1 THEN "ops" ELSE "bytes", (j + 1) \div 2>>
    BY <1>2, <2>1 DEF Read, RowReads
  <2>3. CASE j % 2 = 1
    <3>1. PICK t \in Thread : j = 2 * t - 1
      <4>1. (j + 1) \div 2 \in Thread /\ j = 2 * ((j + 1) \div 2) - 1
        BY <2>1, <2>3 DEF Thread
      <4> QED BY <4>1
    <3>2. (j + 1) \div 2 = t
      BY <3>1 DEF Thread
    <3>3. Read(k) = <<"ops", t>>
      BY <2>2, <2>3, <3>2
    <3>4. At("ops", t) = k
      BY <3>1 DEF At, Offset, Thread
    <3> QED BY <3>3, <3>4 DEF Column
  <2>4. CASE j % 2 # 1
    <3>1. PICK t \in Thread : j = 2 * t
      <4>1. j \div 2 \in Thread /\ j = 2 * (j \div 2)
        BY <2>1, <2>4 DEF Thread
      <4> QED BY <4>1
    <3>2. (j + 1) \div 2 = t
      BY <3>1 DEF Thread
    <3>3. Read(k) = <<"bytes", t>>
      BY <2>2, <2>4, <3>2
    <3>4. At("bytes", t) = k
      BY <3>1 DEF At, Offset, Thread
    <3> QED BY <3>3, <3>4 DEF Column
  <2> QED BY <2>3, <2>4
<1> QED BY <1>1, <1>2

LEMMA AtOnce ==
  ASSUME NEW c \in Column, NEW t \in Thread, NEW d \in Column, NEW s \in Thread,
         At(c, t) = At(d, s)
  PROVE  c = d /\ t = s
<1> NumThread \in Nat \ {0}
  BY ReportAssumption
<1> QED BY DEF At, Offset, Column, Thread

-----------------------------------------------------------------------------
(* The inductive invariant.                                                *)

ReportTypes ==
  /\ count \in [Thread -> Stat] /\ owed \in [Thread -> Stat]
  /\ log \in [Thread -> Seq(Nat)] /\ exited \subseteq Thread
  /\ reads \in 0 .. 5 * NumThread
  /\ seen \in [Column -> [Thread -> Nat]] /\ last \in [Thread -> Stat]

\* A counter lags behind its worker by the operation under way.
Counted(t) ==
  /\ \A i, j \in 1 .. Len(log[t]) : i <= j => log[t][i] <= log[t][j]
  /\ count[t].ops + owed[t].ops = Len(log[t])
  /\ count[t].bytes + owed[t].bytes = BytesOf(t, Len(log[t]))
  /\ count[t].bytes >= BytesOf(t, count[t].ops - 1)
  /\ t \in exited => owed[t] = Zero

CountOK == \A t \in Thread : Counted(t)

\* The copies are made when nothing moves any more.
CopyOK == copies # <<>> => exited = Thread /\ copies = count

\* What was read of a counter, in this table or in the one before, it has passed.
PassedOK ==
  \A t \in Thread :
    /\ \A c \in Column : seen[c][t] <= Cell(count[t], c)
    /\ last[t].ops <= count[t].ops /\ last[t].bytes <= count[t].bytes

\* The row of t, as far as it was read.
RowOK(t) ==
  /\ reads >= At("ops", t) => seen["ops"][t] >= last[t].ops
  /\ reads >= At("bytes", t) =>
       /\ seen["bytes"][t] >= BytesOf(t, seen["ops"][t] - 1)
       /\ seen["bytes"][t] >= seen["mib"][t]
       /\ seen["bytes"][t] >= last[t].bytes

\* What main reads is what was copied.
MainOK ==
  who \in {"main", "finished"} =>
    /\ copies # <<>> /\ (who = "finished" => Printed)
    /\ \A c \in Column, t \in Thread :
         reads >= At(c, t) => seen[c][t] = Cell(count[t], c)

ReportInv ==
  ReportTypes /\ CountOK /\ CopyOK /\ PassedOK /\ (\A t \in Thread : RowOK(t)) /\ MainOK

LEMMA NumThreadType == NumThread \in Nat \ {0}
BY ReportAssumption

LEMMA ZeroType == Zero \in Stat /\ Zero.ops = 0 /\ Zero.bytes = 0
BY DEF Zero, Stat

LEMMA AtBound ==
  ASSUME NEW c \in Column, NEW t \in Thread
  PROVE  /\ At(c, t) \in 1 .. 5 * NumThread
         /\ At("ops", t) < At("bytes", t) /\ At("mib", t) < At("ops", t)
         /\ At("width_ops", t) < At("ops", t)
BY NumThreadType DEF At, Offset, Column, Thread

LEMMA CellType ==
  ASSUME NEW s \in Stat, NEW c \in Column
  PROVE  Cell(s, c) \in Nat
BY DEF Cell, Stat

LEMMA PlusType ==
  ASSUME NEW a \in Stat, NEW b \in Stat
  PROVE  /\ Plus(a, b) \in Stat
         /\ Plus(a, b).ops = a.ops + b.ops /\ Plus(a, b).bytes = a.bytes + b.bytes
BY DEF Plus, Stat

LEMMA InitInv == Init => ReportInv
<1> SUFFICES ASSUME Init PROVE ReportInv
  OBVIOUS
<1>1. ReportTypes
  BY NumThreadType, ZeroType DEF Init, ReportTypes, NoTable
<1>2. CountOK
  BY ZeroType DEF Init, CountOK, Counted, BytesOf
<1>3. CopyOK
  BY DEF Init, CopyOK
<1>4. PassedOK
  BY ZeroType DEF Init, PassedOK, NoTable, Cell, Column
<1>5. \A t \in Thread : RowOK(t)
  <2> TAKE t \in Thread
  <2>1. At("ops", t) \in Nat \ {0} /\ At("bytes", t) \in Nat \ {0}
    BY AtBound DEF Column
  <2>2. reads = 0
    BY DEF Init
  <2> QED BY <2>1, <2>2 DEF RowOK
<1>6. MainOK
  BY DEF Init, MainOK
<1> QED BY <1>1, <1>2, <1>3, <1>4, <1>5, <1>6 DEF ReportInv

-----------------------------------------------------------------------------
(* The workers.                                                            *)

\* The bytes of the operations so far are a number, and an operation more has as many
\* or more.
LEMMA BytesType ==
  ASSUME ReportTypes, CountOK, NEW t \in Thread, NEW n \in Int, n <= Len(log[t])
  PROVE  /\ BytesOf(t, n) \in Nat
         /\ BytesOf(t, n) <= BytesOf(t, Len(log[t]))
         /\ BytesOf(t, n - 1) <= BytesOf(t, n)
<1>1. log[t] \in Seq(Nat) /\ Len(log[t]) \in Nat
  BY DEF ReportTypes
<1>2. \A i, j \in 1 .. Len(log[t]) : i <= j => log[t][i] <= log[t][j]
  BY DEF CountOK, Counted
<1>3. CASE n <= 0
  BY <1>1, <1>3 DEF BytesOf
<1>4. CASE n = 1
  BY <1>1, <1>2, <1>4 DEF BytesOf
<1>5. CASE n > 1
  BY <1>1, <1>2, <1>5 DEF BytesOf
<1> QED BY <1>3, <1>4, <1>5

\* An operation under way is one, or so many bytes.
LEMMA Logged ==
  ASSUME ReportInv, NEW t \in Thread, NEW s \in Nat,
         log' = [log EXCEPT ![t] = Append(@, BytesOf(t, Len(@)) + s)]
  PROVE  /\ log' \in [Thread -> Seq(Nat)]
         /\ Len(log'[t]) = Len(log[t]) + 1
         /\ BytesOf(t, Len(log[t]))' = BytesOf(t, Len(log[t])) + s
         /\ \A i, j \in 1 .. Len(log'[t]) : i <= j => log'[t][i] <= log'[t][j]
         /\ \A r \in Thread, n \in Int : n <= Len(log[r]) => BytesOf(r, n)' = BytesOf(r, n)
<1> DEFINE b == BytesOf(t, Len(log[t])) + s
<1>1. log[t] \in Seq(Nat) /\ Len(log[t]) \in Nat /\ log \in [Thread -> Seq(Nat)]
  BY DEF ReportInv, ReportTypes
<1>2. b \in Nat
  BY <1>1, BytesType DEF ReportInv
<1>3. log' = [log EXCEPT ![t] = Append(log[t], b)]
  BY <1>1
<1> HIDE DEF b
<1>4. log'[t] = Append(log[t], b) /\ \A r \in Thread : r # t => log'[r] = log[r]
  BY <1>1, <1>3
<1>5. log' \in [Thread -> Seq(Nat)] /\ Len(log'[t]) = Len(log[t]) + 1
  BY <1>1, <1>2, <1>3, <1>4
<1>6. log'[t][Len(log[t]) + 1] = b /\ \A i \in 1 .. Len(log[t]) : log'[t][i] = log[t][i]
  BY <1>1, <1>2, <1>4
<1>7. BytesOf(t, Len(log[t]))' = b
  BY <1>1, <1>5, <1>6 DEF BytesOf
<1>8. \A i, j \in 1 .. Len(log'[t]) : i <= j => log'[t][i] <= log'[t][j]
  <2> SUFFICES ASSUME NEW i \in 1 .. Len(log'[t]), NEW j \in 1 .. Len(log'[t]), i <= j
               PROVE  log'[t][i] <= log'[t][j]
    OBVIOUS
  <2>1. CASE j <= Len(log[t])
    <3>1. i \in 1 .. Len(log[t]) /\ j \in 1 .. Len(log[t])
      BY <1>1, <1>5, <2>1
    <3> QED BY <1>6, <3>1 DEF ReportInv, CountOK, Counted
  <2>2. CASE i <= Len(log[t]) /\ j = Len(log[t]) + 1
    <3>1. BytesOf(t, i) <= BytesOf(t, Len(log[t])) /\ BytesOf(t, i) \in Nat
          /\ BytesOf(t, Len(log[t])) \in Nat
      BY <1>1, <2>2, BytesType DEF ReportInv
    <3>2. log'[t][i] = BytesOf(t, i)
      BY <1>1, <1>6, <2>2 DEF BytesOf
    <3> QED BY <1>6, <2>2, <3>1, <3>2 DEF b
  <2>3. CASE i = Len(log[t]) + 1
    <3>1. j = i
      BY <1>1, <1>5, <2>3
    <3> QED BY <1>2, <1>6, <2>3, <3>1
  <2> QED BY <1>1, <1>5, <2>1, <2>2, <2>3
<1>9. \A r \in Thread, n \in Int : n <= Len(log[r]) => BytesOf(r, n)' = BytesOf(r, n)
  BY <1>1, <1>4, <1>6 DEF BytesOf
<1> QED BY <1>5, <1>7, <1>8, <1>9 DEF b

\* The counters of one worker grow; nothing else is about them.
Counts(t) ==
  /\ UNCHANGED <<exited, mon, tables, copies, printVars>>
  /\ t \notin exited \/ owed[t] # Zero
  /\ count' \in [Thread -> Stat] /\ owed' \in [Thread -> Stat]
  /\ log' \in [Thread -> Seq(Nat)]
  /\ \A s \in Thread : s # t => count'[s] = count[s] /\ owed'[s] = owed[s] /\ log'[s] = log[s]
  /\ count'[t].ops >= count[t].ops /\ count'[t].bytes >= count[t].bytes
  /\ \A n \in Int : n <= Len(log[t]) => BytesOf(t, n)' = BytesOf(t, n)
  /\ Counted(t)'

LEMMA CountFirstCounts ==
  ASSUME ReportInv, NEW t \in Thread, CountFirst(t)
  PROVE  Counts(t)
<1>1. PICK s \in Nat, first \in Stat, rest \in Stat :
        /\ log' = [log EXCEPT ![t] = Append(@, BytesOf(t, Len(@)) + s)]
        /\ count' = [count EXCEPT ![t] = Plus(@, first)]
        /\ owed' = [owed EXCEPT ![t] = rest]
        /\ \/ first.ops = 1 /\ first.bytes = 0 /\ rest.ops = 0 /\ rest.bytes = s
           \/ first.ops = 0 /\ first.bytes = s /\ rest.ops = 1 /\ rest.bytes = 0
  <2>1. PICK s \in Sizes :
          /\ log' = [log EXCEPT ![t] = Append(@, BytesOf(t, Len(@)) + s)]
          /\ \E d \in {<<[Zero EXCEPT !.ops = 1], [Zero EXCEPT !.bytes = s]>>,
                       <<[Zero EXCEPT !.bytes = s], [Zero EXCEPT !.ops = 1]>>} :
               /\ count' = [count EXCEPT ![t] = Plus(@, d[1])]
               /\ owed' = [owed EXCEPT ![t] = d[2]]
    BY DEF CountFirst
  <2>2. s \in Nat
    BY ReportAssumption
  <2>3. PICK d \in {<<[Zero EXCEPT !.ops = 1], [Zero EXCEPT !.bytes = s]>>,
                   <<[Zero EXCEPT !.bytes = s], [Zero EXCEPT !.ops = 1]>>} :
          /\ count' = [count EXCEPT ![t] = Plus(@, d[1])]
          /\ owed' = [owed EXCEPT ![t] = d[2]]
    BY <2>1
  <2>4. /\ d[1] \in Stat /\ d[2] \in Stat
        /\ \/ d[1].ops = 1 /\ d[1].bytes = 0 /\ d[2].ops = 0 /\ d[2].bytes = s
           \/ d[1].ops = 0 /\ d[1].bytes = s /\ d[2].ops = 1 /\ d[2].bytes = 0
    BY <2>2, <2>3 DEF Stat, Zero
  <2> QED BY <2>1, <2>2, <2>3, <2>4
<1>5. /\ t \notin exited /\ owed[t] = Zero
      /\ UNCHANGED <<exited, mon, tables, copies, printVars>>
  BY DEF CountFirst
<1>6. /\ count \in [Thread -> Stat] /\ owed \in [Thread -> Stat]
      /\ count[t] \in Stat /\ log \in [Thread -> Seq(Nat)] /\ Len(log[t]) \in Nat
  BY DEF ReportInv, ReportTypes
<1>7. /\ count[t].ops \in Nat /\ count[t].bytes \in Nat
      /\ count[t].ops = Len(log[t]) /\ count[t].bytes = BytesOf(t, Len(log[t]))
  BY <1>5, <1>6, ZeroType DEF ReportInv, CountOK, Counted, Stat
<1>8. /\ count' \in [Thread -> Stat] /\ owed' \in [Thread -> Stat]
      /\ count'[t] = Plus(count[t], first) /\ owed'[t] = rest
      /\ \A r \in Thread : r # t => count'[r] = count[r] /\ owed'[r] = owed[r] /\ log'[r] = log[r]
  BY <1>1, <1>6, PlusType
<1>9. /\ count'[t].ops = count[t].ops + first.ops
      /\ count'[t].bytes = count[t].bytes + first.bytes
  BY <1>1, <1>6, <1>8, PlusType
<1>10. /\ log' \in [Thread -> Seq(Nat)]
       /\ Len(log'[t]) = Len(log[t]) + 1
       /\ BytesOf(t, Len(log[t]))' = BytesOf(t, Len(log[t])) + s
       /\ \A i, j \in 1 .. Len(log'[t]) : i <= j => log'[t][i] <= log'[t][j]
       /\ \A r \in Thread, n \in Int : n <= Len(log[r]) => BytesOf(r, n)' = BytesOf(r, n)
  BY <1>1, Logged
<1>11. count'[t].bytes >= BytesOf(t, count[t].ops - 1)'
  <2> PICK l \in Nat : l = Len(log[t])
    BY DEF ReportInv, ReportTypes
  <2>1. BytesOf(t, l)' = BytesOf(t, l) /\ BytesOf(t, l - 1)' = BytesOf(t, l - 1)
    BY <1>6, <1>10
  <2>2. BytesOf(t, l - 1) <= BytesOf(t, l) /\ BytesOf(t, l) \in Nat /\ BytesOf(t, l - 1) \in Nat
    BY <1>6, BytesType DEF ReportInv
  <2>3. CASE first.ops = 1
    <3>1. count'[t].ops - 1 = l /\ count'[t].bytes = BytesOf(t, l)
      BY <1>1, <1>6, <1>7, <1>9, <2>3
    <3> QED BY <2>1, <2>2, <3>1
  <2>4. CASE first.ops = 0
    <3>1. count'[t].ops - 1 = l - 1 /\ count'[t].bytes = BytesOf(t, l) + s
      BY <1>1, <1>6, <1>7, <1>9, <2>4
    <3> QED BY <2>1, <2>2, <3>1
  <2> QED BY <1>1, <2>3, <2>4
<1>12. /\ count'[t].ops + owed'[t].ops = Len(log'[t])
       /\ count'[t].bytes + owed'[t].bytes = BytesOf(t, Len(log[t]))'
       /\ count'[t].ops >= count[t].ops /\ count'[t].bytes >= count[t].bytes
  BY <1>1, <1>7, <1>8, <1>9, <1>10
<1> QED BY <1>5, <1>8, <1>10, <1>11, <1>12 DEF Counts, Counted

LEMMA CountRestCounts ==
  ASSUME ReportInv, NEW t \in Thread, CountRest(t)
  PROVE  Counts(t)
<1>1. /\ owed[t] # Zero /\ UNCHANGED <<log, exited, mon, tables, copies, printVars>>
      /\ count' = [count EXCEPT ![t] = Plus(@, owed[t])]
      /\ owed' = [owed EXCEPT ![t] = Zero]
  BY DEF CountRest
<1>2. /\ count \in [Thread -> Stat] /\ owed \in [Thread -> Stat]
      /\ count[t] \in Stat /\ owed[t] \in Stat
      /\ log \in [Thread -> Seq(Nat)] /\ Len(log[t]) \in Nat
  BY DEF ReportInv, ReportTypes
<1>3. /\ count' \in [Thread -> Stat] /\ owed' \in [Thread -> Stat]
      /\ count'[t] = Plus(count[t], owed[t]) /\ owed'[t] = Zero
      /\ \A r \in Thread : r # t => count'[r] = count[r] /\ owed'[r] = owed[r] /\ log'[r] = log[r]
  BY <1>1, <1>2, PlusType, ZeroType
<1>4. /\ count'[t].ops = count[t].ops + owed[t].ops
      /\ count'[t].bytes = count[t].bytes + owed[t].bytes
  BY <1>2, <1>3, PlusType
<1>5. /\ count[t].ops \in Nat /\ count[t].bytes \in Nat
      /\ owed[t].ops \in Nat /\ owed[t].bytes \in Nat
  BY <1>2 DEF Stat
<1>6. count'[t].ops = Len(log[t]) /\ count'[t].bytes = BytesOf(t, Len(log[t]))
  BY <1>4 DEF ReportInv, CountOK, Counted
<1>7. \A n \in Int : BytesOf(t, n)' = BytesOf(t, n)
  BY <1>1 DEF BytesOf
<1>8. count'[t].bytes >= BytesOf(t, count[t].ops - 1)'
  <2> PICK l \in Nat : l = Len(log[t])
    BY DEF ReportInv, ReportTypes
  <2>1. BytesOf(t, l - 1) <= BytesOf(t, l) /\ BytesOf(t, l) \in Nat /\ BytesOf(t, l - 1) \in Nat
    BY <1>2, BytesType DEF ReportInv
  <2>2. BytesOf(t, l - 1)' = BytesOf(t, l - 1)
    BY <1>2, <1>7
  <2>3. count'[t].ops - 1 = l - 1 /\ count'[t].bytes = BytesOf(t, l)
    BY <1>6
  <2> QED BY <2>1, <2>2, <2>3
<1>9. /\ count'[t].ops + owed'[t].ops = Len(log'[t])
      /\ count'[t].bytes + owed'[t].bytes = BytesOf(t, Len(log[t]))'
      /\ count'[t].ops >= count[t].ops /\ count'[t].bytes >= count[t].bytes
  <2>1. BytesOf(t, Len(log[t]))' = BytesOf(t, Len(log[t])) /\ BytesOf(t, Len(log[t])) \in Nat
    BY <1>1, <1>2, <1>7, BytesType DEF ReportInv
  <2> QED BY <1>1, <1>2, <1>3, <1>4, <1>5, <1>6, <2>1, ZeroType
<1>10. \A i, j \in 1 .. Len(log'[t]) : i <= j => log'[t][i] <= log'[t][j]
  BY <1>1 DEF ReportInv, CountOK, Counted
<1>11. log' \in [Thread -> Seq(Nat)]
  BY <1>1, <1>2
<1> QED BY <1>1, <1>3, <1>7, <1>8, <1>9, <1>10, <1>11 DEF Counts, Counted

LEMMA CountsInv ==
  ASSUME ReportInv, NEW t \in Thread, Counts(t)
  PROVE  ReportInv'
<1>1. UNCHANGED <<exited, copies, who, reads, seen, last>>
  BY DEF Counts, printVars
<1>2. ReportTypes'
  BY <1>1 DEF Counts, ReportInv, ReportTypes
<1>3. CountOK'
  <2> SUFFICES ASSUME NEW s \in Thread PROVE Counted(s)'
    BY DEF CountOK
  <2>1. CASE s = t
    BY <2>1 DEF Counts
  <2>2. CASE s # t
    <3>1. count'[s] = count[s] /\ owed'[s] = owed[s] /\ log'[s] = log[s] /\ exited' = exited
      BY <1>1, <2>2 DEF Counts
    <3> QED BY <3>1 DEF ReportInv, CountOK, Counted, BytesOf
  <2> QED BY <2>1, <2>2
<1>4. copies = <<>>
  <2>1. Counted(t)
    BY DEF ReportInv, CountOK
  <2> QED BY <2>1 DEF Counts, Counted, ReportInv, CopyOK
<1>5. \A s \in Thread : /\ count[s] \in Stat /\ count'[s] \in Stat
                        /\ count[s].ops <= count'[s].ops /\ count[s].bytes <= count'[s].bytes
  <2> TAKE s \in Thread
  <2>1. count[s] \in Stat /\ count'[s] \in Stat
    BY <1>2 DEF ReportInv, ReportTypes
  <2>2. s # t => count'[s] = count[s]
    BY DEF Counts
  <2> QED BY <2>1, <2>2 DEF Counts, Stat
<1>6. PassedOK'
  <2> SUFFICES ASSUME NEW s \in Thread
               PROVE  /\ \A c \in Column : seen[c][s] <= Cell(count'[s], c)
                      /\ last[s].ops <= count'[s].ops /\ last[s].bytes <= count'[s].bytes
    BY <1>1 DEF PassedOK
  <2>1. last[s].ops \in Nat /\ last[s].bytes \in Nat /\ \A c \in Column : seen[c][s] \in Nat
    BY DEF ReportInv, ReportTypes, Stat
  <2>2. /\ \A c \in Column : seen[c][s] <= Cell(count[s], c)
        /\ last[s].ops <= count[s].ops /\ last[s].bytes <= count[s].bytes
    BY DEF ReportInv, PassedOK
  <2>3. \A c \in Column : /\ Cell(count[s], c) \in Nat /\ Cell(count'[s], c) \in Nat
                          /\ Cell(count[s], c) <= Cell(count'[s], c)
    BY <1>5 DEF Cell, Stat
  <2>4. count[s].ops \in Nat /\ count[s].bytes \in Nat /\ count'[s].ops \in Nat /\ count'[s].bytes \in Nat
    BY <1>5 DEF Stat
  <2> QED BY <1>5, <2>1, <2>2, <2>3, <2>4
<1>7. \A s \in Thread : RowOK(s)'
  <2> TAKE s \in Thread
  <2>1. RowOK(s)
    BY DEF ReportInv
  <2>2. PICK n \in Int : n = seen["ops"][s] - 1 /\ n <= Len(log[s])
    <3>1. seen["ops"][s] \in Nat /\ seen["ops"][s] <= count[s].ops
      BY DEF ReportInv, ReportTypes, PassedOK, Column, Cell
    <3>2. count[s].ops \in Nat /\ owed[s].ops \in Nat /\ Len(log[s]) \in Nat
      BY <1>5 DEF Stat, ReportInv, ReportTypes
    <3>3. count[s].ops + owed[s].ops = Len(log[s])
      BY DEF ReportInv, CountOK, Counted
    <3> QED BY <3>1, <3>2, <3>3
  <2>3. BytesOf(s, n)' = BytesOf(s, n)
    <3>1. CASE s = t
      BY <2>2, <3>1 DEF Counts
    <3>2. CASE s # t
      BY <3>2 DEF Counts, BytesOf
    <3> QED BY <3>1, <3>2
  <2>4. BytesOf(s, seen["ops"][s] - 1)' = BytesOf(s, n) /\ BytesOf(s, seen["ops"][s] - 1) = BytesOf(s, n)
    BY <1>1, <2>2, <2>3
  <2> QED BY <1>1, <2>1, <2>4 DEF RowOK
<1>8. CopyOK' /\ MainOK'
  BY <1>1, <1>4 DEF ReportInv, CopyOK, MainOK
<1> QED BY <1>2, <1>3, <1>6, <1>7, <1>8 DEF ReportInv

LEMMA ExitInv ==
  ASSUME ReportInv, NEW t \in Thread, Exit(t)
  PROVE  ReportInv'
<1>1. /\ t \notin exited /\ owed[t] = Zero /\ exited' = exited \cup {t}
      /\ UNCHANGED <<count, owed, log, mon, tables, copies, who, reads, seen, last>>
  BY DEF Exit, printVars
<1>2. ReportTypes'
  BY <1>1 DEF ReportInv, ReportTypes
<1>3. CountOK'
  BY <1>1 DEF ReportInv, CountOK, Counted, BytesOf
<1>4. CopyOK'
  BY <1>1 DEF ReportInv, CopyOK
<1>5. PassedOK' /\ (\A s \in Thread : RowOK(s)') /\ MainOK'
  BY <1>1 DEF ReportInv, PassedOK, RowOK, MainOK, BytesOf, Printed
<1> QED BY <1>2, <1>3, <1>4, <1>5 DEF ReportInv

-----------------------------------------------------------------------------
(* print_stat.                                                             *)

LEMMA ReadStatInv ==
  ASSUME ReportInv, ReadStat
  PROVE  ReportInv'
<1>1. /\ who \in {"monitor", "main"} /\ reads < 5 * NumThread /\ reads' = reads + 1
      /\ UNCHANGED <<count, owed, log, exited, mon, tables, copies, who, last>>
  BY DEF ReadStat, workerVars
<1>2. reads + 1 \in 1 .. 5 * NumThread
  BY <1>1, NumThreadType DEF ReportInv, ReportTypes
<1>3. PICK c \in Column, t \in Thread : Read(reads + 1) = <<c, t>> /\ At(c, t) = reads + 1
  BY <1>2, ReadAt
<1>4. seen' = [seen EXCEPT ![c][t] = Cell(count[t], c)]
  <2>1. seen' = [seen EXCEPT ![c][t] =
                   Cell(IF who = "main" THEN copies[t] ELSE count[t], c)]
    <3>1. Read(reads + 1)[1] = c /\ Read(reads + 1)[2] = t
      BY <1>3
    <3> QED BY <3>1 DEF ReadStat
  <2>2. who = "main" => copies = count
    BY DEF ReportInv, MainOK, CopyOK
  <2>3. (IF who = "main" THEN copies[t] ELSE count[t]) = count[t]
    BY <2>2
  <2> QED BY <2>1, <2>3
<1>5. count[t] \in Stat /\ Cell(count[t], c) \in Nat
  <2>1. count[t] \in Stat
    BY DEF ReportInv, ReportTypes
  <2> QED BY <2>1, CellType
<1>6. /\ seen \in [Column -> [Thread -> Nat]]
      /\ seen' \in [Column -> [Thread -> Nat]]
      /\ seen'[c][t] = Cell(count[t], c)
      /\ \A d \in Column, s \in Thread : d # c \/ s # t => seen'[d][s] = seen[d][s]
  <2>1. seen \in [Column -> [Thread -> Nat]]
    BY DEF ReportInv, ReportTypes
  <2> QED BY <1>4, <1>5, <2>1
<1>7. ReportTypes'
  BY <1>1, <1>2, <1>6 DEF ReportInv, ReportTypes
<1>8. CountOK' /\ CopyOK'
  BY <1>1 DEF ReportInv, CountOK, CopyOK, Counted, BytesOf
<1>9. PassedOK'
  <2> SUFFICES ASSUME NEW s \in Thread
               PROVE  /\ \A d \in Column : seen'[d][s] <= Cell(count[s], d)
                      /\ last[s].ops <= count[s].ops /\ last[s].bytes <= count[s].bytes
    BY <1>1 DEF PassedOK
  <2>1. /\ \A d \in Column : seen[d][s] <= Cell(count[s], d)
        /\ last[s].ops <= count[s].ops /\ last[s].bytes <= count[s].bytes
    BY DEF ReportInv, PassedOK
  <2>2. ASSUME NEW d \in Column PROVE seen'[d][s] <= Cell(count[s], d)
    <3>1. CASE d = c /\ s = t
      BY <1>5, <1>6, <3>1
    <3>2. CASE d # c \/ s # t
      BY <1>6, <2>1, <3>2
    <3> QED BY <3>1, <3>2
  <2> QED BY <2>1, <2>2
<1>10. \A d \in Column, s \in Thread :
         reads + 1 >= At(d, s) => reads >= At(d, s) \/ (d = c /\ s = t)
  <2> TAKE d \in Column, s \in Thread
  <2>1. At(d, s) \in Int /\ reads \in Int
    BY AtBound DEF ReportInv, ReportTypes
  <2>2. At(d, s) = reads + 1 => d = c /\ s = t
    BY <1>3, AtOnce
  <2> QED BY <2>1, <2>2
<1>11. ASSUME NEW s \in Thread PROVE RowOK(s)'
  <2>1. "ops" \in Column /\ "bytes" \in Column /\ "mib" \in Column
    BY DEF Column
  <2>2. RowOK(s) /\ Counted(s)
    BY DEF ReportInv, CountOK
  <2>3. /\ At("ops", s) \in Nat /\ At("bytes", s) \in Nat /\ reads \in Nat
        /\ At("ops", s) < At("bytes", s)
    BY <2>1, AtBound DEF ReportInv, ReportTypes
  <2>4. /\ seen["ops"][s] \in Nat /\ seen["bytes"][s] \in Nat /\ seen["mib"][s] \in Nat
        /\ last[s].ops \in Nat /\ last[s].bytes \in Nat
        /\ count[s].ops \in Nat /\ count[s].bytes \in Nat /\ owed[s].ops \in Nat
        /\ Len(log[s]) \in Nat
    <3>1. last[s] \in Stat /\ count[s] \in Stat /\ owed[s] \in Stat /\ log[s] \in Seq(Nat)
      BY DEF ReportInv, ReportTypes
    <3>2. seen["ops"][s] \in Nat /\ seen["bytes"][s] \in Nat /\ seen["mib"][s] \in Nat
      BY <1>6, <2>1
    <3> QED BY <3>1, <3>2 DEF Stat
  <2>5. /\ seen["ops"][s] <= count[s].ops /\ seen["mib"][s] <= count[s].bytes
        /\ last[s].ops <= count[s].ops /\ last[s].bytes <= count[s].bytes
    BY <2>1 DEF ReportInv, PassedOK, Cell
  <2>6. CASE reads + 1 < At("ops", s)
    BY <1>1, <2>3, <2>6 DEF RowOK
  <2>7. CASE At("ops", s) = reads + 1
    <3>1. c = "ops" /\ t = s
      BY <1>3, <2>1, <2>7, AtOnce
    <3>2. seen'["ops"][s] = count[s].ops
      BY <1>6, <3>1 DEF Cell
    <3> QED BY <1>1, <2>3, <2>5, <2>7, <3>2 DEF RowOK
  <2>8. CASE At("bytes", s) = reads + 1
    <3>1. c = "bytes" /\ t = s
      BY <1>3, <2>1, <2>8, AtOnce
    <3>2. /\ seen'["bytes"][s] = count[s].bytes
          /\ seen'["ops"][s] = seen["ops"][s] /\ seen'["mib"][s] = seen["mib"][s]
      BY <1>6, <2>1, <3>1 DEF Cell
    <3>3. count[s].bytes >= BytesOf(s, seen["ops"][s] - 1)
      <4> PICK m \in Nat, n \in Nat : m = seen["ops"][s] /\ n = count[s].ops
        BY <2>4
      <4>1. m <= n /\ n <= Len(log[s])
        BY <2>2, <2>4, <2>5 DEF Counted
      <4>2. BytesOf(s, m - 1) <= BytesOf(s, n - 1)
            /\ BytesOf(s, m - 1) \in Nat /\ BytesOf(s, n - 1) \in Nat
        <5>1. \A i, j \in 1 .. Len(log[s]) : i <= j => log[s][i] <= log[s][j]
          BY <2>2 DEF Counted
        <5>2. BytesOf(s, m - 1) \in Nat /\ BytesOf(s, n - 1) \in Nat
          <6>1. /\ m - 1 \in Int /\ n - 1 \in Int
                /\ m - 1 <= Len(log[s]) /\ n - 1 <= Len(log[s])
            BY <2>4, <4>1
          <6> QED BY <6>1, BytesType DEF ReportInv
        <5>3. CASE m - 1 <= 0
          BY <5>2, <5>3 DEF BytesOf
        <5>4. CASE m - 1 > 0
          <6>1. m - 1 \in 1 .. Len(log[s]) /\ n - 1 \in 1 .. Len(log[s]) /\ m - 1 <= n - 1
            BY <2>4, <4>1, <5>4
          <6>2. BytesOf(s, m - 1) = log[s][m - 1] /\ BytesOf(s, n - 1) = log[s][n - 1]
            BY <5>4, <6>1 DEF BytesOf
          <6>3. log[s][m - 1] <= log[s][n - 1]
            BY <5>1, <6>1
          <6> QED BY <5>2, <6>2, <6>3
        <5> QED BY <5>2, <5>3, <5>4
      <4>3. count[s].bytes >= BytesOf(s, n - 1)
        BY <2>2 DEF Counted
      <4> QED BY <2>4, <4>2, <4>3
    <3>4. BytesOf(s, seen["ops"][s] - 1)' = BytesOf(s, seen["ops"][s] - 1)
      BY <1>1, <3>2 DEF BytesOf
    <3>5. seen["ops"][s] >= last[s].ops
      BY <2>2, <2>3, <2>8 DEF RowOK
    <3> QED BY <1>1, <2>5, <3>2, <3>3, <3>4, <3>5 DEF RowOK
  <2>9. CASE reads >= At("ops", s) /\ At("bytes", s) # reads + 1
    <3>1. At("ops", s) # reads + 1
      BY <2>3, <2>9
    <3>2. ~(c = "ops" /\ t = s) /\ ~(c = "bytes" /\ t = s)
      BY <1>3, <2>9, <3>1
    <3>3. seen'["ops"][s] = seen["ops"][s] /\ seen'["bytes"][s] = seen["bytes"][s]
      BY <1>6, <2>1, <3>2
    <3>4. reads + 1 >= At("bytes", s) => reads >= At("bytes", s)
      BY <2>3, <2>9
    <3>5. seen'["mib"][s] = seen["mib"][s]
      <4>1. At("mib", s) \in Nat /\ At("mib", s) < At("ops", s)
        BY <2>1, AtBound
      <4>2. At("mib", s) # reads + 1
        BY <2>3, <2>9, <4>1
      <4> QED BY <1>3, <1>6, <2>1, <4>2
    <3>6. BytesOf(s, seen["ops"][s] - 1)' = BytesOf(s, seen["ops"][s] - 1)
      BY <1>1, <3>3 DEF BytesOf
    <3> QED BY <1>1, <2>2, <2>9, <3>3, <3>4, <3>5, <3>6 DEF RowOK
  <2> QED BY <2>3, <2>6, <2>7, <2>8, <2>9
<1>12. MainOK'
  <2> SUFFICES ASSUME who = "main"
               PROVE  /\ copies # <<>>
                      /\ \A d \in Column, s \in Thread :
                           reads + 1 >= At(d, s) => seen'[d][s] = Cell(count[s], d)
    BY <1>1 DEF MainOK
  <2>1. /\ copies # <<>>
        /\ \A d \in Column, s \in Thread :
             reads >= At(d, s) => seen[d][s] = Cell(count[s], d)
    BY DEF ReportInv, MainOK
  <2>2. ASSUME NEW d \in Column, NEW s \in Thread, reads + 1 >= At(d, s)
        PROVE  seen'[d][s] = Cell(count[s], d)
    <3>1. CASE d = c /\ s = t
      BY <1>6, <3>1
    <3>2. CASE ~(d = c /\ s = t)
      <4>1. reads >= At(d, s)
        BY <1>10, <2>2, <3>2
      <4> QED BY <1>6, <2>1, <3>2, <4>1
    <3> QED BY <3>1, <3>2
  <2> QED BY <2>1, <2>2
<1> QED BY <1>7, <1>8, <1>9, <1>11, <1>12 DEF ReportInv

LEMMA PrintEndsInv ==
  ASSUME ReportInv, PrintEnds
  PROVE  ReportInv'
<1>1. /\ who \in {"monitor", "main"} /\ Printed
      /\ last' = [t \in Thread |-> [ops |-> seen["ops"][t], bytes |-> seen["bytes"][t]]]
      /\ who' = IF who = "main" THEN "finished" ELSE "nobody"
      /\ UNCHANGED <<count, owed, log, exited, mon, tables, copies, reads, seen>>
  BY DEF PrintEnds, workerVars
<1>2. /\ seen \in [Column -> [Thread -> Nat]]
      /\ "ops" \in Column /\ "bytes" \in Column /\ "mib" \in Column
  BY DEF ReportInv, ReportTypes, Column
<1>3. last' \in [Thread -> Stat]
  BY <1>1, <1>2 DEF Stat
<1>4. \A t \in Thread : last'[t].ops = seen["ops"][t] /\ last'[t].bytes = seen["bytes"][t]
  BY <1>1
<1>5. ReportTypes' /\ CountOK' /\ CopyOK'
  BY <1>1, <1>3 DEF ReportInv, ReportTypes, CountOK, Counted, BytesOf, CopyOK
<1>6. PassedOK'
  BY <1>1, <1>2, <1>4 DEF ReportInv, PassedOK, Cell
<1>7. \A t \in Thread : RowOK(t)'
  <2> TAKE t \in Thread
  <2>1. RowOK(t)
    BY DEF ReportInv
  <2>2. At("ops", t) <= reads /\ At("bytes", t) <= reads
    BY <1>1, <1>2, AtBound DEF Printed
  <2>3. BytesOf(t, seen["ops"][t] - 1)' = BytesOf(t, seen["ops"][t] - 1)
    BY <1>1 DEF BytesOf
  <2>4. seen["ops"][t] \in Nat /\ seen["bytes"][t] \in Nat
    BY <1>2
  <2> QED BY <1>1, <1>4, <2>1, <2>2, <2>3, <2>4, NumThreadType DEF RowOK, ReportInv, ReportTypes
<1>8. MainOK'
  BY <1>1 DEF ReportInv, MainOK, Printed
<1> QED BY <1>5, <1>6, <1>7, <1>8 DEF ReportInv

LEMMA PrintStatInv ==
  ASSUME ReportInv, NEW p \in {"monitor", "main"}, PrintStat(p),
         p = "main" => copies # <<>>,
         UNCHANGED <<count, owed, log, exited, copies, last>>
  PROVE  ReportInv'
<1>1. who' = p /\ reads' = 0 /\ seen' = NoTable
  BY DEF PrintStat
<1>2. \A c \in Column, t \in Thread : At(c, t) \in Nat \ {0} /\ seen'[c][t] = 0
  BY <1>1, AtBound DEF NoTable
<1>3. ReportTypes'
  BY <1>1, NumThreadType DEF ReportInv, ReportTypes, NoTable
<1>4. CountOK' /\ CopyOK'
  BY DEF ReportInv, CountOK, Counted, BytesOf, CopyOK
<1>5. PassedOK'
  <2> SUFFICES ASSUME NEW t \in Thread
               PROVE  /\ \A c \in Column : seen'[c][t] <= Cell(count[t], c)
                      /\ last[t].ops <= count[t].ops /\ last[t].bytes <= count[t].bytes
    BY DEF PassedOK
  <2>1. count[t] \in Stat
    BY DEF ReportInv, ReportTypes
  <2>2. \A c \in Column : Cell(count[t], c) \in Nat
    BY <2>1, CellType
  <2> QED BY <1>2, <2>2 DEF ReportInv, PassedOK
<1>6. \A t \in Thread : RowOK(t)'
  <2> TAKE t \in Thread
  <2>1. At("ops", t) \in Nat \ {0} /\ At("bytes", t) \in Nat \ {0}
    BY <1>2 DEF Column
  <2> QED BY <1>1, <2>1 DEF RowOK
<1>7. MainOK'
  <2>1. \A c \in Column, t \in Thread : ~(reads' >= At(c, t))
    BY <1>1, <1>2
  <2> QED BY <1>1, <2>1 DEF MainOK, ReportInv
<1> QED BY <1>3, <1>4, <1>5, <1>6, <1>7 DEF ReportInv

-----------------------------------------------------------------------------
(* The other steps.                                                        *)

LEMMA CopyStatInv ==
  ASSUME ReportInv, CopyStat
  PROVE  ReportInv'
<1>1. /\ exited = Thread /\ copies = <<>> /\ copies' = count
      /\ UNCHANGED <<count, owed, log, exited, mon, tables, who, reads, seen, last>>
  BY DEF CopyStat, workerVars, printVars
<1>2. ReportTypes' /\ CountOK' /\ CopyOK' /\ PassedOK'
  BY <1>1 DEF ReportInv, ReportTypes, CountOK, Counted, BytesOf, CopyOK, PassedOK
<1>3. (\A t \in Thread : RowOK(t)') /\ MainOK'
  BY <1>1 DEF ReportInv, RowOK, BytesOf, MainOK
<1> QED BY <1>2, <1>3 DEF ReportInv

LEMMA IdleInv ==
  ASSUME ReportInv, UNCHANGED <<workerVars, copies, printVars>>
  PROVE  ReportInv'
<1>1. ReportTypes' /\ CountOK' /\ CopyOK' /\ PassedOK'
  BY DEF ReportInv, ReportTypes, CountOK, Counted, BytesOf, CopyOK, PassedOK,
         workerVars, printVars
<1>2. (\A t \in Thread : RowOK(t)') /\ MainOK'
  BY DEF ReportInv, RowOK, BytesOf, MainOK, Printed, workerVars, printVars
<1> QED BY <1>1, <1>2 DEF ReportInv

LEMMA StepInv == ReportInv /\ [Next]_vars => ReportInv'
<1> SUFFICES ASSUME ReportInv, [Next]_vars PROVE ReportInv'
  OBVIOUS
<1>1. ASSUME NEW t \in Thread, CountFirst(t) \/ CountRest(t) \/ Exit(t)
      PROVE  ReportInv'
  BY <1>1, CountFirstCounts, CountRestCounts, CountsInv, ExitInv
<1>2. CASE ReadStat
  BY <1>2, ReadStatInv
<1>3. CASE PrintEnds
  BY <1>3, PrintEndsInv
<1>4. CASE MonitorPrint
  <2>1. PrintStat("monitor") /\ UNCHANGED <<count, owed, log, exited, copies, last>>
    BY <1>4 DEF MonitorPrint, workerVars
  <2> QED BY <2>1, PrintStatInv
<1>5. CASE MonitorLeaves
  BY <1>5, IdleInv DEF MonitorLeaves
<1>6. CASE CopyStat
  BY <1>6, CopyStatInv
<1>7. CASE MainPrint
  <2>1. /\ copies # <<>> /\ PrintStat("main")
        /\ UNCHANGED <<count, owed, log, exited, copies, last>>
    BY <1>7 DEF MainPrint, workerVars
  <2> QED BY <2>1, PrintStatInv
<1>8. CASE Finished \/ UNCHANGED vars
  BY <1>8, IdleInv DEF Finished, vars, workerVars, printVars
<1> QED BY <1>1, <1>2, <1>3, <1>4, <1>5, <1>6, <1>7, <1>8 DEF Next

\* What each table has so far, and how the counters stand to it.
THEOREM ReportInvariance == Spec => []ReportInv
BY InitInv, StepInv, PTL DEF Spec

-----------------------------------------------------------------------------
(* The tables.                                                             *)

LEMMA InvLive == ReportInv => LiveRowsAccount
<1> SUFFICES ASSUME ReportInv, Printed, NEW t \in Thread
             PROVE  /\ seen["bytes"][t] >= BytesOf(t, seen["ops"][t] - 1)
                    /\ seen["bytes"][t] >= seen["mib"][t]
                    /\ seen["bytes"][t] >= last[t].bytes /\ seen["ops"][t] >= last[t].ops
  BY DEF LiveRowsAccount
<1>1. At("ops", t) <= reads /\ At("bytes", t) <= reads
  BY AtBound DEF Printed, Column
<1>2. RowOK(t) /\ reads \in Nat /\ At("ops", t) \in Nat /\ At("bytes", t) \in Nat
  BY AtBound DEF ReportInv, ReportTypes, Column
<1> QED BY <1>1, <1>2 DEF RowOK

LEMMA InvFinal == ReportInv => FinalTableExact
<1> SUFFICES ASSUME ReportInv, who = "finished" PROVE FinalTableExact
  BY DEF FinalTableExact
<1>1. \A c \in Column, t \in Thread : seen[c][t] = Cell(count[t], c)
  <2> TAKE c \in Column, t \in Thread
  <2>1. reads >= At(c, t)
    BY AtBound, NumThreadType DEF ReportInv, MainOK, Printed
  <2> QED BY <2>1 DEF ReportInv, MainOK
<1>2. \A t \in Thread : /\ seen["ops"][t] = count[t].ops /\ seen["width_ops"][t] = count[t].ops
                        /\ seen["bytes"][t] = count[t].bytes
                        /\ seen["width_bytes"][t] = count[t].bytes
                        /\ seen["mib"][t] = count[t].bytes
  BY <1>1 DEF Column, Cell
<1>3. \A t \in Thread : count[t].ops \in Nat /\ count[t].bytes \in Nat
  BY DEF ReportInv, ReportTypes, Stat
<1>4. \A t \in Thread : count[t].ops = Len(log[t]) /\ count[t].bytes = BytesOf(t, Len(log[t]))
  <2> TAKE t \in Thread
  <2>1. owed[t] = Zero /\ Counted(t)
    BY DEF ReportInv, MainOK, CopyOK, CountOK, Counted
  <2>2. BytesOf(t, Len(log[t])) \in Nat /\ Len(log[t]) \in Nat
    BY BytesType DEF ReportInv, ReportTypes
  <2> QED BY <1>3, <2>1, <2>2, ZeroType DEF Counted
<1>5. ASSUME NEW c \in {"ops", "bytes"}, NEW t \in Thread
      PROVE  seen[c][t] <= Heading \/ \E r \in Thread : seen[c][t] <= seen[WidthOf[c]][r]
  <2>1. seen[c][t] = seen[WidthOf[c]][t] /\ seen[c][t] \in Nat
    BY <1>2, <1>3 DEF WidthOf
  <2>2. seen[c][t] <= seen[WidthOf[c]][t]
    BY <2>1
  <2> QED BY <2>2
<1> QED BY <1>2, <1>4, <1>5 DEF FinalTableExact

\* A live table is late by no more than the operation under way, and takes nothing back,
\* however print_stat and the workers interleave.
THEOREM LiveTablesLag == Spec => []LiveRowsAccount
BY ReportInvariance, InvLive, PTL

\* The last table has everything, and its columns are wide enough.
THEOREM LastTableExact == Spec => []FinalTableExact
BY ReportInvariance, InvFinal, PTL
=============================================================================
