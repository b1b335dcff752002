---------------------------- MODULE FileIOProofs ----------------------------
(***************************************************************************)
(* Proofs about FileIO, for every buffer and size in the ranges of the     *)
(* options, every file and every tree.                                     *)
(***************************************************************************)
EXTENDS FileIO, TLAPS

-----------------------------------------------------------------------------
(* The inductive invariant.                                                *)

ReadJob == [op : {"read"}, f : DOMAIN Tree, buf : BufSizes, size : Sizes,
            stat_only : BOOLEAN, ignore_dot : BOOLEAN, follow : BOOLEAN]

WriteJob == [op : {"write"}, buf : BufSizes, size : Sizes, truncate : BOOLEAN,
             fsync : BOOLEAN, random : BOOLEAN, offset : Int]

\* The places of a read and of a write.
ReadPc == {"start", "resid", "read"} \cup Ended
WritePc == {"start", "resize", "fsync", "write", "flush", "close"} \cup Ended

TypeOK ==
  /\ \/ job \in ReadJob /\ pc \in ReadPc
     \/ job \in WriteJob /\ pc \in WritePc
  /\ resid \in Int /\ want \in Int
  /\ io \in [stat : Int, ops : Nat, bytes : Nat]
  /\ file \in [size : Nat, held : Nat, synced : BOOLEAN]

\* While a read wants a number of bytes, resid is what it lacks of them; the loop
\* is not entered again when nothing is lacking.
ReadOK ==
  Reads =>
    /\ pc \in {"start", "resid"} => io.ops = 0 /\ io.bytes = 0
    /\ pc = "start" => want = 0
    /\ want > 0 => resid = want - io.bytes /\ resid >= 0
    /\ want <= 0 => resid = want
    /\ pc = "read" => resid # 0

\* The bytes that were counted are in the file or held back by the stream; what
\* the loop has still to write is resid.
WriteOK ==
  ~Reads =>
    /\ pc = "start" => io.bytes = 0 /\ file.size = 0 /\ file.held = 0
    /\ pc = "resize" => job.truncate /\ resid = want /\ resid > 0
    /\ pc = "fsync" => job.truncate /\ file.size = want
    /\ pc \in {"write", "flush", "close"} =>
         ~job.truncate /\ file.size + file.held = io.bytes
    /\ pc = "write" => resid > 0 /\ resid = want - io.bytes
    /\ pc \in {"flush", "close"} => io.bytes = want
    /\ pc = "close" /\ job.fsync => file.held = 0
    /\ job.offset = 0 \/ job.offset \in Offsets

\* What is known when a write has returned.
DoneOK == WritesExactly /\ FsyncLosesNothing /\ FsyncIsDurable

IndInv == TypeOK /\ ReadOK /\ WriteOK /\ DoneOK

-----------------------------------------------------------------------------
(* What the proofs use of the assumption, and what the helpers return.     *)

LEMMA Constants ==
  /\ BufSizes \subseteq Nat /\ Sizes \subseteq Int
  /\ \A b \in BufSizes : b <= MaxBuf
  /\ MaxBuf \in Nat /\ MaxSize \in Nat /\ MaxOps \in Nat \ {0}
BY FileIOAssumption DEF FileIOAssumption

\* A file with no data held back.
LEMMA FileType0 ==
  ASSUME NEW S \in SUBSET Nat, NEW x \in [size : S, held : {0}, synced : {FALSE}]
  PROVE  x \in [size : Nat, held : Nat, synced : BOOLEAN] /\ x.size \in S /\ x.held = 0
<1>1. x.size \in S /\ x.size \in Nat /\ x.held = 0 /\ x.synced = FALSE
  OBVIOUS
<1>2. x = [size |-> x.size, held |-> x.held, synced |-> x.synced]
  OBVIOUS
<1>3. x.synced \in BOOLEAN
  BY <1>1, Zenon
<1>4. [size |-> x.size, held |-> x.held, synced |-> x.synced]
        \in [size : Nat, held : Nat, synced : BOOLEAN]
  BY <1>1, <1>3
<1> QED BY <1>1, <1>2, <1>4

LEMMA JobType ==
  ASSUME TypeOK
  PROVE  /\ job.buf \in Nat /\ job.buf <= MaxBuf /\ job.size \in Int
         /\ Reads <=> job \in ReadJob
         /\ Reads <=> job \notin WriteJob
         /\ Reads => pc \in ReadPc
         /\ ~Reads => pc \in WritePc
<1>1. CASE job \in ReadJob /\ pc \in ReadPc
  BY <1>1, Constants DEF ReadJob, WriteJob, Reads
<1>2. CASE job \in WriteJob /\ pc \in WritePc
  BY <1>2, Constants DEF ReadJob, WriteJob, Reads
<1> QED BY <1>1, <1>2 DEF TypeOK

\* A chunk is no longer than what the read lacks, and is empty only at the end.
LEMMA ChunkType ==
  ASSUME TypeOK
  PROVE  /\ Chunk \in Nat
         /\ resid > 0 => Chunk <= resid
         /\ job.buf > 0 /\ Chunk = 0 => file.size <= io.bytes
<1>1. /\ resid \in Int /\ io.bytes \in Nat /\ file.size \in Nat
      /\ job.buf \in Nat
  BY JobType DEF TypeOK
<1> QED BY <1>1 DEF Chunk, Lesser, ReadLen

LEMMA CountType ==
  ASSUME TypeOK, NEW n \in Nat
  PROVE  /\ Count(n) \in [stat : Int, ops : Nat, bytes : Nat]
         /\ Count(n).ops > 0
         /\ Count(n).bytes = io.bytes + n
<1>1. io \in [stat : Int, ops : Nat, bytes : Nat]
  BY DEF TypeOK
<1>2. io.stat \in Int /\ io.bytes + n \in Nat
  BY <1>1
<1>3. Lesser(io.ops + 1, MaxOps) \in Nat /\ Lesser(io.ops + 1, MaxOps) > 0
  BY <1>1, Constants DEF Lesser
<1>4. Count(n) \in [stat : Int, ops : Nat, bytes : Nat]
  BY <1>1, <1>2, <1>3 DEF Count
<1>5. Count(n).ops = Lesser(io.ops + 1, MaxOps) /\ Count(n).bytes = io.bytes + n
  BY <1>1 DEF Count
<1> QED BY <1>3, <1>4, <1>5

\* What a flush does, and a destructor that loses what is held back.
LEMMA FlushedType ==
  ASSUME TypeOK, \/ Flushed
                 \/ file' = [file EXCEPT !.held = 0]
                 \/ UNCHANGED file
  PROVE  file' \in [size : Nat, held : Nat, synced : BOOLEAN]
<1>1. file \in [size : Nat, held : Nat, synced : BOOLEAN]
  BY DEF TypeOK
<1>2. file.size \in Nat /\ file.size + file.held \in Nat
  BY <1>1
<1>3. CASE Flushed
  BY <1>1, <1>2, <1>3 DEF Flushed
<1> QED BY <1>1, <1>3

LEMMA FlushedBytes ==
  ASSUME TypeOK, Flushed
  PROVE  file'.size = file.size + file.held /\ file'.held = 0
<1>1. file \in [size : Nat, held : Nat, synced : BOOLEAN]
  BY DEF TypeOK
<1>2. file' = [[file EXCEPT !.size = @ + file.held] EXCEPT !.held = 0]
  BY DEF Flushed
<1> QED BY <1>1, <1>2

\* resid and want after SetResid: as many bytes as wanted, or none if there is
\* no limit.
LEMMA SetResidValue ==
  ASSUME TypeOK, NEW next, SetResid(next), pc' # "abort"
  PROVE  /\ resid' \in Int /\ want' = resid' /\ pc' = next
         /\ resid' # 0
         /\ job.size >= 0 => resid' > 0
<1>1. /\ ~(job.size = 0 /\ job.buf = 0)
      /\ resid' \in IF job.size = 0 THEN RandomSizes(job.buf) ELSE {job.size}
      /\ want' = resid' /\ pc' = next
  BY DEF SetResid
<1>2. CASE job.size = 0
  BY <1>1, <1>2, JobType DEF RandomSizes
<1>3. CASE job.size # 0
  BY <1>1, <1>3, JobType
<1> QED BY <1>2, <1>3

-----------------------------------------------------------------------------
LEMMA IndInit == Init => IndInv
<1> SUFFICES ASSUME Init PROVE IndInv
  OBVIOUS
<1> USE Constants DEF Init, Jobs, Reads
<1>1. TypeOK
  <2>1. \/ job \in ReadJob
        \/ job \in WriteJob
    BY SMT DEF ReadJob, WriteJob
  <2> DEFINE S == IF job.op = "read" THEN 0 .. MaxSize ELSE {0}
  <2>2. file \in [size : S, held : {0}, synced : {FALSE}]
    BY Zenon
  <2>21. S \in SUBSET Nat
    OBVIOUS
  <2> HIDE DEF S
  <2>3. file \in [size : Nat, held : Nat, synced : BOOLEAN]
    BY <2>2, <2>21, FileType0
  <2> QED BY <2>1, <2>3 DEF TypeOK, ReadPc, WritePc
<1>2. ReadOK /\ WriteOK
  BY DEF ReadOK, WriteOK
<1>3. DoneOK
  BY DEF DoneOK, WritesExactly, FsyncLosesNothing, FsyncIsDurable
<1> QED BY <1>1, <1>2, <1>3 DEF IndInv

\* The steps of a read.
LEMMA ReadStep ==
  ASSUME IndInv, Reads, ReadEntry \/ ReadResid \/ ReadSome \/ FileChanges
  PROVE  IndInv'
<1>1. job \in ReadJob /\ job' = job /\ Reads'
  BY JobType DEF IndInv, Reads, ReadEntry, FindEntry, FindThrows, Done, ReadResid, ReadSome, FileChanges
<1>2. WriteOK' /\ DoneOK'
  BY <1>1 DEF WriteOK, DoneOK, WritesExactly, FsyncLosesNothing, FsyncIsDurable
<1> SUFFICES TypeOK' /\ ReadOK'
  BY <1>2 DEF IndInv
<1> USE <1>1, Constants DEF IndInv, TypeOK, ReadOK, ReadPc, Ended
<1>3. CASE ReadEntry
  BY <1>3 DEF ReadEntry, FindEntry, FindThrows, Throws, Done
<1>4. CASE ReadResid
  <2>1. CASE pc' \in {"abort", "thrown"}
    BY <1>4, <2>1 DEF ReadResid, SetResid, Throws
  <2>2. CASE pc' \notin {"abort", "thrown"}
    <3>1. pc = "resid" /\ SetResid("read") /\ UNCHANGED <<io, file>>
      BY <1>4, <2>2 DEF ReadResid, Throws
    <3>2. resid' \in Int /\ want' = resid' /\ pc' = "read" /\ resid' # 0
      BY <2>2, <3>1, SetResidValue
    <3> QED BY <3>1, <3>2
  <2> QED BY <2>1, <2>2
<1>5. CASE ReadSome
  <2>1. pc = "read" /\ UNCHANGED <<file, want>>
    BY <1>5 DEF ReadSome
  <2>2. CASE Throws /\ UNCHANGED <<io, resid>>
    BY <2>1, <2>2 DEF Throws
  <2>3. CASE /\ io' = Count(Chunk)
             /\ resid' = IF resid > 0 THEN resid - Chunk ELSE resid
             /\ pc' = IF ReadEnds(Chunk) THEN "done" ELSE "read"
    <3>1. Chunk \in Nat /\ (resid > 0 => Chunk <= resid)
      BY ChunkType DEF IndInv
    <3>2. io' \in [stat : Int, ops : Nat, bytes : Nat] /\ io'.bytes = io.bytes + Chunk
      BY <2>3, <3>1, CountType
    <3>3. TypeOK'
      BY <2>1, <2>3, <3>1, <3>2
    <3>4. CASE want > 0
      BY <2>1, <2>3, <3>1, <3>2, <3>3, <3>4 DEF ReadEnds
    <3>5. CASE ~(want > 0)
      BY <2>1, <2>3, <3>1, <3>2, <3>3, <3>5
    <3> QED BY <3>4, <3>5
  <2> QED BY <1>5, <2>2, <2>3 DEF ReadSome
<1>6. CASE FileChanges
  <2>1. /\ file' \in [size : 0 .. MaxSize, held : {0}, synced : {FALSE}]
        /\ UNCHANGED <<pc, resid, io, want>>
    BY <1>6 DEF FileChanges
  <2> DEFINE S == 0 .. MaxSize
  <2>2. S \in SUBSET Nat
    OBVIOUS
  <2>3. file' \in [size : S, held : {0}, synced : {FALSE}]
    BY <2>1
  <2> HIDE DEF S
  <2>4. file' \in [size : Nat, held : Nat, synced : BOOLEAN]
    BY <2>2, <2>3, FileType0
  <2> QED BY <2>1, <2>4
<1> QED BY <1>3, <1>4, <1>5, <1>6

\* A write changes nothing of its job but the offset.
LEMMA WriteJobKept ==
  ASSUME TypeOK, ~Reads, WriteResid \/ Resize \/ FsyncInode \/ WriteSome \/ FlushStream \/ CloseStream
  PROVE  /\ job \in WriteJob /\ pc \in WritePc /\ job' \in WriteJob /\ ~Reads'
         /\ job'.buf = job.buf /\ job'.size = job.size
         /\ job'.truncate = job.truncate /\ job'.fsync = job.fsync
         /\ job'.offset = job.offset \/ job'.offset \in Offsets
<1>1. job \in WriteJob /\ pc \in WritePc
  BY JobType
<1>2. CASE job' = job
  BY <1>1, <1>2 DEF Reads
<1>3. CASE WriteSome /\ job' # job
  <2>1. PICK i \in IF job.random THEN Offsets ELSE {job.offset} :
          job' = [job EXCEPT !.offset = i]
    BY <1>3 DEF WriteSome
  <2>2. i \in Int /\ (i = job.offset \/ i \in Offsets)
    BY <1>1, <2>1, JobType DEF Offsets, WriteJob
  <2> QED BY <1>1, <2>1, <2>2 DEF WriteJob, Reads
<1> QED BY <1>1, <1>2, <1>3
     DEF WriteResid, Resize, FsyncInode, WriteSome, FlushStream, CloseStream

LEMMA WriteTypes ==
  ASSUME IndInv, ~Reads,
         WriteResid \/ Resize \/ FsyncInode \/ WriteSome \/ FlushStream \/ CloseStream
  PROVE  TypeOK'
<1>1. job \in WriteJob /\ pc \in WritePc /\ job' \in WriteJob
  BY WriteJobKept DEF IndInv
<1>2. /\ resid \in Int /\ want \in Int
      /\ io \in [stat : Int, ops : Nat, bytes : Nat]
      /\ file \in [size : Nat, held : Nat, synced : BOOLEAN]
  BY DEF IndInv, TypeOK
<1> SUFFICES /\ pc' \in WritePc /\ resid' \in Int /\ want' \in Int
             /\ io' \in [stat : Int, ops : Nat, bytes : Nat]
             /\ file' \in [size : Nat, held : Nat, synced : BOOLEAN]
  BY <1>1 DEF TypeOK
<1> USE DEF WritePc, Ended
<1>3. CASE WriteResid
  <2>1. io' \in [stat : Int, ops : Nat, bytes : Nat]
    BY <1>2, <1>3, CountType DEF WriteResid, IndInv
  <2>2. CASE job.size < 0 \/ pc' = "abort"
    BY <1>2, <1>3, <2>1, <2>2 DEF WriteResid, SetResid
  <2>3. CASE ~(job.size < 0) /\ pc' # "abort"
    <3> DEFINE next == IF job.truncate THEN "resize" ELSE "write"
    <3>1. SetResid(next) /\ UNCHANGED file
      BY <1>3, <2>3 DEF WriteResid
    <3>2. resid' \in Int /\ want' = resid' /\ pc' = next
      BY <2>3, <3>1, SetResidValue DEF IndInv
    <3> QED BY <1>2, <2>1, <3>1, <3>2
  <2> QED BY <2>2, <2>3
<1>4. CASE Resize
  <2>1. pc' \in WritePc /\ UNCHANGED <<resid, want>>
    BY <1>4 DEF Resize, Throws
  <2>2. io' \in [stat : Int, ops : Nat, bytes : Nat]
    BY <1>2, <1>4, CountType DEF Resize, Throws, IndInv
  <2>3. resid \in Nat
    BY <1>2, <1>4 DEF Resize, IndInv, WriteOK
  <2>4. file' = [file EXCEPT !.size = resid, !.synced = FALSE] \/ file' = file
    BY <1>4 DEF Resize
  <2>5. file' \in [size : Nat, held : Nat, synced : BOOLEAN]
    BY <1>2, <2>3, <2>4
  <2> QED BY <1>2, <2>1, <2>2, <2>5
<1>5. CASE FsyncInode
  <2>1. file' \in [size : Nat, held : Nat, synced : BOOLEAN]
    BY <1>2, <1>5 DEF FsyncInode
  <2> QED BY <1>2, <1>5, <2>1 DEF FsyncInode
<1>6. CASE WriteSome
  <2>1. pc' \in WritePc /\ UNCHANGED want
    BY <1>1, <1>6 DEF WriteSome, Throws
  <2>2. WriteLen \in Nat
    BY <1>2, <1>6, JobType DEF WriteSome, WriteLen, Lesser, IndInv, WriteOK
  <2>3. resid' \in Int
    BY <1>2, <1>6, <2>2 DEF WriteSome
  <2>4. io' \in [stat : Int, ops : Nat, bytes : Nat]
    BY <1>2, <1>6, <2>2, CountType DEF WriteSome, IndInv
  <2>5. CASE StreamWrite(WriteLen)
    <3>1. PICK h \in 0 .. file.held + WriteLen :
            file' = [size |-> file.size + file.held + WriteLen - h, held |-> h, synced |-> FALSE]
      BY <2>5 DEF StreamWrite
    <3>2. h \in Nat /\ file.size + file.held + WriteLen - h \in Nat
      BY <1>2, <2>2, <3>1
    <3>3. file' \in [size : Nat, held : Nat, synced : BOOLEAN]
      BY <3>1, <3>2
    <3> QED BY <2>1, <2>3, <2>4, <3>3, <1>2
  <2>6. CASE ~StreamWrite(WriteLen)
    BY <1>2, <1>6, <2>1, <2>3, <2>4, <2>6 DEF WriteSome
  <2> QED BY <2>5, <2>6
<1>7. CASE FlushStream
  <2>1. file' \in [size : Nat, held : Nat, synced : BOOLEAN]
    BY <1>7, FlushedType DEF FlushStream, IndInv
  <2> QED BY <1>2, <1>7, <2>1 DEF FlushStream, Throws
<1>8. CASE CloseStream
  <2>1. file' \in [size : Nat, held : Nat, synced : BOOLEAN]
    BY <1>8, FlushedType DEF CloseStream, IndInv
  <2> QED BY <1>2, <1>8, <2>1 DEF CloseStream
<1> QED BY <1>3, <1>4, <1>5, <1>6, <1>7, <1>8

LEMMA WriteStep ==
  ASSUME IndInv, ~Reads,
         WriteResid \/ Resize \/ FsyncInode \/ WriteSome \/ FlushStream \/ CloseStream
  PROVE  IndInv'
<1>1. TypeOK'
  BY WriteTypes
<1>2. /\ job \in WriteJob /\ job' \in WriteJob /\ ~Reads'
      /\ job'.buf = job.buf /\ job'.size = job.size
      /\ job'.truncate = job.truncate /\ job'.fsync = job.fsync
      /\ job'.offset = job.offset \/ job'.offset \in Offsets
  BY WriteJobKept DEF IndInv
<1>3. Offsets' = Offsets
  BY <1>2 DEF Offsets
<1>4. /\ resid \in Int /\ want \in Int /\ resid' \in Int
      /\ io \in [stat : Int, ops : Nat, bytes : Nat]
      /\ file \in [size : Nat, held : Nat, synced : BOOLEAN]
  BY <1>1 DEF IndInv, TypeOK
<1> SUFFICES WriteOK' /\ DoneOK'
  BY <1>1, <1>2 DEF IndInv, ReadOK
<1> USE <1>2, <1>3, <1>4
     DEF IndInv, WriteOK, DoneOK, WritesExactly, FsyncLosesNothing, FsyncIsDurable
<1>5. CASE WriteResid
  <2>1. CASE job.size < 0
    <3>1. io'.bytes = io.bytes
      BY <1>5, <2>1, CountType DEF WriteResid
    <3>2. pc = "start" /\ pc' = "done" /\ UNCHANGED <<job, file, want>>
      BY <1>5, <2>1 DEF WriteResid
    <3>3. WriteOK'
      BY <3>2
    <3>4. /\ io.bytes = 0 /\ file.size = 0
          /\ job'.size < 0 /\ io'.bytes = 0 /\ file'.size = 0
      BY <2>1, <3>1, <3>2
    <3>5. ~(job'.size >= 0) /\ file'.size = io'.bytes
      BY <2>1, <3>4, JobType
    <3>6. WritesExactly' /\ FsyncIsDurable'
      BY <3>5, Zenon
    <3>7. FsyncLosesNothing'
      BY <3>5, Zenon
    <3> QED BY <3>3, <3>6, <3>7, Zenon
  <2>2. CASE ~(job.size < 0) /\ pc' = "abort"
    BY <1>5, <2>2 DEF WriteResid, SetResid
  <2>3. CASE ~(job.size < 0) /\ pc' # "abort"
    <3> DEFINE next == IF job.truncate THEN "resize" ELSE "write"
    <3>1. SetResid(next) /\ pc = "start" /\ UNCHANGED <<job, io, file>>
      BY <1>5, <2>3 DEF WriteResid
    <3>2. want' = resid' /\ pc' = next /\ resid' > 0
      BY <2>3, <3>1, SetResidValue, JobType
    <3>3. WriteOK'
      BY <3>1, <3>2
    <3>4. DoneOK'
      BY <3>1, <3>2
    <3> QED BY <3>3, <3>4
  <2> QED BY <2>1, <2>2, <2>3, JobType
<1>6. CASE Resize
  BY <1>6 DEF Resize, Throws
<1>7. CASE FsyncInode
  BY <1>7 DEF FsyncInode
<1>8. CASE WriteSome
  <2>1. pc = "write" /\ UNCHANGED want /\ job.buf \in Nat
    BY <1>8, JobType DEF WriteSome
  <2>2. CASE pc' \in {"abort", "thrown"}
    BY <1>8, <2>1, <2>2
  <2>3. CASE pc' \notin {"abort", "thrown"}
    <3>1. /\ StreamWrite(WriteLen)
          /\ io' = Count(WriteLen)
          /\ resid' = resid - WriteLen
          /\ pc' = IF resid' <= 0 THEN "flush" ELSE "write"
      BY <1>8, <2>3 DEF WriteSome, Throws
    <3>2. WriteLen \in Nat /\ WriteLen <= resid
      BY <2>1 DEF WriteLen, Lesser
    <3>3. io'.bytes = io.bytes + WriteLen
      BY <3>1, <3>2, CountType
    <3>4. file'.size + file'.held = file.size + file.held + WriteLen
      BY <3>1, <3>2 DEF StreamWrite
    <3> QED BY <1>1, <2>1, <3>1, <3>2, <3>3, <3>4
  <2> QED BY <2>2, <2>3
<1>9. CASE FlushStream
  <2>1. pc = "flush" /\ UNCHANGED <<job, io, want>> /\ pc' \in {"close", "thrown"}
    BY <1>9 DEF FlushStream, Throws
  <2>2. file'.size + file'.held = file.size + file.held
    BY <1>9, FlushedBytes DEF FlushStream
  <2>3. job.fsync /\ pc' = "close" => file'.held = 0
    BY <1>9, FlushedBytes DEF FlushStream, Throws
  <2> QED BY <2>1, <2>2, <2>3
<1>10. CASE CloseStream
  <2>1. pc = "close" /\ UNCHANGED <<job, io, want>> /\ pc' = "done"
    BY <1>10 DEF CloseStream
  <2>2. job.fsync => file'.size = file.size
    BY <1>10, <2>1, FlushedBytes DEF CloseStream
  <2> QED BY <2>1, <2>2
<1> QED BY <1>5, <1>6, <1>7, <1>8, <1>9, <1>10

LEMMA IndNext == IndInv /\ [Next]_vars => IndInv'
<1> SUFFICES ASSUME IndInv, [Next]_vars PROVE IndInv'
  OBVIOUS
<1>1. CASE ReadEntry \/ ReadResid \/ ReadSome \/ FileChanges
  <2>1. Reads
    BY <1>1, JobType DEF IndInv, ReadEntry, ReadResid, ReadSome, FileChanges,
       Reads, WritePc, Ended
  <2> QED BY <1>1, <2>1, ReadStep
<1>2. CASE WriteResid \/ Resize \/ FsyncInode \/ WriteSome \/ FlushStream \/ CloseStream
  <2>1. ~Reads
    BY <1>2, JobType DEF IndInv, WriteResid, Resize, FsyncInode, WriteSome,
       FlushStream, CloseStream, Reads, ReadPc, Ended
  <2> QED BY <1>2, <2>1, WriteStep
<1>3. CASE UNCHANGED vars
  BY <1>3 DEF vars, IndInv, TypeOK, ReadOK, WriteOK, DoneOK, WritesExactly,
     FsyncLosesNothing, FsyncIsDurable, Reads, Offsets
<1> QED BY <1>1, <1>2, <1>3 DEF Next, Step, Stopped

\* Every state of the program satisfies the inductive invariant.
THEOREM Invariance == Spec => []IndInv
<1>1. Init => IndInv
  BY IndInit
<1>2. IndInv /\ [Next]_vars => IndInv'
  BY IndNext
<1> QED BY <1>1, <1>2, PTL DEF Spec

-----------------------------------------------------------------------------
(* The properties.                                                         *)

\* read_file takes no byte more than it wants, whatever another program makes of
\* the file between two reads, for every pair of buffer and read size.
THEOREM ReadsStopAtWant == Spec => []ReadsNoMore
<1>1. IndInv => ReadsNoMore
  BY Constants, JobType DEF IndInv, TypeOK, ReadOK, ReadsNoMore, WasRead
<1> QED BY <1>1, Invariance, PTL

\* write_file has counted exactly the bytes wanted when it returns.
THEOREM WritesAsWanted == Spec => []WritesExactly
<1>1. IndInv => WritesExactly
  BY DEF IndInv, DoneOK
<1> QED BY <1>1, Invariance, PTL

\* With the fsync option every byte that write_file counted is in the file when
\* it returns, also when the destructor of the stream fails silently.
THEOREM NothingLost == Spec => []FsyncLosesNothing
<1>1. IndInv => FsyncLosesNothing
  BY DEF IndInv, DoneOK
<1> QED BY <1>1, Invariance, PTL

\* A file made by truncating is durable when write_file returns.
THEOREM TruncatedIsDurable == Spec => []FsyncIsDurable
<1>1. IndInv => FsyncIsDurable
  BY DEF IndInv, DoneOK
<1> QED BY <1>1, Invariance, PTL

\* The copy of random data never leaves the random buffer, whatever offset is
\* drawn: the buffer is twice as long as the largest piece.
THEOREM CopyStaysInside == Spec => []CopyInBounds
<1>1. IndInv => CopyInBounds
  BY Constants, JobType DEF IndInv, WriteOK, CopyInBounds, Offsets
<1> QED BY <1>1, Invariance, PTL

\* The loop of read_file ends with what it wants or with the whole file.
THEOREM ReadsAreComplete == Spec => ReadsEnough
<1> DEFINE A == job.buf > 0 /\ pc = "read" /\ pc' = "done" =>
                  (want > 0 /\ io'.bytes = want) \/ io'.bytes >= file.size
<1>1. IndInv /\ [Next]_vars => [A]_vars
  <2> SUFFICES ASSUME IndInv, Next, job.buf > 0, pc = "read", pc' = "done"
               PROVE  (want > 0 /\ io'.bytes = want) \/ io'.bytes >= file.size
    OBVIOUS
  <2>1. ReadSome
    BY DEF Next, Step, Stopped, ReadEntry, FindThrows, Throws, ReadResid, WriteResid, Resize,
       FsyncInode, WriteSome, FlushStream, CloseStream, FileChanges, Ended, vars
  <2>2. io' = Count(Chunk) /\ ReadEnds(Chunk)
    BY <2>1 DEF ReadSome, Throws
  <2>3. Reads /\ job.buf \in Nat
    BY JobType DEF IndInv, WritePc, Ended
  <2>4. /\ resid \in Int /\ want \in Int
        /\ io \in [stat : Int, ops : Nat, bytes : Nat]
        /\ file \in [size : Nat, held : Nat, synced : BOOLEAN]
    BY DEF IndInv, TypeOK
  <2>5. /\ Chunk \in Nat
        /\ resid > 0 => Chunk <= resid
        /\ Chunk = 0 => file.size <= io.bytes
    BY <2>3, ChunkType DEF IndInv
  <2>6. io'.bytes = io.bytes + Chunk
    BY <2>2, <2>5, CountType DEF IndInv
  <2>7. CASE Chunk = 0
    BY <2>4, <2>5, <2>6, <2>7
  <2>8. CASE resid > 0 /\ resid - Chunk <= 0
    BY <2>3, <2>4, <2>5, <2>6, <2>8 DEF IndInv, ReadOK
  <2> QED BY <2>2, <2>7, <2>8 DEF ReadEnds
<1>2. Spec => [][A]_vars
  BY <1>1, Invariance, PTL DEF Spec
<1> QED BY <1>2 DEF ReadsEnough

-----------------------------------------------------------------------------
(* Symbolic links.  read_entry resolves the target of a relative link      *)
(* against the directory of what the link leads to; that is the directory  *)
(* of the link itself if the target is beside it.                          *)

\* No link leads to a link, and a relative link that leads somewhere leads to
\* something in its own directory.
LinksWithinDirectory ==
  \A p \in DOMAIN Tree :
    RawType(p) = "symlink" =>
      /\ RawType(Target(p)) # "symlink"
      /\ ~Tree[p].abs /\ FileType(p) # "unsupported" => Front(Target(p)) = Front(p)

Followed(f) == FileType(f) = "reg" /\ job.follow /\ ~job.stat_only /\ ~Ignored(f)

\* Only a link to be followed gets as far as the read loop, and such a link does
\* not end before it was read.
LinksOK ==
  Reads /\ RawType(job.f) = "symlink" =>
    /\ pc \in {"resid", "read"} => Followed(job.f)
    /\ pc = "done" => (io.ops > 0 <=> Followed(job.f))

LEMMA ReadTargetType ==
  ASSUME LinksWithinDirectory, NEW f \in DOMAIN Tree, RawType(f) = "symlink"
  PROVE  FileType(ReadTarget(f)) = FileType(f)
<1>1. FileType(f) = RawType(Target(f))
  BY DEF FileType
<1>2. RawType(Target(f)) # "symlink"
  BY DEF LinksWithinDirectory
<1>3. FileType(Target(f)) = RawType(Target(f))
  BY <1>2 DEF FileType
<1>4. CASE Tree[f].abs
  BY <1>1, <1>3, <1>4 DEF ReadTarget, Target
<1>5. CASE ~Tree[f].abs /\ FileType(f) = "unsupported"
  BY <1>1, <1>3, <1>5 DEF ReadTarget, Target, DirPath, Canonical
<1>6. CASE ~Tree[f].abs /\ FileType(f) # "unsupported"
  <2>1. DirPath(f) = Front(f)
    BY <1>6 DEF LinksWithinDirectory, DirPath, Canonical
  <2> QED BY <1>1, <1>3, <1>6, <2>1 DEF ReadTarget, Target
<1> QED BY <1>4, <1>5, <1>6

\* read_entry reads exactly the links that are to be followed and lead to a
\* regular file, if no relative link leads out of its directory.
THEOREM LinksAreFollowed == LinksWithinDirectory => (Spec => []FollowsTarget)
<1> SUFFICES ASSUME LinksWithinDirectory PROVE Spec => []FollowsTarget
  OBVIOUS
<1>1. Init => LinksOK
  BY DEF Init, LinksOK
<1>2. IndInv /\ LinksOK /\ [Next]_vars => LinksOK'
  <2> SUFFICES ASSUME IndInv, LinksOK, [Next]_vars, Reads', RawType(job'.f) = "symlink"
               PROVE  /\ pc' \in {"resid", "read"} => Followed(job.f)'
                      /\ pc' = "done" => (io'.ops > 0 <=> Followed(job.f)')
    BY DEF LinksOK
  <2>1. CASE UNCHANGED vars
    BY <2>1 DEF vars, LinksOK, Followed, Ignored, Reads
  <2>2. CASE ReadEntry \/ ReadResid \/ ReadSome \/ FileChanges
    <3>1. job' = job /\ Reads
      BY <2>2, JobType DEF IndInv, ReadEntry, FindEntry, FindThrows, Done, ReadResid, ReadSome, FileChanges, Reads
    <3>2. (Followed(job.f)') = Followed(job.f)
      BY <3>1 DEF Followed, Ignored
    <3>3. job.f \in DOMAIN Tree
      BY <3>1, JobType DEF IndInv, ReadJob
    <3>4. CASE ReadEntry
      <4>1. pc = "start" /\ io.ops = 0
        BY <3>1, <3>4 DEF ReadEntry, IndInv, ReadOK
      <4>2. FileType(ReadTarget(job.f)) = FileType(job.f)
        BY <3>1, <3>3, ReadTargetType
      <4>3. io'.ops = 0
        BY <3>4, <4>1 DEF ReadEntry, FindEntry, FindThrows, Done, IndInv, TypeOK
      <4>4. RawType(job.f) = "symlink"
        BY <3>1
      <4>5. pc' = "thrown" \/ pc' = IF Followed(job.f) THEN "resid" ELSE "done"
        BY <3>4, <4>2, <4>4 DEF ReadEntry, FindEntry, FindThrows, Throws, Done, Followed
      <4> QED BY <3>2, <4>3, <4>5
    <3>5. CASE ReadResid
      BY <3>1, <3>2, <3>5 DEF ReadResid, SetResid, Throws, LinksOK
    <3>6. CASE ReadSome
      <4>1. pc = "read" /\ Followed(job.f)
        BY <3>1, <3>6 DEF ReadSome, LinksOK
      <4>2. io' = Count(Chunk) \/ pc' = "thrown"
        BY <3>6 DEF ReadSome, Throws
      <4>3. Count(Chunk).ops > 0
        BY ChunkType, CountType DEF IndInv
      <4> QED BY <3>2, <4>1, <4>2, <4>3
    <3>7. CASE FileChanges
      BY <3>1, <3>2, <3>7 DEF FileChanges, LinksOK
    <3> QED BY <2>2, <3>4, <3>5, <3>6, <3>7
  <2>3. CASE WriteResid \/ Resize \/ FsyncInode \/ WriteSome \/ FlushStream \/ CloseStream
    <3>1. ~Reads
      BY <2>3, JobType DEF IndInv, WriteResid, Resize, FsyncInode, WriteSome,
         FlushStream, CloseStream, Reads, ReadPc, Ended
    <3> QED BY <2>3, <3>1, WriteJobKept DEF IndInv
  <2> QED BY <2>1, <2>2, <2>3 DEF Next, Step, Stopped
<1>3. LinksOK => FollowsTarget
  BY DEF LinksOK, FollowsTarget, WasRead, Followed
<1> QED BY <1>1, <1>2, <1>3, Invariance, PTL DEF Spec
=============================================================================
