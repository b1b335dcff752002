------------------------------- MODULE FileIO -------------------------------
(***************************************************************************)
(* One file operation of a worker: read_entry with read_file, and the part *)
(* of write_file after the new regular file was registered (WritePaths has *)
(* the part before).  Data are byte counts.                                *)
(*                                                                         *)
(* The file streams are modelled from their use: readsome returns what the *)
(* file holds, up to n; an output stream keeps bytes back until it is      *)
(* flushed or closed, and closing in the destructor reports no error.      *)
(***************************************************************************)
EXTENDS Integers, Sequences, SequencesExt

CONSTANTS
  Tree,        \* path -> [kind, to, abs]: what is there; to, abs for symlinks
  DotPaths,    \* the paths for which is_dot_path holds
  BufSizes,    \* values of opt::read_buffer_size, opt::write_buffer_size
  Sizes,       \* values of opt::read_size, opt::write_size
  MaxBuf,      \* MAX_BUFFER_SIZE
  MaxSize,     \* bound: size of the file to read
  MaxOps,      \* bound: reads or writes after which num_* stops growing
  Faults       \* how a file operation may fail: "error", "throw"

ASSUME FileIOAssumption ==
  /\ BufSizes \subseteq 0 .. MaxBuf
  /\ Sizes \subseteq -1 .. MaxBuf
  /\ DotPaths \subseteq DOMAIN Tree
  /\ \A p \in DOMAIN Tree : Tree[p].kind \in {"dir", "reg", "symlink", "device"}
  /\ MaxBuf \in Nat /\ MaxSize \in Nat /\ MaxOps \in Nat \ {0}
  /\ Faults \subseteq {"error", "throw"}

VARIABLES
  job,    \* the operation with the options that it looks at
  pc,     \* where the worker is
  resid,  \* the local of read_file and write_file
  io,     \* num_stat, num_(read|write), num_(read|write)_bytes
  file,   \* size in the file system, bytes held back, fsync after the last change
  want    \* history: resid at the start

vars == <<job, pc, resid, io, file, want>>

Lesser(a, b) == IF a < b THEN a ELSE b

Count(n) == [io EXCEPT !.ops = Lesser(@ + 1, MaxOps), !.bytes = @ + n]

-----------------------------------------------------------------------------
(* Paths.                                                                  *)

\* symlink_status of p, and status of p.
RawType(p) == IF p \in DOMAIN Tree THEN Tree[p].kind ELSE "unsupported"
Target(p) == IF Tree[p].abs THEN Tree[p].to ELSE Front(p) \o Tree[p].to
FileType(p) == IF RawType(p) = "symlink" THEN RawType(Target(p)) ELSE RawType(p)

\* weakly_canonical: a symlink that leads somewhere is replaced by its target.
Canonical(p) ==
  IF RawType(p) = "symlink" /\ FileType(p) # "unsupported" THEN Target(p) ELSE p

DirPath(p) == Front(Canonical(p))

\* Mutation: a relative target is taken to be relative to the link itself.
ReadTargetBelow(f) == IF Tree[f].abs THEN Tree[f].to ELSE f \o Tree[f].to

\* What read_entry takes for the target of the symlink f.
ReadTarget(f) == IF Tree[f].abs THEN Tree[f].to ELSE DirPath(f) \o Tree[f].to

-----------------------------------------------------------------------------
(* Reading.                                                                *)

Ignored(f) == job.ignore_dot /\ RawType(f) # "dir" /\ f \in DotPaths

Done(stats) ==
  pc' = "done" /\ io' = [io EXCEPT !.stat = stats] /\ UNCHANGED <<job, resid, file, want>>

\* read_entry up to the call of read_file.
FindEntry ==
  LET link == RawType(job.f) = "symlink"
      t    == IF link THEN FileType(ReadTarget(job.f)) ELSE RawType(job.f)
  IN  IF Ignored(job.f) \/ job.stat_only THEN Done(1)
      ELSE IF link /\ ~job.follow THEN Done(2)
      ELSE IF t # "reg" THEN Done(IF link THEN 2 ELSE 1)
      ELSE /\ pc' = "resid"
           /\ io' = [io EXCEPT !.stat = IF link THEN 2 ELSE 1]
           /\ UNCHANGED <<job, resid, file, want>>

Throws == "throw" \in Faults /\ pc' = "thrown"

\* A look at the path, at what the link holds or at where it leads throws; only
\* the first comes before the count.
FindThrows ==
  /\ Throws
  /\ \/ UNCHANGED io
     \/ /\ RawType(job.f) = "symlink" /\ ~Ignored(job.f) /\ ~job.stat_only
        /\ io' = [io EXCEPT !.stat = 1]
  /\ UNCHANGED <<job, resid, file, want>>

ReadEntry == pc = "start" /\ job.op = "read" /\ (FindEntry \/ FindThrows)

\* get_random<long>(0, bufsiz) + 1; get_random asserts that bufsiz > 0.
RandomSizes(buf) == 1 .. buf

\* resid is the option, or random if the option is 0.
SetResid(next) ==
  IF job.size = 0 /\ job.buf = 0
  THEN pc' = "abort" /\ UNCHANGED <<resid, want>>
  ELSE /\ resid' \in IF job.size = 0 THEN RandomSizes(job.buf) ELSE {job.size}
       /\ want' = resid'
       /\ pc' = next

\* Opening the file may throw.
ReadResid ==
  /\ pc = "resid"
  /\ SetResid("read") \/ (Throws /\ UNCHANGED <<resid, want>>)
  /\ UNCHANGED <<job, io, file>>

\* Mutation: the read size is not cut to what is left to read.
ReadLenUncut == job.buf

ReadLen == IF resid > 0 THEN Lesser(job.buf, resid) ELSE job.buf

\* Mutation: one byte too few is read.
ReadEndsShort(siz) == siz = 0 \/ (resid > 0 /\ resid - siz <= 1)

\* Mutation: the end of the file is not noticed.
ReadEndsResid(siz) == resid > 0 /\ resid - siz <= 0

ReadEnds(siz) == siz = 0 \/ (resid > 0 /\ resid - siz <= 0)

\* What readsome takes.  The file may have shrunk below the position.
Chunk ==
  Lesser(ReadLen, IF file.size > io.bytes THEN file.size - io.bytes ELSE 0)

\* One round of the loop.  A stream that goes bad throws before anything is counted.
ReadSome ==
  /\ pc = "read"
  /\ \/ /\ io' = Count(Chunk)
        /\ resid' = IF resid > 0 THEN resid - Chunk ELSE resid
        /\ pc' = IF ReadEnds(Chunk) THEN "done" ELSE "read"
     \/ Throws /\ UNCHANGED <<io, resid>>
  /\ UNCHANGED <<job, file, want>>

\* Another process or a writer thread changes the size of the file.
FileChanges ==
  /\ pc = "read"
  /\ file' \in [size : 0 .. MaxSize, held : {0}, synced : {FALSE}]
  /\ UNCHANGED <<job, pc, resid, io, want>>

-----------------------------------------------------------------------------
(* Writing.                                                                *)

\* No data at all, resize_file, or the write loop.
WriteResid ==
  /\ pc = "start" /\ job.op = "write"
  /\ IF job.size < 0
     THEN pc' = "done" /\ io' = Count(0) /\ UNCHANGED <<resid, want>>
     ELSE SetResid(IF job.truncate THEN "resize" ELSE "write") /\ UNCHANGED io
  /\ UNCHANGED <<job, file>>

\* Mutation: the function returns before the fsync.
ResizeOnly ==
  /\ pc = "resize" /\ pc' = "done"
  /\ file' = [file EXCEPT !.size = resid, !.synced = FALSE]
  /\ io' = Count(0)
  /\ UNCHANGED <<job, resid, want>>

Resize ==
  /\ pc = "resize"
  /\ \/ /\ file' = [file EXCEPT !.size = resid, !.synced = FALSE]
        /\ io' = Count(0)
        /\ pc' = IF job.fsync THEN "fsync" ELSE "done"
     \/ Throws /\ UNCHANGED <<file, io>>
  /\ UNCHANGED <<job, resid, want>>

\* fsync_inode on the path; an error is returned.
FsyncInode ==
  /\ pc = "fsync"
  /\ \/ pc' = "done" /\ file' = [file EXCEPT !.synced = TRUE]
     \/ "error" \in Faults /\ pc' = "error" /\ UNCHANGED file
  /\ UNCHANGED <<job, resid, io, want>>

\* Mutation: the offset is drawn from both halves of the random data.
OffsetsTwice == 0 .. 2 * job.buf - 1

\* get_random<int>(0, bufsiz).
Offsets == 0 .. job.buf - 1

\* Mutation: the last chunk is written in full.
WriteLenUncut == job.buf

WriteLen == Lesser(job.buf, resid)

\* The stream has taken n more bytes and keeps some back.
StreamWrite(n) ==
  \E h \in 0 .. file.held + n :
    file' = [size |-> file.size + file.held + n - h, held |-> h, synced |-> FALSE]

\* One round of the loop; with random data a piece of the random buffer, which
\* is twice MAX_BUFFER_SIZE long, is copied first.
WriteSome ==
  /\ pc = "write"
  /\ IF job.random /\ Offsets = {}  \* get_random asserts
     THEN pc' = "abort" /\ UNCHANGED <<job, resid, io, file>>
     ELSE /\ \E i \in IF job.random THEN Offsets ELSE {job.offset} :
               job' = [job EXCEPT !.offset = i]
          /\ \/ /\ StreamWrite(WriteLen)
                /\ io' = Count(WriteLen)
                /\ resid' = resid - WriteLen
                /\ pc' = IF resid' <= 0 THEN "flush" ELSE "write"
             \/ Throws /\ UNCHANGED <<resid, io, file>>
  /\ UNCHANGED want

\* flush, which throws on an error; it is no fsync.
Flushed == file' = [file EXCEPT !.size = @ + file.held, !.held = 0]

\* Mutation: the stream is not flushed.
FlushForgotten ==
  /\ pc = "flush" /\ pc' = "close"
  /\ UNCHANGED <<job, resid, io, file, want>>

FlushStream ==
  /\ pc = "flush"
  /\ \/ /\ pc' = "close"
        /\ IF job.fsync THEN Flushed ELSE UNCHANGED file
     \/ job.fsync /\ Throws /\ UNCHANGED file
  /\ UNCHANGED <<job, resid, io, want>>

\* The destructor of the stream writes the rest, or loses it without a word.
CloseStream ==
  /\ pc = "close"
  /\ pc' = "done"
  /\ \/ Flushed
     \/ Faults # {} /\ file' = [file EXCEPT !.held = 0]
  /\ UNCHANGED <<job, resid, io, want>>

-----------------------------------------------------------------------------
Jobs ==
  [op : {"read"}, f : DOMAIN Tree, buf : BufSizes, size : Sizes,
   stat_only : BOOLEAN, ignore_dot : BOOLEAN, follow : BOOLEAN]
  \cup [op : {"write"}, buf : BufSizes, size : Sizes, truncate : BOOLEAN,
        fsync : BOOLEAN, random : BOOLEAN, offset : {0}]

Init ==
  /\ job \in Jobs
  /\ pc = "start" /\ resid = 0 /\ want = 0
  /\ io = [stat |-> 0, ops |-> 0, bytes |-> 0]
  /\ file \in [size : IF job.op = "read" THEN 0 .. MaxSize ELSE {0},
               held : {0}, synced : {FALSE}]

Ended == {"done", "error", "thrown", "abort"}

Stopped == pc \in Ended /\ UNCHANGED vars

Step ==
  \/ ReadEntry \/ ReadResid \/ ReadSome
  \/ WriteResid \/ Resize \/ FsyncInode \/ WriteSome \/ FlushStream \/ CloseStream

Next == Step \/ FileChanges \/ Stopped

Spec == Init /\ [][Next]_vars

\* The worker is scheduled; no exception has to come.
FairSpec == Spec /\ WF_vars(Step /\ pc' # "thrown")

-----------------------------------------------------------------------------
(* Properties.                                                             *)

Reads == job.op = "read"
WasRead == Reads /\ io.ops > 0

\* A read stops only when it has what it wants or nothing is left in the file,
\* however the file changes in the meantime.
ReadsEnough ==
  [][job.buf > 0 /\ pc = "read" /\ pc' = "done" =>
       (want > 0 /\ io'.bytes = want) \/ io'.bytes >= file.size]_vars

\* A read never takes more than it wants: resid does not jump over 0, which the
\* code asserts in debug mode.
ReadsNoMore == WasRead /\ want > 0 => io.bytes <= want /\ resid = want - io.bytes

\* A write that returns has counted exactly the bytes that it wanted to write.
WritesExactly ==
  ~Reads /\ pc = "done" /\ job.size >= 0 /\ ~job.truncate => io.bytes = want

\* With the fsync option no byte that was counted is lost unnoticed: the flush
\* throws, the destructor has nothing left to lose.
FsyncLosesNothing ==
  ~Reads /\ job.fsync /\ ~job.truncate /\ pc = "done" => file.size = io.bytes

\* A file that was made by truncating is durable in its full size when a write
\* with the fsync option returns.  (After the write loop it need not be.)
FsyncIsDurable ==
  ~Reads /\ job.fsync /\ job.truncate /\ job.size >= 0 /\ pc = "done" =>
    file.synced /\ file.size = want

\* The copy of random data stays inside the random buffer.
CopyInBounds == ~Reads /\ job.random => job.offset + job.buf <= 2 * MaxBuf

\* Followed links are read if and only if they lead to a regular file.
FollowsTarget ==
  Reads /\ pc = "done" /\ RawType(job.f) = "symlink" =>
    (WasRead <=> /\ FileType(job.f) = "reg" /\ job.follow
                 /\ ~job.stat_only /\ ~Ignored(job.f))

\* Every operation with a buffer ends.
Ends == job.buf > 0 ~> pc \in Ended
=============================================================================
