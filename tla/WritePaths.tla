----------------------------- MODULE WritePaths -----------------------------
(***************************************************************************)
(* The write paths: what writer threads create in the user's directories   *)
(* (write_entry, write_file, create_inode), how dispatch_worker unlinks it *)
(* at the end of every set (cleanup_write_paths, unlink_write_paths), and  *)
(* how a later --clean_write_paths finds what is left (collect_write_paths *)
(* and the end of main).                                                   *)
(*                                                                         *)
(* A path is a sequence of names.  A name is <<"user", i, 0, 0>> or the    *)
(* name of a write path, <<base, gid, timestamp, counter>>.  An inode is   *)
(* known by the path it was created at; a symlink by its target, which is  *)
(* never a symlink because write_entry skips symlinks.                     *)
(***************************************************************************)
EXTENDS Integers, Sequences, FiniteSets, SequencesExt

CONSTANTS
  NumWriter,      \* opt::num_writer
  NumSet,         \* opt::num_set
  NumWritePaths,  \* opt::num_write_paths
  Input,          \* the <path> arguments after remove_dup_string
  Tree,           \* the files before the program runs
  Base,           \* opt::write_paths_base
  LongerBases,    \* other base names, which begin with this one
  Types,          \* opt::write_paths_type
  Walk,           \* opt::path_iter is walk
  Keep,           \* opt::keep_write_paths
  Sync,           \* opt::fsync_write_paths or opt::dirsync_write_paths
  Faults,         \* how a file operation may fail: "error", "throw"
  Interferes,     \* another process unlinks write paths at the same time
  Crashes,        \* the process may be killed
  MaxTick         \* bound: seconds that pass

Writer == 0 .. NumWriter - 1

Name == STRING \X Int \X Int \X Int
Path == Seq(Name)
Node == [kind : {"dir", "reg", "symlink", "other"}, of : Path]

\* What leads to a path are directories.
IsTree(tree) ==
  \A p \in DOMAIN tree : \A k \in 1 .. Len(p) - 1 :
    LET d == SubSeq(p, 1, k) IN d \in DOMAIN tree /\ tree[d].kind = "dir"

ASSUME WritePathsAssumption ==
  /\ NumWriter \in Nat /\ NumSet \in Nat \ {0} /\ NumWritePaths \in Nat \ {0}
  /\ Base \in STRING /\ LongerBases \subseteq STRING
  /\ DOMAIN Tree \subseteq Path \ {<<>>} /\ IsFiniteSet(DOMAIN Tree)
  /\ Tree \in [DOMAIN Tree -> Node] /\ IsTree(Tree)
  /\ Input \in Seq(DOMAIN Tree) /\ Input # <<>>
  /\ \A n \in DOMAIN Input : Tree[Input[n]].kind = "dir"
  /\ Types # {} /\ Types \subseteq {"dir", "reg", "symlink", "link"}
  /\ {Walk, Keep, Sync, Interferes, Crashes} \subseteq BOOLEAN
  /\ Faults \subseteq {"error", "throw"}
  /\ MaxTick \in Nat

VARIABLES
  fs,    \* path -> [kind, of]: the directory tree
  data,  \* the user's inodes whose data was truncated or written
  w,     \* [Writer -> record], the locals and the ThreadDir of a writer
  main,  \* where the process is
  mode,  \* "dispatch", or "clean" in the later process
  u,     \* unlink_write_paths: the list l (a set of entries), n, pc
  fl,    \* the entries scanned at the start of the set
  set,   \* the set that runs
  ts,    \* _write_paths_ts of the set's Dir
  now,   \* the clock, in seconds
  hist   \* history: paths created by this set, paths created in vain

vars == <<fs, data, w, main, mode, u, fl, set, ts, now, hist>>
procVars == <<main, mode, u, fl, set, ts, now>>
worldVars == <<fs, data, w, fl, set, ts, now, hist>>

-----------------------------------------------------------------------------
(* The tree.                                                               *)

Exists(p) == p \in DOMAIN fs
Below(d) == {p \in DOMAIN fs : IsStrictPrefix(d, p)}
Kind(p) == fs[p].kind

\* What open and stat find at p.
Resolve(p) == IF Kind(p) = "symlink" THEN fs[p].of ELSE p
IsDirAt(p) == Exists(Resolve(p)) /\ Kind(Resolve(p)) = "dir"

\* The user's inode, if p leads to one.
UserData(p) == {fs[Resolve(p)].of} \cap DOMAIN Tree

Without(p) == [q \in DOMAIN fs \ {p} |-> fs[q]]
With(p, node) == [q \in DOMAIN fs \cup {p} |-> IF q = p THEN node ELSE fs[q]]

\* The base name of p begins with ours.
IsWritePath(p) == Last(p)[1] \in {Base} \cup LongerBases

IsBelowInput(p) == \E n \in DOMAIN Input : IsStrictPrefix(Input[n], p)

\* init_flist: the regular files and symlinks below a path.
Scan == {p \in DOMAIN fs : Kind(p) \in {"reg", "symlink"} /\ IsBelowInput(p)}

-----------------------------------------------------------------------------
(* A writer thread.                                                        *)

NewWriter == [pc |-> "idle", n |-> 0, f |-> <<>>, newf |-> <<>>, type |-> "dir",
              mine |-> <<>>]

InputOf(t) == Input[(t % Len(Input)) + 1]

Entries(t) == IF Walk THEN Below(InputOf(t)) ELSE fl \cap Below(InputOf(t))

\* Mutation: the counter in the name is not advanced.
NextCounterStuck(n) == n

NextCounter(n) == n + 1

\* write_entry and the first half of write_file: any entry of the pass that is
\* a directory or a regular file; the name is used up whatever happens next.
Pick(t) ==
  /\ w[t].pc = "idle" /\ Len(w[t].mine) < NumWritePaths
  /\ \E f \in Entries(t) :
       /\ Kind(f) \in {"dir", "reg"}
       /\ w' = [w EXCEPT
            ![t].pc = "create", ![t].f = f, ![t].n = NextCounter(@),
            ![t].newf = Append(IF Kind(f) = "dir" THEN f ELSE Front(f),
                               <<Base, t, ts, w[t].n>>)]
  /\ UNCHANGED <<fs, data, hist, procVars>>

\* The thread returns an error or an exception ends it.
Fail(t) == w' = [w EXCEPT ![t].pc = "exited"]

\* A hard link is made to regular files only, a directory otherwise.
MadeType(t, ty) ==
  IF ty = "link" /\ Kind(w[t].f) # "reg" THEN "dir" ELSE ty

\* The new inode at newf; a hard link shares the inode of f.
NewNode(t, ty) ==
  CASE ty = "link"    -> fs[w[t].f]
    [] ty = "symlink" -> [kind |-> "symlink", of |-> w[t].f]
    [] OTHER          -> [kind |-> ty, of |-> w[t].newf]

Created(t, ty) ==
  w' = [w EXCEPT ![t].pc = IF Sync THEN "sync" ELSE "register", ![t].type = ty]

\* create_inode when newf is free.
CreateNew(t, ty) ==
  /\ ~Exists(w[t].newf)
  /\ fs' = With(w[t].newf, NewNode(t, MadeType(t, ty)))
  /\ hist' = [hist EXCEPT !.made = @ \cup {w[t].newf}]
  /\ Created(t, ty)
  /\ UNCHANGED data

\* create_inode when newf exists: create_directory reports no error for a
\* directory, opening a file for output truncates what it leads to, and
\* everything else fails.
CreateOver(t, ty) ==
  /\ Exists(w[t].newf)
  /\ LET made == MadeType(t, ty)
         dir  == IsDirAt(w[t].newf)
     IN  IF made = "dir" /\ dir
         THEN Created(t, ty) /\ UNCHANGED data
         ELSE IF made = "reg" /\ ~dir
         THEN Created(t, ty) /\ data' = data \cup UserData(w[t].newf)
         ELSE Fail(t) /\ UNCHANGED data
  /\ UNCHANGED <<fs, hist>>

\* The system call fails: an error code for a directory, an exception otherwise.
CreateFault(t, ty) ==
  /\ (IF MadeType(t, ty) = "dir" THEN "error" ELSE "throw") \in Faults
  /\ Fail(t)
  /\ UNCHANGED <<fs, data, hist>>

Create(t) ==
  /\ w[t].pc = "create"
  /\ \E ty \in Types : CreateNew(t, ty) \/ CreateOver(t, ty) \/ CreateFault(t, ty)
  /\ UNCHANGED procVars

\* fsync of the new inode or of its directory.  On an error the path is not
\* registered, and stays.
SyncPath(t) ==
  /\ w[t].pc = "sync"
  /\ \/ w' = [w EXCEPT ![t].pc = "register"] /\ UNCHANGED hist
     \/ /\ "error" \in Faults
        /\ Fail(t)
        /\ hist' = [hist EXCEPT !.leaked = @ \cup {w[t].newf}]
  /\ UNCHANGED <<fs, data, procVars>>

\* Mutation: data is written through hard links, too.
AfterRegisterLinks(ty) == IF ty \in {"reg", "link"} THEN "data" ELSE "idle"

AfterRegister(ty) == IF ty = "reg" THEN "data" ELSE "idle"

\* Mutation: the path is registered again after its data was written.
RegisteredTwice(s, p) == s \o <<p, p>>

\* Mutation: only the last path is kept.
RegisteredLast(s, p) == <<p>>

Registered(s, p) == Append(s, p)

Register(t) ==
  /\ w[t].pc = "register"
  /\ w' = [w EXCEPT ![t].pc = AfterRegister(w[t].type),
                    ![t].mine = Registered(@, w[t].newf)]
  /\ UNCHANGED <<fs, data, hist, procVars>>

\* The second half of write_file: resize_file or the write loop, if any data is
\* to be written; both may throw.
WriteData(t) ==
  /\ w[t].pc = "data"
  /\ \/ w' = [w EXCEPT ![t].pc = "idle"]
     \/ "throw" \in Faults /\ Fail(t)
  /\ data' \in {data, data \cup UserData(w[t].newf)}
  /\ UNCHANGED <<fs, hist, procVars>>

\* All paths created, all passes made, time over or SIGINT (see Worker).
Leave(t) ==
  /\ w[t].pc = "idle"
  /\ w' = [w EXCEPT ![t].pc = "exited"]
  /\ UNCHANGED <<fs, data, hist, procVars>>

WriterStep(t) ==
  \/ Pick(t) \/ Create(t) \/ SyncPath(t) \/ Register(t) \/ WriteData(t) \/ Leave(t)

-----------------------------------------------------------------------------
(* unlink_write_paths.  An entry of the list begins with its path; the     *)
(* rest tells entries with the same path apart.                            *)

StartUnlink(l) == [l |-> l, n |-> Cardinality(l), pc |-> "type"]

\* Mutation: the list is not sorted.
BackUnsorted(l) == CHOOSE e \in l : \A g \in l : ~IsStrictPrefix(g[1], e[1])

\* The back of the sorted list: a string that others extend sorts before them.
Back(l) == CHOOSE e \in l : \A g \in l : ~IsStrictPrefix(e[1], g[1])

File == Back(u.l)[1]

\* What becomes of the process when unlink_write_paths returns: a set ignores
\* the return value, --clean_write_paths exits by it and by what remains in l.
Returned(ret, l) ==
  IF mode = "dispatch" THEN "report"
  ELSE IF ret = "ok" /\ l = {} THEN "cleaned" ELSE "failed"

\* An exception is caught around a set only.
Thrown == IF mode = "dispatch" THEN "failed" ELSE "abort"

Goto(pc) == u' = [u EXCEPT !.pc = pc] /\ UNCHANGED main

\* Mutation: a path that is gone is skipped without being dropped.
GoneSkipped == Goto("type")

\* A path that is gone, and a device, has no type to unlink; the rest of the list
\* is given up.
Gone == main' = Returned("einval", u.l) /\ UNCHANGED u

TestType ==
  /\ u.pc = "type"
  /\ IF u.n = 0 THEN main' = Returned("ok", u.l) /\ UNCHANGED u
     ELSE IF ~Exists(File) \/ Kind(File) = "other" THEN Gone
     ELSE Goto(IF Kind(File) = "symlink" THEN "exists" ELSE "assert")
  /\ UNCHANGED fs

AssertExists ==
  /\ u.pc = "assert"
  /\ IF Exists(File) THEN Goto("exists") ELSE main' = "abort" /\ UNCHANGED u
  /\ UNCHANGED fs

TestExists ==
  /\ u.pc = "exists"
  /\ Goto(IF Exists(File) THEN "remove" ELSE "type")
  /\ UNCHANGED fs

\* Removing nothing still counts, and leaves the path in the list.
RemovePath ==
  /\ u.pc = "remove"
  /\ \/ /\ Exists(File) /\ Below(File) = {}
        /\ fs' = Without(File)
        /\ u' = [l |-> u.l \ {Back(u.l)}, n |-> u.n - 1, pc |-> "type"]
        /\ UNCHANGED main
     \/ /\ ~Exists(File)
        /\ u' = [u EXCEPT !.n = @ - 1, !.pc = "type"]
        /\ UNCHANGED <<fs, main>>
     \/ /\ Exists(File)
        /\ Below(File) # {} \/ "throw" \in Faults
        /\ main' = Thrown
        /\ UNCHANGED <<fs, u>>

UnlinkStep ==
  /\ main = "unlink"
  /\ TestType \/ AssertExists \/ TestExists \/ RemovePath
  /\ UNCHANGED <<mode, data, w, fl, set, ts, now, hist>>

-----------------------------------------------------------------------------
(* The sets of a run, and --clean_write_paths in a later one.              *)

Init ==
  /\ fs = Tree /\ data = {} /\ fl = Scan
  /\ w = [t \in Writer |-> NewWriter]
  /\ main = "run" /\ mode = "dispatch" /\ u = StartUnlink({})
  /\ set = 0 /\ now = 0 /\ ts = 0
  /\ hist = [made |-> {}, leaked |-> {}]

\* cleanup_write_paths splices the lists of the writers.
Spliced ==
  UNION {{<<w[t].mine[i], t, i>> : i \in DOMAIN w[t].mine} : t \in Writer}

\* The writers are joined.
JoinWriters ==
  /\ main = "run" /\ \A t \in Writer : w[t].pc = "exited"
  /\ u' = StartUnlink(Spliced)
  /\ main' = IF Keep THEN "report" ELSE "unlink"
  /\ UNCHANGED <<mode, worldVars>>

\* A new set has a new Dir, with the time of now, and new ThreadDirs.
StartSet ==
  /\ main = "report" /\ set + 1 < NumSet
  /\ main' = "run" /\ set' = set + 1 /\ ts' = now /\ fl' = Scan
  /\ w' = [t \in Writer |-> NewWriter]
  /\ u' = StartUnlink({})
  /\ hist' = [hist EXCEPT !.made = {}]
  /\ UNCHANGED <<fs, data, mode, now>>

\* The last set, or one with an interrupted worker.
Finish ==
  /\ main = "report"
  /\ main' = "done"
  /\ UNCHANGED <<mode, u, worldVars>>

Crash ==
  /\ Crashes /\ mode = "dispatch" /\ main \in {"run", "unlink", "report"}
  /\ main' = "crashed"
  /\ UNCHANGED <<mode, u, worldVars>>

\* Mutation: only regular files are looked for.
IsCleanableReg(p) == Kind(p) = "reg" /\ IsWritePath(p)

IsCleanable(p) == Kind(p) \in {"dir", "reg", "symlink"} /\ IsWritePath(p)

\* collect_write_paths: once for every input that the path is below.
Collected ==
  UNION {{<<p, n>> : p \in {q \in Below(Input[n]) : IsCleanable(q)}} : n \in DOMAIN Input}

\* The user runs the program again, to clean.
CleanWritePaths ==
  /\ mode = "dispatch" /\ main \in {"done", "failed", "crashed"}
  /\ mode' = "clean"
  /\ u' = StartUnlink(Collected)
  /\ main' \in {"unlink"} \cup (IF "throw" \in Faults THEN {"abort"} ELSE {})
  /\ UNCHANGED worldVars

MainStep == JoinWriters \/ UnlinkStep \/ StartSet \/ Finish

-----------------------------------------------------------------------------
(* The environment.                                                        *)

Interfere ==
  /\ Interferes /\ main = "unlink"
  /\ \E p \in DOMAIN fs :
       IsWritePath(p) /\ Below(p) = {} /\ fs' = Without(p)
  /\ UNCHANGED <<data, w, hist, procVars>>

Tick ==
  /\ now < MaxTick /\ now' = now + 1
  /\ UNCHANGED <<fs, data, w, main, mode, u, fl, set, ts, hist>>

Ended == {"done", "failed", "crashed", "abort", "cleaned"}

Stopped == main \in Ended /\ UNCHANGED vars

Next ==
  \/ \E t \in Writer : main = "run" /\ WriterStep(t)
  \/ MainStep
  \/ Crash \/ CleanWritePaths \/ Interfere \/ Tick \/ Stopped

Spec == Init /\ [][Next]_vars

\* The kernel schedules the main thread.
FairSpec == Spec /\ WF_vars(MainStep)

-----------------------------------------------------------------------------
(* The writers seen as a set of writers.                                   *)

Phase == CASE mode = "dispatch" /\ main \in {"run", "unlink"} -> "run"
           [] mode = "dispatch" /\ main = "report" -> "over"
           [] OTHER -> "ended"

S == INSTANCE WriteSet WITH
       Limit <- NumWritePaths, num <- [t \in Writer |-> Len(w[t].mine)],
       left <- {t \in Writer : w[t].pc = "exited"}, phase <- Phase

\* Creating, syncing, writing and unlinking over one tree amounts to a WriteSet:
\* every path is registered once, by a writer that runs, within its limit, and
\* the lists of a set are empty when it begins.
WriteSetSpec == S!Spec

-----------------------------------------------------------------------------
(* Properties.                                                             *)

\* What leads to a path are directories, the lists hold no more paths than
\* allowed, and n never exceeds the list it counts (it indexes l from the back).
TypeOK ==
  /\ IsTree(fs)
  /\ data \subseteq DOMAIN Tree
  /\ \A t \in Writer : /\ w[t].n \in 0 .. NumWritePaths
                       /\ Len(w[t].mine) <= w[t].n
  /\ u.n \in 0 .. Cardinality(u.l)
  /\ u.pc \in {"type", "assert", "exists", "remove"}
  /\ mode \in {"dispatch", "clean"}
  /\ main \in {"run", "unlink", "report"} \cup Ended
  /\ set \in 0 .. NumSet - 1 /\ now \in 0 .. MaxTick /\ ts \in 0 .. now

\* What is in the tree and was not there before.
Left == DOMAIN fs \ DOMAIN Tree

\* When a set reports, all paths that it has created are gone, except for those
\* whose fsync failed and those that the report counts as remaining (num_remain),
\* wherever its writers failed and whatever disappeared under its hands.
SetCleansUp ==
  main = "report" =>
    hist.made \cap DOMAIN fs \subseteq hist.leaked \cup {e[1] : e \in u.l}

\* Children are unlinked before their directory: unlinking fails, and main gives
\* up, only because of a path that was never registered.
UnlinkFailsOnLeak == mode = "dispatch" /\ main = "failed" => hist.leaked # {}

\* The user's files are what they were, and so is their data, but for the write
\* paths of earlier runs that are cleaned away.
UserTreeKept ==
  /\ data = {}
  /\ \A p \in DOMAIN Tree :
       (Exists(p) /\ fs[p] = Tree[p]) \/ (mode = "clean" /\ IsWritePath(p))

\* A registered path is one that this set has created.
RegisteredAreNew ==
  \A t \in Writer : main = "run" => ToSet(w[t].mine) \subseteq hist.made

\* --clean_write_paths succeeds and leaves the tree as it was before the first
\* run, wherever that run ended, failed or was killed, less the write paths that
\* were there already, those of a base name that begins with ours included.
\* Devices are not collected.
CleanRecovers ==
  mode = "clean" /\ main # "unlink" =>
    /\ main = "cleaned"
    /\ fs = Restrict(Tree, {p \in DOMAIN Tree :
             ~(IsWritePath(p) /\ IsBelowInput(p) /\ Tree[p].kind # "other")})

\* unlink_write_paths returns, also when paths disappear under its hands.
UnlinkEnds == main = "unlink" ~> main # "unlink"
=============================================================================
