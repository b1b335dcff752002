-------------------------------- MODULE Main --------------------------------
(***************************************************************************)
(* main from getopt to the call of dispatch_worker, and to the end in the  *)
(* modes that dispatch no worker, for runs of the program that follow each *)
(* other: a flist file that one of them creates is loaded by a later one.  *)
(*                                                                         *)
(* What the workers do is in Dispatch, what --clean_write_paths does is in *)
(* WritePaths.                                                             *)
(***************************************************************************)
EXTENDS Options, Flist

CONSTANTS
  Tree,      \* the directories, without the flist file
  Given,     \* kind of run -> the options that its user chooses from
  Plans,     \* sequences of kinds of run
  MaxOpts,   \* bound: options of one run
  FlistPath, \* the path of the flist file
  Cwd,       \* the current directory
  RawArgs,   \* kind of run -> its arguments, [relative, path, slash]: from the root
             \* or from Cwd, with a slash at the end or without
  MaxArgs,   \* bound: arguments of one run
  FlistKind, \* what is there at first: "none", "reg", "symlink" to nothing
  Faults     \* how a file operation may fail: "error", "throw", "gone"

IsLink(p) == p \in DOMAIN Tree /\ Tree[p].kind = "symlink"

\* A path that leads through no symlink.
Canonical(p) == \A k \in 1 .. Len(p) : p[k] \notin {".", ".."} /\ ~IsLink(SubSeq(p, 1, k))

ASSUME MainAssumption ==
  /\ DOMAIN Tree \subseteq Seq(STRING)
  /\ \A p \in DOMAIN Tree :
       /\ Tree[p].kind \in {"dir", "reg", "symlink"}
       /\ IsLink(p) => Tree[p].of \in Seq(STRING) /\ Canonical(Tree[p].of)
  /\ Cwd \in Seq(STRING) /\ Canonical(Cwd)
  /\ DOMAIN RawArgs = DOMAIN Given
  /\ \A kind \in DOMAIN Given :
       RawArgs[kind] \subseteq [relative : BOOLEAN, path : Seq(STRING), slash : BOOLEAN]
  /\ \A kind \in DOMAIN Given : \A o \in Given[kind] :
       o.arg \in [num : BOOLEAN, n : Int, s : Seq(STRING)]
  /\ Plans \subseteq Seq(DOMAIN Given) \ {<<>>}
  /\ MaxOpts \in Nat /\ MaxArgs \in Nat
  /\ FlistKind \subseteq {"none", "reg", "symlink"}
  /\ Faults \subseteq {"error", "throw", "gone"}

VARIABLES
  plan,   \* the kinds of this run and the later ones
  pc,     \* where main is
  n,      \* number of options so far
  opt,    \* namespace opt
  input,  \* the paths that get_abspath makes of the arguments
  fls,    \* the lists that go to the workers
  todo,   \* the lines that are not yet written to the flist file
  file,   \* the flist file: its kind, its lines
  args,   \* history: the arguments themselves
  made    \* history: for which input and ignore_dot the flist file was completed

vars == <<plan, pc, n, opt, input, args, fls, todo, file, made>>
procVars == <<plan, n, opt, input, args>>

NotMade == [input |-> <<>>, ignore_dot |-> FALSE]
Ended == {"exit0", "exit1", "abort", "killed"}

Init ==
  /\ plan \in Plans
  /\ pc = "getopt" /\ n = 0 /\ opt = Default
  /\ input = <<>> /\ args = <<>>
  /\ fls = <<>> /\ todo = {} /\ made = NotMade
  /\ file \in [kind : FlistKind, lines : {{}}]

Goto(where) == pc' = where /\ UNCHANGED <<procVars, fls, todo, file, made>>

\* An exception that nothing catches.
Throws(where) == pc = where /\ "throw" \in Faults /\ Goto("abort")

-----------------------------------------------------------------------------
(* Options and arguments.                                                  *)

GetOpt ==
  /\ pc = "getopt" /\ n < MaxOpts
  /\ \E o \in Given[Head(plan)] :
       IF Accepts(o.name, o.arg)
       THEN opt' = [opt EXCEPT ![o.name] = Value(o.name, o.arg)] /\ UNCHANGED pc
       ELSE pc' = (IF o.name = "x" THEN "exit0" ELSE "exit1") /\ UNCHANGED opt
  /\ n' = n + 1
  /\ UNCHANGED <<plan, input, args, fls, todo, file, made>>

GetOptEnds ==
  /\ pc = "getopt"
  /\ pc' = "args" /\ opt' = Adjusted(opt)
  /\ UNCHANGED <<plan, n, input, args, fls, todo, file, made>>

-----------------------------------------------------------------------------
(* The arguments: get_abspath, and what the file system makes of a path.   *)

Dir(d) == d = <<>> \/ IsDir(Tree, d)

Lexical(d, name) ==
  IF name = ".." THEN Front(d) ELSE IF name = "." THEN d ELSE Append(d, name)

Follow(d) == IF IsLink(d) THEN Tree[d].of ELSE d

\* From the root along p, a name at a time, following symlinks as far as the m-th name.
Way(p, m) ==
  LET at[k \in 0 .. Len(p)] ==
        IF k = 0 THEN <<>>
        ELSE LET d == Lexical(at[k - 1], p[k]) IN IF k <= m THEN Follow(d) ELSE d
  IN  at

\* Where the file system gets to along p, and whether all of p is there.
Resolve(p) == Way(p, Len(p))[Len(p)]

Found(p) ==
  LET at == Way(p, Len(p))
  IN  \A k \in 1 .. Len(p) : Dir(at[k - 1]) /\ (at[k] = <<>> \/ at[k] \in DOMAIN Tree)

\* The number of leading names that exist.
Existing(p) == Max({k \in 0 .. Len(p) : Found(SubSeq(p, 1, k))})

\* lexically_normal of a relative path: .. stays where there is no name to drop.
Normal(p) ==
  LET at[k \in 0 .. Len(p)] ==
        IF k = 0 THEN <<>>
        ELSE IF p[k] = ".." /\ (at[k - 1] = <<>> \/ Last(at[k - 1]) = "..")
        THEN Append(at[k - 1], "..")
        ELSE Lexical(at[k - 1], p[k])
  IN  IF at[Len(p)] = <<>> THEN <<".">> ELSE at[Len(p)]

Names(raw) == (IF raw.relative THEN Cwd ELSE <<>>) \o raw.path

\* Mutation: only the names of the path are looked at.
GetAbsPathLexical(raw) == Names(raw)

\* weakly_canonical: symlinks and .. are resolved in the leading names that exist, the
\* others are only names.  A path without any such name stays relative until the end.
GetAbsPath(raw) ==
  LET p == Names(raw)
  IN  IF raw.relative /\ Existing(p) <= Len(Cwd) THEN Cwd \o Normal(raw.path)
      ELSE Way(p, Existing(p))[Len(p)]

\* A slash at the end asks for a directory.
IsThere(raw) == Found(Names(raw)) /\ (raw.slash => Dir(Resolve(Names(raw))))

\* get_abspath has nothing to start from, or its result fails an assertion: it ends with
\* a slash, as the root does, and as the normal form of a path to nothing may.
Refused(raw) ==
  LET f == GetAbsPath(raw)
  IN  \/ raw.path = <<>> /\ raw.relative
      \/ f = <<>>
      \/ /\ ~IsThere(raw)
         /\ raw.slash \/ Last(raw.path) \in {".", ".."}
         /\ Last(f) \notin {".", ".."}

\* get_raw_file_type does not follow the last name.
IsDirectory(f) ==
  LET d == Resolve(Front(f))
  IN  Found(Front(f)) /\ Dir(d) /\ Dir(Lexical(d, Last(f)))

\* /path/to/dir is allowed, but /path/to is not: slashes are counted.
Shallow(f) == Len(f) < 3

\* The same for all arguments, evaluated once.
AllArgs == UNION {RawArgs[kind] : kind \in DOMAIN RawArgs}
AbsPath == [raw \in AllArgs |-> GetAbsPath(raw)]
Asserted == {raw \in AllArgs : Refused(raw)}
Accepted == {raw \in AllArgs : ~Refused(raw) /\ IsDirectory(GetAbsPath(raw))}

\* Only directories are taken.
TakeArg ==
  \/ /\ pc = "args" /\ Len(input) < MaxArgs
     /\ \E raw \in RawArgs[Head(plan)] :
          IF raw \in Asserted THEN pc' = "abort" /\ UNCHANGED <<input, args>>
          ELSE IF raw \notin Accepted \/ (~opt.force /\ Shallow(AbsPath[raw]))
          THEN pc' = "exit1" /\ UNCHANGED <<input, args>>
          ELSE /\ input' = Append(input, AbsPath[raw]) /\ args' = Append(args, raw)
               /\ UNCHANGED pc
     /\ UNCHANGED <<plan, n, opt, fls, todo, file, made>>
  \/ Throws("args")

\* The mode: create a flist file, clean write paths, or dispatch workers.
ArgsEnd ==
  /\ pc = "args"
  /\ Goto(IF input = <<>> THEN "exit1"
          ELSE IF opt.flist_file_create
          THEN IF opt.flist_file = <<>> THEN "exit1" ELSE "create"
          ELSE IF opt.clean_write_paths THEN "clean" ELSE "dispatch")

Start == GetOpt \/ GetOptEnds \/ TakeArg \/ ArgsEnd

-----------------------------------------------------------------------------
(* create_flist_file.                                                      *)

\* Mutation: a file that exists is written over.
CreateCheckAlways ==
  pc = "create" /\ Goto(IF file.kind # "none" /\ opt.force THEN "remove" ELSE "scan")

CreateCheck ==
  /\ pc = "create"
  /\ Goto(IF file.kind = "none" THEN "scan"
          ELSE IF opt.force /\ file.kind = "reg" THEN "remove" ELSE "exit1")

SetFile(kind, lines) == file' = [kind |-> kind, lines |-> lines] /\ made' = NotMade

\* A file that has gone is not an error, and main then exits with success.
CreateRemove ==
  /\ pc = "remove"
  /\ \/ SetFile("none", {}) /\ pc' \in {"scan"} \cup (IF "gone" \in Faults THEN {"exit0"} ELSE {})
     \/ "error" \in Faults /\ pc' = "exit1" /\ UNCHANGED <<file, made>>
  /\ UNCHANGED <<procVars, fls, todo>>

\* The flist file may lie below an input.
TreeNow ==
  IF file.kind = "none" THEN Tree
  ELSE Tree @@ [p \in {FlistPath} |-> [kind |-> file.kind, of |-> <<>>]]

\* All that the scans of the arguments find.
ScanAll(tree, fs, ignore_dot) ==
  UNION {InitFlist(tree, f, Resolve(f), ignore_dot) : f \in ToSet(fs)}

Wanted(tree) == UNION {LinesOf(p) : p \in ScanAll(tree, input, opt.ignore_dot)}

CreateScan ==
  \/ /\ pc = "scan"
     /\ todo' = Wanted(TreeNow) /\ pc' = "open"
     /\ UNCHANGED <<procVars, fls, file, made>>
  \/ Throws("scan")

CreateOpen ==
  \/ /\ pc = "open"
     /\ SetFile("reg", {}) /\ pc' = "write"
     /\ UNCHANGED <<procVars, fls, todo>>
  \/ Throws("open")

\* Mutation: the stream does not throw, and the lines that follow are lost.
CreateWriteQuiet ==
  /\ pc = "write"
  /\ \/ \E s \in todo : /\ file' = [file EXCEPT !.lines = @ \cup {s}]
                        /\ todo' = todo \ {s}
                        /\ UNCHANGED <<pc, made>>
     \/ todo = {} /\ pc' = "exit0" /\ UNCHANGED <<todo, file, made>>
     \/ "throw" \in Faults /\ pc' = "exit0" /\ UNCHANGED <<todo, file, made>>
  /\ UNCHANGED <<procVars, fls>>

\* The lines go out one by one; an error of the stream throws.
CreateWrite ==
  \/ /\ pc = "write"
     /\ IF todo = {}
        THEN /\ pc' = "exit0"
             /\ made' = [input |-> input, ignore_dot |-> opt.ignore_dot]
             /\ UNCHANGED <<todo, file>>
        ELSE /\ \E s \in todo : /\ file' = [file EXCEPT !.lines = @ \cup {s}]
                                /\ todo' = todo \ {s}
             /\ UNCHANGED <<pc, made>>
     /\ UNCHANGED <<procVars, fls>>
  \/ Throws("write")

Create == CreateCheck \/ CreateRemove \/ CreateScan \/ CreateOpen \/ CreateWrite

-----------------------------------------------------------------------------
(* The other modes.                                                        *)

\* collect_write_paths throws, unlink_write_paths fails or not (WritePaths).
Clean == pc = "clean" /\ \E end \in {"exit0", "exit1", "abort"} : Goto(end)

\* dispatch_worker makes this many XThreads; the sum may wrap.
NumThread == (opt.num_reader + opt.num_writer) % Words

\* Threads that memory has no room for throw; without any, or without sets, the
\* program is done.
StartDispatch ==
  /\ pc = "dispatch"
  /\ Goto(IF opt.num_set = 0 \/ (opt.num_reader = 0 /\ opt.num_writer = 0) THEN "exit0"
          ELSE IF NumThread > LongMax THEN "exit1" ELSE "setup_flist")

\* setup_flist_impl: the lists, or none if they are given up.
Lists ==
  IF opt.flist_file = <<>>
  THEN [i \in DOMAIN input |-> InitFlist(TreeNow, input[i], Resolve(input[i]), opt.ignore_dot)]
  ELSE IF LoadFails(file.lines, input) THEN <<>>
  ELSE LoadFlist(file.lines, input)

\* setup_flist.  An empty list would make the workers spin.
SetupFlist ==
  \/ /\ pc = "setup_flist"
     /\ IF opt.path_iter = <<"walk">> THEN pc' = "workers" /\ UNCHANGED fls
        ELSE IF (opt.flist_file # <<>> /\ file.kind # "reg") \/ Lists = <<>>
                \/ {} \in ToSet(Lists)
        THEN pc' = "exit1" /\ UNCHANGED fls
        ELSE pc' = "workers" /\ fls' = Lists
     /\ UNCHANGED <<procVars, todo, file, made>>
  \/ pc = "setup_flist" /\ "throw" \in Faults /\ Goto("exit1")

\* A set of workers ends (Dispatch), and another one may follow it.
WorkersEnd ==
  pc = "workers" /\ \E next \in {"setup_flist", "exit0", "exit1", "abort"} : Goto(next)

OtherModes == Clean \/ StartDispatch \/ SetupFlist \/ WorkersEnd

-----------------------------------------------------------------------------
(* The environment.                                                        *)

Kill == pc \notin Ended /\ Goto("killed")

NextRun ==
  /\ pc \in Ended /\ Len(plan) > 1
  /\ plan' = Tail(plan)
  /\ pc' = "getopt" /\ n' = 0 /\ opt' = Default
  /\ input' = <<>> /\ args' = <<>>
  /\ fls' = <<>> /\ todo' = {}
  /\ UNCHANGED <<file, made>>

Stopped == pc \in Ended /\ Len(plan) = 1 /\ UNCHANGED vars

Next == Start \/ Create \/ OtherModes \/ Kill \/ NextRun \/ Stopped

Spec == Init /\ [][Next]_vars

-----------------------------------------------------------------------------
(* Properties.                                                             *)

\* The program of Dispatch, with the options of this run.
D == INSTANCE Global WITH
       NumReader <- opt.num_reader, NumWriter <- opt.num_writer,
       NumSet <- opt.num_set, NumRepeat <- opt.num_repeat,
       TimeSecond <- opt.time_second, MonitorInt <- opt.monitor_interval_second,
       NumWritePaths <- opt.num_write_paths, Iter <- Head(opt.path_iter),
       Input <- [i \in DOMAIN input |-> <<"reg">>], CreateFails <- {},
       Faults <- {}, IntMax <- LongMax, AgeCap <- LongMax + 1, PathsCap <- LongMax + 1

\* Whatever is given, workers are dispatched only with options that Dispatch,
\* WritePaths and FileIO take for granted, with the minutes folded in, not with a
\* flist file and a walk, and never with an empty list of entries to spin over.
DispatchAssumptions ==
  pc = "workers" =>
    /\ D!GlobalAssumption
    /\ opt.write_paths_type # {} /\ opt.num_write_paths >= -1
    /\ \A b \in BufferSizes : opt[b] \in 0 .. MaxBufferSize
    /\ \A b \in Sizes : opt[b] \in -1 .. MaxBufferSize
    /\ opt.time_minute = 0 /\ opt.monitor_interval_minute = 0
    /\ IF opt.path_iter = <<"walk">> THEN opt.flist_file = <<>> /\ fls = <<>>
       ELSE Len(fls) = Len(input) /\ {} \notin ToSet(fls)

\* An argument that exists, with whatever symlinks and .. in it, stands for the very
\* directory that it leads to, and that is not a shallow one without --force.
ShallowNeedsForce ==
  pc \notin {"getopt", "args"} \cup Ended =>
    \A i \in DOMAIN input : IsThere(args[i]) =>
      /\ input[i] = Resolve(Names(args[i])) /\ IsDir(Tree, input[i])
      /\ opt.force \/ Len(input[i]) >= 3

\* A run that is told to create a flist file and succeeds leaves all of the list,
\* never a part of it: errors of the stream are not passed over.  (A file that
\* disappeared by itself leaves none.)
CreatedMeansComplete ==
  pc = "exit0" /\ opt.flist_file_create /\ input # <<>> =>
    file.kind = "none" \/ file.lines = Wanted(Tree)

\* A path with a newline in it gives at least one line that is below no argument.
\* (Where a directory name ends in a newline, it need not.)
NoEcho ==
  \A raw \in Accepted : \A p \in ScanAll(Tree, <<AbsPath[raw]>>, FALSE) :
    \/ LinesOf(p) = {p}
    \/ \E s \in LinesOf(p) : \A other \in Accepted : ~StartsWith(s, AbsPath[other])

\* Loading a flist file that was completed for the same arguments gives every
\* input at least what a scan found, and nothing that is below no input, or is
\* refused: runs that failed or were killed in between do no harm.
FlistFaithful ==
  pc = "workers" /\ opt.flist_file # <<>> /\ made.input # <<>> /\ input = made.input =>
    /\ \A i \in DOMAIN input :
         InitFlist(Tree, input[i], Resolve(input[i]), made.ignore_dot) \subseteq fls[i]
    /\ UNION ToSet(fls) \subseteq ScanAll(Tree, input, made.ignore_dot)

\* What a run finds at the path of the flist file stays, unless it is a regular
\* file and the user forces the creation of a new one.
FlistKept ==
  [][file' # file /\ file.kind # "none" /\ pc # "write" =>
       opt.flist_file_create /\ opt.force /\ file.kind = "reg"]_vars
=============================================================================
