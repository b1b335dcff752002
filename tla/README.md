# A TLA+ model of dirload-cpp

dirload-cpp puts a read and write load on directories: reader and writer
threads go over the files below the given paths until a limit or SIGINT stops
them, an optional monitor thread prints statistics, and what the writers
created is removed at the end of every set. This directory models that program,
checks the models with TLC and proves their safety properties with TLAPS.

Contents: [the system](#the-system) · [the modules](#the-modules) ·
[runs](#runs-and-bounds) · [fairness](#fairness) · [proofs](#proofs) ·
[findings](#where-code-and-documentation-disagree) ·
[not modelled](#not-modelled) · [plan](#plan)

## The system

| component | state | operations | what makes it correct |
|---|---|---|---|
| worker threads (`worker.cc`, `worker.h`) | the counters of `XThread`, position and `repeat` of the pass | start, one entry, the checks after it, end of a pass, `set_done`/`set_time_end`, the catch block | exactly one verdict, for a reason; prompt reaction to SIGINT and the clock |
| monitor thread (`worker.cc`) | timer, scan position, `done` | poll, scan, stamp, print, leave | does not leave early, does leave in the end, ends before `dispatch_worker` returns |
| thread statistics (`stat.cc`, `stat.h`) | input path, begin and end time, done, counters | one writer thread, the monitor and main use them **without a lock** | spans go forward, limits count from the begin; a live table lags by an operation at most, the last one is exact |
| dispatch (`dispatch_worker`, the set loop of `main`) | the threads, the sums, the number of the set | build, scan, create, join, collect, clean up, next set | every thread joined, sums complete, SIGINT ends the sets |
| write paths (`dir.cc`) | the directory tree, `_write_paths` and the name counter of each thread | create, sync, register, write, unlink, collect | the tree is what it was, also after a crash; user files are not touched |
| file I/O (`dir.cc`) | `resid`, the streams, the counters | `read_entry`, read loop, write loop, resize, fsync | the wanted bytes and no others; every operation ends; fsync means durable |
| file lists (`flist.cc`, `setup_flist`) | a list per path; the flist file | scan, load, create | no empty list reaches the workers; a file is created whole or not with success, kept without `--force`, and loads as what was scanned |
| options and start of `main` | `opt::*`, the arguments | parse, adjust, check arguments, choose the mode | ranges that the other parts rely on; shallow directories need `--force` |
| random engine (`util.cc`) | one global engine and its `init` flag | seed on first use, draw | nobody draws from an unseeded engine |
| lock, log, path helpers | one mutex | | |

They interact by calls, by the thread arguments on `dispatch_worker`'s stack, by
the statistics that three threads share, by the signal flag, and through the
directory tree. The hard behaviours are the unlocked sharing, the order of
creation, begin time, done and join, a flist file that outlives the run that was
writing it, the several ways a worker can end at once
(error, exception, SIGINT, clock, passes, paths), failures between creating and
registering a path, names that are unique only to the second, and unlinking
while somebody else does. `PROJECT.json` lists the hazards line by line with the
properties that cover them.

## The modules

| module | models | lines to start with |
|---|---|---|
| `Global` | options as constants, `ThreadStat` | `stat.cc:10-28` |
| `Worker` (extends `Global`) | `worker_handler`, `worker_handler_impl` | `worker.cc:172-291` |
| `Monitor` (extends `Worker`) | `monitor_handler_impl`, `Timer` | `worker.cc:133-170` |
| `Dispatch` (extends `Monitor`) | `dispatch_worker`, the set loop, SIGINT and time; composes the threads | `worker.cc:304-413`, `main.cc:506-548` |
| `Batch` | abstract specification of `Dispatch` | |
| `WriteSet` | abstract specification of the writers of a set, for `WritePaths` and `Dispatch` | |
| `WritePaths` | creating, registering, unlinking and cleaning write paths | `dir.cc:51-97`, `203-268`, `331-407` |
| `FileIO` | `read_entry`, `read_file`, the data part of `write_file` | `dir.cc:109-200`, `270-328` |
| `Options` | every option, its conversion and range, the adjustments | `main.cc:166-309`, `359-401` |
| `Flist` | scanning, the lines of a flist file, matching them to inputs | `flist.cc:9-34`, `worker.cc:36-77` |
| `Main` (extends both) | `main` up to the dispatch, `create_flist_file`, `setup_flist`; runs that follow each other | `main.cc:318-487`, `flist.cc:36-73`, `worker.cc:79-109` |
| `Rng` | `get_random_engine`, `get_random` | `util.cc:165-175` |
| `Report` | the counters and `print_stat` | `stat.cc:37-220`, `worker.cc:404-412` |
| `MCDispatch`, `MCWritePaths`, `MCFileIO`, `MCMain`, `MCRng`, `MCReport` | constants for TLC | |
| `DispatchProofs`, `FileIOProofs`, `MainProofs`, `RngProofs`, `ReportProofs` | theorems about the module of that name | |
| `WritePathsProofs`, `CleanUpProofs` (extends it) | theorems about `WritePaths`: the state of the writers and `WriteSet`; what becomes of the tree | |

**Dispatch.** A thread is a `pc` and the counters of its `XThread`. Every access
to state that another thread uses is a step: reading the flag
(`CheckInterrupted`), the clock (`CheckTime`), `SetDone`, `StampEnd`, and in the
monitor `Scan`, `Stamp`, `ScanEnd`, `Show`. One entry is one step (`Entry`) with
the outcomes that `read_entry` and `write_entry` have: success, an error or an
exception, with or without a new write path; an exception may come from the first
look at the entry, of any kind, by a reader or a writer. `main` follows
`dispatch_worker` in program order: `Setup`, `SetupFlist`, `CreateMonitor`,
`CreateWorker` and `StampBegin` in turn for every thread, `JoinWorker`,
`JoinMonitor`, `Collect`, `Cleanup`, `Report`. `EarlyReturn` is a failed thread
creation: it returns an error number in the POSIX build and throws in the std
build. Time is relative: a statistic holds the age of its begin and the signed
distance of its end, in seconds, and `Tick` lets every age grow.

**Batch** knows no threads: every worker of a set is decided once, the next set
begins when all are decided and none was interrupted, the end is after the last
set or an interrupted one, or a failure. `Dispatch` implements it under the
mapping of `VerdictOf` and `Outcome` (the formula `BatchSpec`), which TLC checks
and `ImplementsBatch` proves.

**WriteSet** is what the writers of a set promise: they register paths one at a
time, at most `Limit` of them and none after they have left, the set is over
when all have left, and the next one begins with nothing. Two modules implement
it: `WritePaths`, where a registration is the step between a created inode and
its data, and `Dispatch`, where it is hidden in `Entry`. That both do is what
justifies the outcomes of `Entry`: it registers one path or none, never above
the limit. `WriteSetSpec` is the formula in both.

**WritePaths** is what `Entry` and `Cleanup` leave out. The tree is a function
from paths to inodes; an inode is named by where it was created, so a hard link
and writes through it can be told from the user's file. A writer's step
sequence is that of `write_file`: choose an entry and use up a name (`Pick`),
`Create`, `SyncPath`, `Register`, `WriteData`. `UnlinkStep` is one round of
`unlink_write_paths`, split at every look at the tree; a path that is gone, or is
a device, ends it with the rest of the list in place (`Gone`). `Crash` can happen
anywhere, and `CleanWritePaths` starts the second process. The sort of the list
is kept as what it guarantees, a path before its prefixes (`Back`). The order of
the entries in a pass is left open. A write path is named by base, thread, time
and number; `IsWritePath` takes every base that begins with this one's, as the
prefix test in `collect_write_paths` does.

**FileIO** is one file operation in byte counts, with the stream as the program
uses it: `readsome` gives what is there, writes may be held back until flush or
close, the destructor is silent. Exceptions come from the looks at the entry and
at what a link holds (`FindThrows`), from opening, and from a stream that goes
bad in any round of the loops.

**Main** starts where the program does. An argument of an option is what the
conversions see in it, a number it begins with or text (`Options`); `GetOpt` is
one round of `getopt_long`, `TakeArg` one of the loop over the arguments.
Paths are sequences of names in a small tree with symlinks; a symlink is given by
the path without links that it comes to. `Resolve` is the way the file system
goes, a name at a time. `GetAbsPath` is `weakly_canonical`, which is not the same:
it goes that way as far as the names exist (`Existing`), and from the first one
that does not it takes the names as they are, `..` drops the name before it, and
symlinks stay (`Way` is both, with the number of names that are followed). A
relative path of which nothing exists is normalised before the current directory
is put in front, so that a leading `..` stays in it (`Normal`). `Refused` is the
assertion on the slash at the end. What is taken of an argument is tested by
`IsDirectory` the way the file system looks at it, links included.

`create_flist_file` is a step per system call and per line, each of which may
fail as its error handling allows; `Kill` may come anywhere, and
`NextRun` starts the program again on what is left. In the flist file a path
is the lines between its newlines (`LinesOf`): those that begin with the rest of a
name match nothing, those after a directory name that ends in a newline begin with a
slash. `StartsWith` compares strings, not names.
`Main` ends where `Dispatch` begins: `DispatchAssumptions` instantiates `Global`
with the options of the run and asks for its assumption, and for what
`WritePaths` and `FileIO` assume.

**Rng** is the engine as words and a position. All accesses are races; a thread
may use the position it read before or read it again.

**Report** has a worker that counts an operation in two stores, in either order,
and a `print_stat` that reads one counter per step, in the order of the code:
widths, rates, then the rows. The monitor reads the counters themselves, main
the copies. The times, and the assertion on the path, are in `Monitor`.

Definitions between a `Mutation:` comment and the definition they vary are
plausible bugs; nothing uses them. Each shows that a property notices it.

## Runs and bounds

| run | instance | shows |
|---|---|---|
| `disp_sets` | 1 reader, 1 writer, 2 sets, 2 passes in reverse order, 1 path to create and a count that goes to 2, every fault, std threads that fail to be created; no monitor | verdicts, sums, joins, promptness after SIGINT, refinement of `Batch` and `WriteSet`, the end of the program |
| `disp_monitor` | 2 writers in random order, one of which may pick a symlink every time, 1 path each to create and no other limit, monitor every second, entries that return errors, POSIX threads that fail to be created | the monitor does not leave early and does leave; SIGINT ends the program |
| `disp_time` | 1 reader, 1 writer, time limit of a second only, walks, exceptions, `IntMax` = 0; no monitor | types and widths; the limit ends the workers, and not before its time |
| `wp_sets` | 2 writers, up to 2 paths each, all types, 2 sets, one second between them or none; no faults | user files and data stay; registered paths are new; refinement of `WriteSet` |
| `wp_crash` | 2 writers walking over created directories, errors of creation and fsync, old paths of other base names, a device with a name of ours, a crash anywhere, then `--clean_write_paths` | unlink order, what leaks can spoil, recovery |
| `wp_race` | 1 writer, nested arguments, 2 sets, another process unlinking, every fault of creation, fsync and removal | unlinking ends; what a set made and left is leaked or in its list |
| `io_ops` | every combination of options, kinds of entry, buffers of 0 to 3 bytes, sizes from -1 to 3, files up to 3 bytes that change at any time, exceptions at every call that may throw | read and write loops, following links within a directory, fsync of truncated files, every operation ends |
| `main_start` | a run that lists, another one, and one that loads; or one run with every option; 3 options, and 2 arguments of 5 or 13, every failure, a kill anywhere | option ranges, shallow directories, creation and loading of flist files |
| `rng_first` | 3 workers and perhaps main, 2 draws each, an engine of 2 words | no draw from an unseeded engine |
| `report_tables` | 2 workers, 2 operations of 0 or 2 bytes each, 2 live tables and the last | what tables say of counters that move |

The two runs named `*_found_*` end in a counterexample, see
[below](#where-code-and-documentation-disagree).

*Dispatch.* Two threads are enough to put any worker before, between and behind
the others in creation, scan and join, and a reader and a writer differ in every
test that the code makes. Two sets show the reset of the state of a set. The
limits must not hide each other, so `disp_monitor` has only a path for each writer
to create (one that picks a symlink every time ends by SIGINT alone), and
`disp_time` has only the clock. Exceptions are left
out of `disp_monitor` because with them `MonitorEnds` fails (the finding
`disp_found_monitor`). `AgeCap` caps ages above the limit they are compared
with, and is 0 where there is none; `IntMax` is the scaled `INT_MAX`, with one
value for everything beyond it; `PathsCap` is above `NumWritePaths`, so that a
list that is too long is a state of its own, which `WriteSetSpec` would notice. A walk
is bounded by the entries of `Input` and the paths created in the set (`NextKinds`). A time limit and a monitor
together are beyond the time of a run: that the monitor leaves on the limit of its
first thread (`worker.cc:155`) is in the theorem `MonitorStays` only.

*WritePaths.* Two writers with two paths each nest and meet; both equal and
different timestamps occur (`MaxTick`). The trees have one file, or one file and
a directory with one. `SetCleansUp` is checked where everything fails that may:
leaks by fsync, paths that are gone before they are unlinked, a list that stays,
a second set. `UserTreeKept` and `RegisteredAreNew` are checked where paths are
not kept and no set leaves any, `CleanRecovers` where arguments are not nested,
the base name is not empty and no exception is thrown (`--clean_write_paths` does
not catch any); outside that they fail, as said below. The tree of `wp_crash` has
a device under a name that a writer comes to give: creating it fails or it is
registered, unlinking stops there, and cleaning leaves it alone.

*FileIO.* The loops compare buffer, `resid` and file only with each other, so
three bytes give every order of them. `MaxOps` caps the count of operations.
`ReadsEnough` and `Ends` are about buffers of at least one byte. The links of
`io_ops` point within their directory; others are not followed, see below.

*Main.* `LongMax` = 7, `MaxBufferSize` = 3 and `Minute` = 3 keep the order of the
real numbers, and let sums and products overflow. Three options are enough to
name a flist file, create it, and force it or ignore dots; two arguments to
have one name begin with the other, one directory lie below the other, or the
same twice. The tree has a path for each case that the code tells apart
(`MCMain`): symlinks to a shallow and to a deep directory, names that begin like
others, newlines inside a name and at the end of one. So have the arguments:
absolute and relative, through `..` and links, with names that do not exist before
`..`, links and slashes. Two runs that list and one that loads show a list that replaces
another, was cut short, or was made with other options or arguments.

*Rng.* With two words the seeding is seen half done, and a draw comes before and
after new words are computed. *Report.* Two operations per worker are one more
than the lag allowed; two tables give a predecessor to a live table and to the
last one.

## Fairness

`FairSpec` of `Dispatch` has weak fairness for each worker, for the monitor, for
the main thread and for the clock: the kernel runs every runnable thread, no
thread waits for a lock for ever (the only mutex guards single statements), and
a blocked join is not enabled. SIGINT and faults are never forced. Within a
thread every step is enabled until it is taken, so weak fairness is enough.
`WritePaths` needs it for the main thread only, `FileIO` for the steps of its one
thread that throw nothing; the interfering process is not fair. `Main`, `Rng` and
`Report` claim no liveness.

## Proofs

Every safety property and action property of the passing runs, and both
refinements, are theorems for all values of the constants that the assumptions
allow (the ranges that the option parsing leaves, trees that are trees), with
the hypotheses named below where a property needs more. Each rests on an
inductive invariant; the properties themselves are seldom inductive.

**DispatchProofs**: any number of readers, writers and sets, all limits, inputs
and faults.

- `IndInv` adds to the properties what each place in `dispatch_worker` knows:
  `PhaseOK` (which threads exist, run or have exited at each value of `main`),
  `SumsOK` (the sums cover the threads before `k`), `BeginOK`, `AgeOK` and
  `ScanOK` (what the begin stamps and the monitor's scan have established so far;
  done never becomes false again), `LateOK` (an entry after SIGINT decides the
  verdict).
- From it `TypeCorrect`, `VerdictOnce`, `SumsAccount`, `VerdictsHaveReasons`,
  `SigintIsPrompt`, `MonitorStays`, `LimitIsNotEarly`.
- `ThreadsEndFirst`, `SigintEndsSets`, `ImplementsBatch` and `ImplementsWriteSet`
  assume `"returns" \notin CreateFails`. In the std build, where a failed
  creation throws, and wherever creation does not fail, they hold; the POSIX
  build returns with threads running, and the first is false.

The step lemmas go action by action; `IndStep` combines them. `ImplementsBatch`
maps every step to a step of `Batch` or a stutter: a verdict is a `Decide`, the
last `Report` is `Finish`, a `Report` that starts over is `NextSet`, a failed
creation is `Fail`. `ImplementsWriteSet` needs of `IndInv` that no worker runs at
the report (`PhaseOK`), and of a worker's step that it registers a path only below
the limit (`WorkerPaths`).

**FileIOProofs**: any buffer, size and file, with another program changing it.
`IndInv` says that `resid` is what a read lacks (`ReadOK`), and that what a write
has counted is in the file or held back, and `resid` is the rest (`WriteOK`).
`LinksAreFollowed` has a hypothesis, `LinksWithinDirectory`: others are the case
of `dir.cc:130` below.

**WritePathsProofs** and **CleanUpProofs**: any tree, number of writers, sets and
paths, with crashes and interference unless said otherwise.

- `BaseInv` is inductive by itself: the tree stays a tree (`TreeOK`), every path
  that a writer made has its own name, with a counter below the writer's
  (`WritersOK`), and what a running set has registered is still there (`SetOK`).
  `ImplementsWriteSet` and `TypesKept` follow.
- On it rest, one after the other, `ListInv` (what is about to be removed has a
  name that `collect_write_paths` looks for), `KindInv` (every device was there at
  first), `KeptInv` (nothing else ever goes), `ExactInv` (without interference the
  list has each path once, and each is there), `MadeInv` (what a set has made is
  registered, about to be, leaked or gone), `AccountInv` (and so is all that was
  not there at first), `LeakInv`, `FreshInv` (names are new, nothing that was there
  is opened), `PlainInv` (devices are not removed, nor listed to be cleaned) and,
  for the second process, `CleanInv`.

| theorem | hypothesis | why |
|---|---|---|
| `SetsCleanUp` | none | a set is charged with what it made itself |
| `FailuresAreLeaks` | `Accounted`: one set, or paths are not kept, nobody interferes and names are fresh; `FreshNames`; no exceptions | else a set meets what an earlier one left |
| all about new names | `FreshNames`: a path in the tree that has our base name has the time of an earlier run | the user may have any file |
| `PathsAreNew`, `UserFilesKept` | `Tidy`: one set, or sets leave nothing behind | else `dir.cc:349` below |
| `PathsAreNewApart`, `UserFilesKeptApart` | `SetsApart`: each set begins in a later second | the same; either is enough |
| `UserFilesKept`, `CleaningRecovers` | nobody interferes | somebody else's unlinking is theirs |
| `CleaningRecovers` | `NotNested` arguments | else `dir.cc:389` below |
| | `NothingBelow`: a directory that is to be cleaned has nothing in it that stays | it cannot be removed |
| | no exceptions | `--clean_write_paths` does not catch any |
| `LinksAreFollowed` | `LinksWithinDirectory` | else `dir.cc:130` below |
| `FlistLoads` | `NoEcho`: every path with a newline in it has a line that begins with no argument | else `worker.cc:51` below |

A device is nothing that cleaning has to be protected from: `collect_write_paths`
passes it over, and `unlink_write_paths` returns an error when it meets one.

**MainProofs**: any tree, options, arguments and sequence of runs, killed
anywhere. `MainInv` says what stands for which argument (`InputOK`: it is what
`get_abspath` makes of it, a directory, and with three names or forced), in which
ranges the options are (`OptOK`), what each mode has checked (`ModeOK`,
`ListsOK`), that the lines in the file and those still to write are the list
(`CreateOK`), and that a completed file stays as it was (`MadeOK`). That a way
through names that all exist comes to a path without links, the very one that
`Resolve` comes to (`AllExist`, `ResolveCanonical`, `ThereResolved`), is an
induction over the names of the path: `Way` is a recursive function, and the
induction is over the set of lengths for which a way exists (`LeastNumber`,
`SetInduction`). `ShallowIsForced` is about arguments that exist; that the others
have no such property is said below. `FlistLoads` assumes
`NoEcho`, which TLC evaluates for the tree of the runs. `WorkersCanRely`
links the modules: `Dispatch` is only started where `GlobalAssumption` holds.

**RngProofs**: any number of threads, words and draws. `Seeding` (a flag that is
set means all words are seeded, and they stay so) and `Flag` (who is past the
initialisation has set the flag or seen it).

**ReportProofs**: any number of workers, operations, sizes and tables. The order
of the reads is a bijection between accesses and cells (`ReadAt`, `AtOnce`);
`ReportInv` says of every cell read so far how far the counters were at least
(`RowOK`, `PassedOK`), and in main's table that it is the copy (`MainOK`).

Only model-checked: liveness (outside the prover's reach, as is `ENABLED`), and
the two findings, which are counterexamples. Cases such as no threads or no sets
at all are covered by the proofs and by no run.

## Where code and documentation disagree

Runs that end with a counterexample (the quotes are in `PROJECT.json`):

| run | what happens |
|---|---|
| `disp_found_monitor` | a worker that throws never sets done: the monitor, and with it the program, does not end |
| `disp_found_assert` | the monitor prints before a worker has set its path: an assertion fails |

Also met while modelling. The modules have these behaviours, and the properties
are stated or the instances chosen so that they do not cover them:

| where | what happens |
|---|---|
| `dir.cc:349` | two sets within a second share the names of their paths: with `--keep_write_paths`, or after an fsync error that left a path unregistered, the second registers the paths of the first and creates nothing; if a symlink is in the way, opening the new regular file truncates the user's file behind it (`Keep = TRUE` violates `UserTreeKept` and, with directories and regular files only, `RegisteredAreNew`) |
| `dir.cc:389` | `--clean_write_paths` with one argument below another lists a path twice and gives up at the second time (`Input <- InputNested`, `Tree <- TreeDeep` in `wp_crash` violate `CleanRecovers`) |
| `dir.cc:93` | a path that is gone, or is a device, ends the unlinking with the rest of the list in place; a set ignores the error (`Gone`) |
| `main.cc:424` | `weakly_canonical` leaves symlinks alone after the first name that does not exist: with `/a/b/up` leading to `/s`, the argument `/a/b/no/../up/t` is taken as `/a/b/up/t`, deep enough, and is the shallow `/s/t`; no `--force` is asked for (an argument of `main_start`: `ShallowNeedsForce` without `IsThere` is violated) |
| `dir.cc:130` | the directory of a relative symlink is taken after the link was resolved: one that leads into another directory is not read with `--follow_symlink` (`Tree <- TreeCross` and `DotPaths <- NoDots` violate `FollowsTarget`) |
| `worker.cc:321` | `num_reader + num_writer` wraps; `stoul` takes `-1` for the largest number, and `--num_reader=-1 --num_writer=1` dispatches no thread at all (`NumThread` in `Main`) |
| `main.cc:393` | minutes times 60 overflow; a sum that wraps below zero is no limit (`Wrapped` in `Options`) |
| `main.cc:246` | a base name of digits stands for that many `x`, and `0` for the empty name, with which the write paths of all base names begin, so that cleaning removes them all (`BaseName`, `IsWritePath`) |
| `main.cc:424` | a relative argument of which nothing exists is normalised before the current directory is put in front: a leading `..` stays in the path, and the slashes before it are counted (`Normal`) |
| `main.cc:425` | the root, and a missing path with a slash at its end, fail an assertion, not the test with a message after it (the abort in `TakeArg`) |
| `flist.cc:49` | a flist file that disappears between the test and its removal: the error code is 0, and the run ends with success and without a file (`CreateRemove`) |
| `flist.cc:70` | a part of a list that a killed or failed run left is loaded like a whole one |
| `worker.cc:51` | lines of `/a/b/cd` are also given to the input `/a/b/c`; a name with a newline in it makes the whole file unusable (`StartsWith`, `LinesOf`); after a directory name that ends in one the second line begins with a slash, and where it begins with an argument it is taken for a file of it (a tree without `NoEcho` can violate `FlistFaithful`) |
| `util.cc:120` | with `--ignore_dot` everything below an input that has a dot directory above it is ignored (`IsDotPath`) |
| `util.cc:170` | threads that draw at the same time push the position of the engine beyond its words, and read behind the array (`"behind"` in `drawn`) |
| `stat.cc:198` | in a live table a number may be wider than its column, which was measured before (`FinalTableExact` at the end of a live table fails) |
| `worker.cc:187` | walking an empty directory looks neither at the clock nor at SIGINT (an `Input` of `<<<<>>>>` violates `TimeLimitEndsWorkers`) |
| `worker.cc:371` | a worker that checks its limit before its begin is stamped counts from the construction of its statistics; one that ends before it has a negative time (the guard on `main` in `TimeoutNotEarly`) |
| `worker.cc:260` | a `num_repeat` above `INT_MAX` is never reached by the int that counts (`NumRepeat > IntMax` violates `Terminates`) |
| `worker.cc:367` | a failed `pthread_create` returns from `dispatch_worker` with threads running on its frame, and `main` takes the positive error number for success (`"returns"` with two threads violates `NoThreadOutlives`) |
| `dir.cc:82` | the assertion fails in a race that the next test would have tolerated (the abort in `AssertExists`) |
| `dir.cc:327` | after the write loop `--fsync_write_paths` only flushes; the fsync before it covered the empty file (`FsyncIsDurable` without its condition on `truncate` fails) |
| `dir.cc:276` | the "< write_buffer_size random size" can be the buffer size (`RandomSizes`) |
| `dir.cc:299`, `util.h:50` | a buffer of 0 makes the write loop spin, and fails an assertion if the size or the data are random; a read with a buffer of 0 ends without reading |

## Not modelled

- The wording of tables and messages. The rates of a table are the bytes they are
  made of; the division by the time is left out.
- The order and the number of entries in a list, and lines cut in the middle:
  a list is a set.
- Other programs that write the flist file: the time between the test and the
  opening of the file is a hazard without a property.
- `is_dir_writable`, which only feeds a debug log, and the `X` option, which runs
  the unit tests.
- Logging, usage text, unit tests, build files: no state of the program.
- Torn reads of `_input_path` and of the time points by the monitor: they are
  data races; the path is used there only after it was found to be set, and the
  steps of `Dispatch` are whole accesses.
- What a word of the random engine is, beyond whether it comes from the seed.
- `stat_only`, `ignore_dot` and `follow_symlink` outside `FileIO`: they only
  turn entries into entries with nothing to do.

## Plan

1. (done) `Dispatch` with `Batch`, its invariants and proofs; `WritePaths`;
   `FileIO`.
2. (done) `Options`, `Flist`, `Main`, `Rng`, `Report`; `WriteSet`, which
   `WritePaths` and `Dispatch` implement.
3. (done) Proofs of the safety properties and refinements.
4. Model: a second program at the flist file; read errors in the outcomes of
   `Entry` from `FileIO`.
5. Prove: the properties of what item 4 adds.
