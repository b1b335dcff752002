------------------------------ MODULE Options -------------------------------
(***************************************************************************)
(* The command line options: what getopt_long and handle_long_option do    *)
(* with one option, and the adjustments that follow the last one.          *)
(*                                                                         *)
(* An argument is what the conversions of the code see in it: text, as a   *)
(* sequence of letters or names, and the number it begins with, if any.    *)
(***************************************************************************)
EXTENDS Integers, Sequences, SequencesExt

CONSTANTS
  LongMax,        \* bound: LONG_MAX of the build, scaled down
  MaxBufferSize,  \* MAX_BUFFER_SIZE, scaled down
  Minute          \* seconds in a minute, scaled down

ASSUME OptionsAssumption ==
  /\ LongMax \in Nat /\ MaxBufferSize \in 0 .. LongMax
  /\ Minute \in Nat \ {0}

Words == 2 * (LongMax + 1)
ULongMax == Words - 1
Long == -LongMax - 1 .. LongMax

\* The value of an out of range sum on a machine that wraps.
Wrapped(n) == ((n + LongMax + 1) % Words) - LongMax - 1

Number(v) == [num |-> TRUE, n |-> v, s |-> <<"9">>]
Text(s) == [num |-> FALSE, n |-> 0, s |-> s]
NoArg == Text(<<>>)

-----------------------------------------------------------------------------
Threads == {"num_set", "num_reader", "num_writer"}
BufferSizes == {"read_buffer_size", "write_buffer_size"}
Sizes == {"read_size", "write_size"}
Times == {"time_minute", "time_second",
          "monitor_interval_minute", "monitor_interval_second"}
Flags == {"stat_only", "ignore_dot", "follow_symlink", "random_write_data",
          "truncate_write_paths", "fsync_write_paths", "dirsync_write_paths",
          "keep_write_paths", "clean_write_paths", "flist_file_create",
          "force", "verbose", "debug"}
Iters == {<<"walk">>, <<"ordered">>, <<"reverse">>, <<"random">>}

TypeOf == [d |-> "dir", r |-> "reg", s |-> "symlink", l |-> "link"]

OptionNames ==
  Flags \cup Times \cup Sizes \cup BufferSizes \cup Threads \cup
  {"num_repeat", "num_write_paths", "write_paths_base", "write_paths_type",
   "path_iter", "flist_file"}

\* namespace opt before getopt.
Default ==
  LET one == [num_set |-> 1, num_reader |-> 0, num_writer |-> 0, num_repeat |-> -1,
              num_write_paths |-> MaxBufferSize, write_paths_base |-> <<"x">>,
              write_paths_type |-> {"dir", "reg"}, path_iter |-> <<"ordered">>,
              flist_file |-> <<>>]
  IN  [name \in OptionNames |->
         CASE name \in Flags -> FALSE
           [] name \in Times -> 0
           [] name \in Sizes -> -1
           [] name \in BufferSizes -> MaxBufferSize \div 2
           [] OTHER -> one[name]]

\* std::stoul negates what follows a minus sign, and throws on other text and
\* beyond its range; std::stol has the range of a long.
IsUlong(a) == a.num /\ a.n \in -ULongMax .. ULongMax
IsLong(a) == a.num /\ a.n \in Long
Ulong(a) == a.n % Words

\* The option is taken; otherwise the program exits with 1, by its own message,
\* by an exception of the conversion or by getopt's answer to an unknown name.
Accepts(name, a) ==
  \/ name \in Flags \cup {"flist_file"}
  \/ name \in Threads /\ IsUlong(a)
  \/ name \in BufferSizes /\ IsUlong(a) /\ Ulong(a) <= MaxBufferSize
  \/ name \in Times \cup {"num_repeat", "num_write_paths"} /\ IsLong(a)
  \/ name \in Sizes /\ IsLong(a) /\ a.n <= MaxBufferSize
  \/ name = "write_paths_base" /\ a.s # <<>>
  \/ name = "write_paths_type" /\ a.s # <<>> /\ ToSet(a.s) \subseteq DOMAIN TypeOf
  \/ name = "path_iter" /\ a.s \in Iters

\* A number as the base name stands for that many x, if a string can have them.
BaseName(a) ==
  IF a.num /\ IsUlong(a) /\ Ulong(a) <= LongMax
  THEN [i \in 1 .. Ulong(a) |-> "x"] ELSE a.s

\* Mutation: a size below -1 is kept.
AtLeastKept(low, n) == n

AtLeast(low, n) == IF n < low THEN low ELSE n

\* What an accepted option is set to.
Value(name, a) ==
  CASE name \in Flags -> TRUE
    [] name \in Threads \cup BufferSizes -> Ulong(a)
    [] name \in Times -> a.n
    [] name = "num_repeat" -> IF a.n = 0 THEN -1 ELSE AtLeast(-1, a.n)
    [] name \in Sizes \cup {"num_write_paths"} -> AtLeast(-1, a.n)
    [] name = "write_paths_base" -> BaseName(a)
    [] name = "write_paths_type" -> {TypeOf[x] : x \in ToSet(a.s)}
    [] name \in {"path_iter", "flist_file"} -> a.s

\* Using a flist file means not walking the input directories.
NotWalked(o) ==
  IF o.flist_file # <<>> /\ o.path_iter = <<"walk">> THEN <<"ordered">> ELSE o.path_iter

\* The adjustments after getopt.  The sums may overflow.
Adjusted(o) ==
  [o EXCEPT
     !.time_second = Wrapped(@ + o.time_minute * Minute), !.time_minute = 0,
     !.monitor_interval_second = Wrapped(@ + o.monitor_interval_minute * Minute),
     !.monitor_interval_minute = 0,
     !.path_iter = NotWalked(o)]
=============================================================================
