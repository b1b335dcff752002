------------------------------- MODULE MCMain -------------------------------
(***************************************************************************)
(* Values of the constants of Main for TLC.                                *)
(***************************************************************************)
EXTENDS Main

\* /a/b/c with a file, a dot file and the directory d below it; /a/b/cd, whose name
\* begins like that of /a/b/c; /a/b/e with a directory whose name ends in a newline and
\* in it a file with a newline in its name; the shallow directory /s/t; symlinks to /s and
\* to /a/b/c.
AB == <<"a", "b">>
C == AB \o <<"c">>
CD == AB \o <<"cd">>
E == AB \o <<"e">>
T == <<"s", "t">>
Dirs == {<<"a">>, AB, C, C \o <<"d">>, CD, E, E \o <<"l">>, <<"s">>, T}
Files == {C \o <<"f">>, C \o <<".g">>, C \o <<"d", "f">>, CD \o <<"f">>, E \o <<"l", "n">>,
          T \o <<"f">>}
Links == [p \in {AB \o <<"up">>} |-> <<"s">>] @@ [p \in {<<"m">>} |-> C]

TreeMC ==
  [p \in Dirs |-> [kind |-> "dir", of |-> p]] @@
  [p \in Files |-> [kind |-> "reg", of |-> p]] @@
  [p \in DOMAIN Links |-> [kind |-> "symlink", of |-> Links[p]]]

Dots == {".g"}
NewlineMC == [l |-> [before |-> "lb", ends |-> TRUE], n |-> [before |-> "nb", ends |-> FALSE]]
LongerMC == {<<"cd", "c">>}
Flist == C \o <<"flist">>

\* From the root: directories, by their own names and through .. and symlinks; a file, the
\* root, nothing; and a symlink to /s after a name that does not exist.  From /a/b/c: a
\* directory, and .. after names that do not exist.
Raw(p) == [relative |-> FALSE, path |-> p, slash |-> FALSE]
FromCwd(p) == [Raw(p) EXCEPT !.relative = TRUE]
Few == {Raw(C), Raw(CD), Raw(E), FromCwd(<<"d">>), Raw(AB \o <<"no", "..", "up", "t">>)}
Many ==
  {Raw(p) : p \in {C, C \o <<"..">>, <<"m">>, AB \o <<"up", "t">>, C \o <<"f">>, <<>>,
                   AB \o <<"no", "..", "up", "t">>}} \cup
  {[Raw(AB \o <<"no">>) EXCEPT !.slash = b] : b \in BOOLEAN} \cup
  {FromCwd(p) : p \in {<<"d">>, <<"no", "..", "..">>, <<"no", "c", "..">>, <<>>}}
RawArgsMC == [list |-> Few, load |-> Few, all |-> Many]

Option(name, values) == {[name |-> name, arg |-> v] : v \in values}
Set(names) == UNION {Option(name, {NoArg}) : name \in names}
Numbers(S) == {Number(v) : v \in S}

ListOptions ==
  Option("flist_file", {Text(Flist)}) \cup
  Set({"flist_file_create", "force", "ignore_dot"})

LoadOptions ==
  Option("flist_file", {Text(Flist)}) \cup Option("num_writer", {Number(1)}) \cup
  Option("path_iter", {Text(<<"walk">>)})

AllOptions ==
  LoadOptions \cup
  UNION {Option(name, Numbers({0, 1, -1}) \cup {Text(<<"bad">>)}) :
           name \in Threads \cup {"num_repeat"}} \cup
  UNION {Option(name, Numbers({0, MaxBufferSize + 1, -2})) :
           name \in BufferSizes \cup Sizes} \cup
  UNION {Option(name, Numbers({1, LongMax})) : name \in Times} \cup
  Option("num_write_paths", Numbers({0, -2, LongMax + 1})) \cup
  Option("write_paths_type", {NoArg, Text(<<"r", "l">>), Text(<<"d", "z">>)}) \cup
  Option("write_paths_base", {NoArg, Number(0), Number(2), Text(<<"y">>)}) \cup
  Option("path_iter", {Text(<<"random">>), Text(<<"bad">>)}) \cup
  Set({"force", "clean_write_paths", "x", "help"})

GivenMC == [list |-> ListOptions, load |-> LoadOptions, all |-> AllOptions]
PlansMC == {<<"list", "list", "load">>, <<"all">>}

ASSUME NoEchoHere == NoEcho
=============================================================================
