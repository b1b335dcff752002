------------------------------- MODULE Flist --------------------------------
(***************************************************************************)
(* Lists of files: the scan of a directory, the lines of a flist file, and *)
(* the way lines are given to the inputs whose name they begin with.       *)
(*                                                                         *)
(* A path is a sequence of names from the root, a tree a function from     *)
(* paths to [kind, of], of being the target of a symlink.  A list is the   *)
(* set of its members: no property tells their order or number apart.      *)
(***************************************************************************)
EXTENDS Integers, Sequences, SequencesExt

CONSTANTS
  DotName,   \* the names that begin with a dot
  Newline,   \* [name -> [before, ends]] for the names that have a newline in
             \* them: the part before it, and whether it ends the name
  Longer     \* the pairs <<a, b>> of names where a is b and more

Below(tree, d) == {p \in DOMAIN tree : IsStrictPrefix(d, p)}

IsDir(tree, p) == p \in DOMAIN tree /\ tree[p].kind = "dir"

\* is_dot_path: a dot anywhere, in the names above the input, too.
IsDotPath(p) == ToSet(p) \cap (DotName \cup {".", ".."}) # {}

\* What the iterator finds in the directory d that f leads to, by its name from f.
Entry(f, d, p) == f \o SubSeq(p, Len(d) + 1, Len(p))

InitFlist(tree, f, d, ignore_dot) ==
  {s \in {Entry(f, d, p) : p \in {q \in Below(tree, d) : tree[q].kind \in {"reg", "symlink"}}} :
     ~(ignore_dot /\ IsDotPath(s))}

-----------------------------------------------------------------------------
(* The file.                                                               *)

\* A path goes into the file as the lines between its newlines.  One that begins
\* with the rest of a name matches no path from the root; one after a name that
\* ends in its newline begins with a slash.
Half == "half"

LinesOf(p) ==
  LET cuts == {k \in DOMAIN p : p[k] \in DOMAIN Newline}
      first(k) == IF k = 0 \/ Newline[p[k]].ends THEN <<>> ELSE <<Half>>
      last(k) == IF k > Len(p) THEN <<>> ELSE <<Newline[p[k]].before>>
  IN  {first(e[1]) \o SubSeq(p, e[1] + 1, e[2] - 1) \o last(e[2]) :
         e \in {e \in (cuts \cup {0}) \X (cuts \cup {Len(p) + 1}) :
                  e[1] < e[2] /\ ~\E k \in cuts : e[1] < k /\ k < e[2]}}

\* std::string::starts_with: the last name of f may go on in s.
StartsWith(s, f) ==
  \/ IsPrefix(f, s)
  \/ /\ Len(s) >= Len(f) /\ IsPrefix(Front(f), s)
     /\ <<s[Len(f)], Last(f)>> \in Longer

\* Mutation: a line is given to the first input that it begins with.
MatchesFirst(s, input) ==
  LET m == {i \in DOMAIN input : StartsWith(s, input[i])}
  IN  {i \in m : \A j \in m : i <= j}

\* A line may be in the lists of several inputs.
Matches(s, input) == {i \in DOMAIN input : StartsWith(s, input[i])}

\* The lists are given up at a line that begins with no input.
LoadFails(lines, input) == \E s \in lines : Matches(s, input) = {}

LoadFlist(lines, input) ==
  [i \in DOMAIN input |-> {s \in lines : i \in Matches(s, input)}]
=============================================================================
