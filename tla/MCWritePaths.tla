---------------------------- MODULE MCWritePaths ----------------------------
(***************************************************************************)
(* Values of the constants of WritePaths for TLC.                          *)
(***************************************************************************)
EXTENDS WritePaths

User(i) == <<"user", i, 0, 0>>
D == <<User(0)>>
F == Append(D, User(1))
E == Append(D, User(2))
G == Append(E, User(3))

DirNode(p) == [kind |-> "dir", of |-> p]
RegNode(p) == [kind |-> "reg", of |-> p]

\* A directory with one file.
TreeFlat == [p \in {D, F} |-> IF p = D THEN DirNode(p) ELSE RegNode(p)]

\* A directory with the files that runs with two other base names have kept, and
\* a device with the name that a writer may come to give.
Old(base, k) == Append(D, <<base, 0, 0, k>>)
TreeOld ==
  [p \in {D, Old("xx", 0), Old("x", 1), Old("y", 0)} |->
     [kind |-> IF p = D THEN "dir" ELSE IF p = Old("x", 1) THEN "other" ELSE "reg",
      of   |-> p]]

\* A directory with a file and a directory with a file.
TreeDeep == [p \in {D, F, E, G} |-> IF p \in {D, E} THEN DirNode(p) ELSE RegNode(p)]

InputOne == <<D>>

\* Two arguments, one below the other.
InputNested == <<D, E>>
=============================================================================
