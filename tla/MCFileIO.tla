------------------------------ MODULE MCFileIO ------------------------------
(***************************************************************************)
(* Values of the constants of FileIO for TLC.                              *)
(***************************************************************************)
EXTENDS FileIO

Dir == [kind |-> "dir", to |-> <<>>, abs |-> FALSE]
Reg == [kind |-> "reg", to |-> <<>>, abs |-> FALSE]
Device == [kind |-> "device", to |-> <<>>, abs |-> FALSE]
Link(to) == [kind |-> "symlink", to |-> to, abs |-> FALSE]
AbsLink(to) == [kind |-> "symlink", to |-> to, abs |-> TRUE]

\* The links and the relative targets are in the same directory.
TreeSame ==
  (<<"in">> :> Dir) @@ (<<"in", "a">> :> Reg) @@ (<<"in", ".b">> :> Reg)
  @@ (<<"in", "dev">> :> Device)
  @@ (<<"in", "toa">> :> Link(<<"a">>)) @@ (<<"in", "todev">> :> Link(<<"dev">>))
  @@ (<<"in", "abs">> :> AbsLink(<<"in", "a">>))
  @@ (<<"in", "loose">> :> Link(<<"gone">>))

\* A link to a file in a directory next to it.
TreeCross ==
  (<<"in">> :> Dir) @@ (<<"in", "sub">> :> Dir) @@ (<<"in", "sub", "a">> :> Reg)
  @@ (<<"in", "toa">> :> Link(<<"sub", "a">>))

Dots == {<<"in", ".b">>}
NoDots == {}

\* Sizes with -1, which stands for no limit in reads and no data in writes.
AllSizes == -1 .. 3
=============================================================================
