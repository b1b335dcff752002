---------------------------- MODULE MCDispatch -----------------------------
(***************************************************************************)
(* Values of the constants of Dispatch for TLC.                            *)
(***************************************************************************)
EXTENDS Dispatch

\* No limit on the passes (the option's default).
Unlimited == -1

\* One path with two files, one to write next to and one to skip.
InputMixed == <<<<"reg", "symlink">>>>

\* One path with one file.
InputOne == <<<<"reg">>>>

\* Two paths, one of them with a file and nothing else.
InputSkipped == <<<<"reg">>, <<"reg", "symlink">>>>

\* Two paths with one file each.
InputTwo == <<<<"reg">>, <<"reg">>>>
=============================================================================
