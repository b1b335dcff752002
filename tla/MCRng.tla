------------------------------- MODULE MCRng --------------------------------
(***************************************************************************)
(* Values of the constants of Rng for TLC.                                 *)
(***************************************************************************)
EXTENDS Rng, TLC

Workers == Permutations(Worker)
=============================================================================
