------------------------------ MODULE MCReport ------------------------------
(***************************************************************************)
(* The module that TLC checks for Report; its constants are numbers.       *)
(***************************************************************************)
EXTENDS Report
=============================================================================
