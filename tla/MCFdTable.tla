------------------------------- MODULE MCFdTable -------------------------------
(***************************************************************************)
(* FdTable for TLC: connections are interchangeable, numbers are not: the  *)
(* kernel gives out the lowest.                                            *)
(***************************************************************************)
EXTENDS FdTable, TLC

ConnSymmetry == Permutations(Conns)
===============================================================================
