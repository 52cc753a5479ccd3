-------------------------------- MODULE MCFdWait --------------------------------
(***************************************************************************)
(* FdWait for TLC: three ticks to the millisecond, and a clock long enough *)
(* for deadlines of several milliseconds and for one of less than one.     *)
(***************************************************************************)
EXTENDS FdWait
===============================================================================
