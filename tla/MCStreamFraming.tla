---------------------------- MODULE MCStreamFraming ----------------------------
(***************************************************************************)
(* StreamFraming for TLC: four frames, one of them without a body, with a  *)
(* header and bodies of more than one byte, so that a deadline can fall    *)
(* within both, and a window smaller than the largest frame.               *)
(***************************************************************************)
EXTENDS StreamFraming

MCBody == <<3, 0, 1, 2>>
===============================================================================
