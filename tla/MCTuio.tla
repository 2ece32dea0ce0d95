------------------------------- MODULE MCTuio -------------------------------
(***************************************************************************)
(* Instance of Sur40Tuio for TLC.  Messages have the sizes of the code;    *)
(* the packets are small, so that a frame takes two.                       *)
(***************************************************************************)
EXTENDS Sur40Tuio
=============================================================================
