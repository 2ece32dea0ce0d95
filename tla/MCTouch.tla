------------------------------- MODULE MCTouch -------------------------------
(***************************************************************************)
(* Instance of Sur40Touch for TLC: scans of up to three packets.           *)
(***************************************************************************)
EXTENDS Sur40Touch
=============================================================================
