------------------------------- MODULE MCDevice -------------------------------
(***************************************************************************)
(* Instance of Sur40Device and Sur40Formats for TLC.                       *)
(***************************************************************************)
EXTENDS Sur40Formats
=============================================================================
