-------------------------------- MODULE MCPipe --------------------------------
(***************************************************************************)
(* Instance of Sur40Pipe for TLC.                                          *)
(***************************************************************************)
EXTENDS Sur40Pipe
=============================================================================
