-------------------------------- MODULE MCMux --------------------------------
(***************************************************************************)
(* Instance of the two multiplexers for TLC.                               *)
(***************************************************************************)
EXTENDS SocketMultiplexerWin32
CONSTANTS fast, slow

MCDelay == (fast :> 0) @@ (slow :> 1)
MCPeriod == (fast :> 1) @@ (slow :> 2)
=============================================================================
