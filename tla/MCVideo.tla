------------------------------- MODULE MCVideo -------------------------------
(***************************************************************************)
(* Instances of Sur40Video for TLC.  Lengths keep the order HdrLen <       *)
(* TailLen < PktLen of the device; an image is a few packets long.         *)
(***************************************************************************)
EXTENDS Sur40Video, TLC

\* Buffers are interchangeable: no action names one.
BufSymmetry == Permutations(Buf)
=============================================================================
