------------------------------ MODULE MCSurface ------------------------------
(***************************************************************************)
(* Instance of SurfaceTools for TLC.                                       *)
(***************************************************************************)
EXTENDS SurfaceTools
MCVideoReg == <<"1c", "1d">>
MCIrReg == <<"08">>

\* No row is lost or shown twice, in an image whose height is a multiple of four.
ASSUME RowsKept == \A n \in 1 .. 8 :
  /\ Range(Deinterlace(4 * n)) = 0 .. 8 * n - 1
  /\ \A r \in 1 .. 8 * n - 1 : r # 4 * n => Deinterlace(4 * n)[r - 1] < Deinterlace(4 * n)[r]
=============================================================================
