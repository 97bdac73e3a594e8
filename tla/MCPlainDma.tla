------------------------------ MODULE MCPlainDma ------------------------------
(***************************************************************************)
(* Instances of PlainDma for TLC.  Twenty addresses, framebuffers at 4, 8, *)
(* 12 and 16, the last two negative as isize: the distance of a negative   *)
(* one from a positive one overflows the signed machine word.  A frame has *)
(* two segments, the first streamed once and the second twice; one cache   *)
(* slot stays empty.                                                       *)
(***************************************************************************)
EXTENDS PlainDma, TLC

CONSTANTS f1, f2, f3, f4

MCBase == f1 :> 4 @@ f2 :> 8 @@ f3 :> 12 @@ f4 :> 16
MCOffset == 0 :> 0 @@ 1 :> 2
MCLength == 0 :> 2 @@ 1 :> 2
MCReps == 0 :> 1 @@ 1 :> 2

===============================================================================
