----------------------------- MODULE MCDisplayTask -----------------------------
(***************************************************************************)
(* DisplayTask for TLC: the memory of MCPlainDma with two framebuffers,    *)
(* one of which is negative as isize; an interval of one tick; frame_count *)
(* wraps after three frames.                                               *)
(***************************************************************************)
EXTENDS DisplayTask, TLC

CONSTANTS f1, f2

MCBase == f1 :> 4 @@ f2 :> 16
MCOffset == 0 :> 0 @@ 1 :> 2
MCLength == 0 :> 2 @@ 1 :> 2
MCReps == 0 :> 1 @@ 1 :> 2
================================================================================
