------------------------------- MODULE MCGpdma -------------------------------
(***************************************************************************)
(* Instances of Gpdma for TLC, on the memory of MCPlainDma: twenty         *)
(* addresses, framebuffers at 4, 8, 12 and 16, deltas that overflow the    *)
(* signed machine word, two segments streamed once and twice.  The chain   *)
(* has three linear descriptors, or two 2D ones of which one repeats.      *)
(***************************************************************************)
EXTENDS Gpdma, TLC

CONSTANTS f1, f2, f3, f4

MCBase == [b \in Buffers |-> (f1 :> 4 @@ f2 :> 8 @@ f3 :> 12 @@ f4 :> 16)[b]]
MCOffset == 0 :> 0 @@ 1 :> 2
MCLength == 0 :> 2 @@ 1 :> 2
MCReps == 0 :> 1 @@ 1 :> 2

==============================================================================
