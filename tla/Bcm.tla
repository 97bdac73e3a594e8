--------------------------------- MODULE Bcm ---------------------------------
(***************************************************************************)
(* The segment cache and the BCM state machine of src/src/bcm.rs: the      *)
(* interrupt handler of the plain DMA backend walks a cached copy of the   *)
(* segment sequence of the framebuffer on display.                         *)
(***************************************************************************)
EXTENDS Framebuffers

VARIABLES
  segments,         \* SegmentCache::segments
  count,            \* SegmentCache::count
  current_segment,  \* BcmState::current_segment
  current_rep       \* BcmState::current_rep

Slots == 0 .. MaxSegments - 1
EmptySegment == [ptr |-> Null, len |-> 0, reps |-> 0]

bcmVars == <<segments, count, current_segment, current_rep>>

BcmTypeOK ==
  /\ segments \in [Slots -> [ptr : Address, len : Nat, reps : Nat]]
  /\ count \in 0 .. MaxSegments
  /\ current_segment \in Slots
  /\ current_rep \in Nat

\* BcmState::new()
BcmInit ==
  /\ segments = [k \in Slots |-> EmptySegment]
  /\ count = 0
  /\ current_segment = 0
  /\ current_rep = 0

(***************************************************************************)
(* BcmState::load on the state BcmState::new() has just made: init_state   *)
(* installs a fresh one before start_first_transfer loads it.              *)
(***************************************************************************)
Load(b) ==
  /\ segments' = [k \in Slots |-> IF k < SegmentCount THEN BcmSegment(b, k) ELSE EmptySegment]
  /\ count' = SegmentCount
  /\ current_segment' = 0
  /\ current_rep' = 0

\* The current segment has been streamed its last time.
RepsDone == current_rep + 1 >= segments[current_segment].reps

\* Faulty variant: `>` for `>=`, one segment too far.
FrameBoundaryLate == RepsDone /\ current_segment + 1 > count

\* BcmState::advance returns true: the frame is complete.
FrameBoundary == RepsDone /\ current_segment + 1 >= count

\* Faulty variant: a repetition is not counted.
AdvanceForgets ==
  /\ current_rep' = IF RepsDone THEN 0 ELSE current_rep
  /\ current_segment' =
       IF FrameBoundary THEN 0
       ELSE IF RepsDone THEN current_segment + 1 ELSE current_segment

\* BcmState::advance
Advance ==
  /\ current_rep' = IF RepsDone THEN 0 ELSE current_rep + 1
  /\ current_segment' =
       IF FrameBoundary THEN 0
       ELSE IF RepsDone THEN current_segment + 1 ELSE current_segment

\* Faulty variant: the last segment of the frame is left behind.
ApplyDeltaShort(delta) ==
  segments' = [k \in Slots |->
                 IF k + 1 < count
                 THEN [segments[k] EXCEPT !.ptr = WrappingByteOffset(@, delta)]
                 ELSE segments[k]]

\* SegmentCache::apply_delta, on the first `count` entries only
ApplyDelta(delta) ==
  segments' = [k \in Slots |->
                 IF k < count
                 THEN [segments[k] EXCEPT !.ptr = WrappingByteOffset(@, delta)]
                 ELSE segments[k]]
==============================================================================
