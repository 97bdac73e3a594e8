----------------------------- MODULE DoubleBuffer -----------------------------
(***************************************************************************)
(* What a HUB75 driver promises of Hub75::swap() and of the picture, said  *)
(* without pointers, interrupts or futures:                                *)
(*                                                                         *)
(*   - the panel is fed the segments of a frame in order, each as often as *)
(*     its BCM weight asks, and then the next frame;                       *)
(*   - a frame is read from one framebuffer from its first segment to its  *)
(*     last: the queued framebuffer takes over at a frame boundary;        *)
(*   - the framebuffer handed back to the application is the one that the  *)
(*     last takeover displaced, and nothing that is displayed or queued is *)
(*     ever in the application's hands.                                    *)
(*                                                                         *)
(* It states the crate documentation of src/src/lib.rs and the swap()      *)
(* documentation of src/src/dma.rs as a state machine.                     *)
(***************************************************************************)
EXTENDS Integers

CONSTANTS
  Buffers,       \* the framebuffers
  SegmentCount,  \* segments in a frame
  Reps,          \* how often each segment is streamed in a frame
  None           \* no framebuffer

VARIABLES
  held,     \* the framebuffers the application may draw into
  shown,    \* what the panel is being fed: framebuffer, segment, repetition
  queued,   \* the framebuffer that takes over at the next frame boundary
  displaced \* the framebuffer the last takeover freed, until it is returned

dbVars == <<held, shown, queued, displaced>>

Positions == [fb : Buffers \cup {None}, seg : 0 .. SegmentCount - 1, rep : Nat]

TypeOK ==
  /\ held \subseteq Buffers
  /\ shown \in Positions
  /\ queued \in Buffers \cup {None}
  /\ displaced \in Buffers \cup {None}

Init ==
  /\ held = Buffers
  /\ shown = [fb |-> None, seg |-> 0, rep |-> 0]
  /\ queued = None
  /\ displaced = None

LastRep == shown.rep + 1 = Reps[shown.seg]
LastOfFrame == LastRep /\ shown.seg + 1 = SegmentCount

\* The driver starts, or starts anew, with framebuffer b on the panel.
Start(b) ==
  /\ b \in held
  /\ held' = held \ {b}
  /\ shown' = [fb |-> b, seg |-> 0, rep |-> 0]
  /\ queued' = None
  /\ displaced' = None

\* The application gives a framebuffer away ...
Give(b) ==
  /\ b \in held
  /\ held' = held \ {b}
  /\ UNCHANGED <<shown, queued, displaced>>

\* ... and it is queued, in place of one that a cancelled swap left there.
Queue(b) ==
  /\ b \in Buffers \ held
  /\ b # shown.fb
  /\ queued' = b
  /\ displaced' = None
  /\ UNCHANGED <<held, shown>>

\* One repetition of one segment has been fed; the frame goes on.
FeedNext ==
  /\ shown.fb # None
  /\ ~LastOfFrame
  /\ shown' = [fb  |-> shown.fb,
               seg |-> IF LastRep THEN shown.seg + 1 ELSE shown.seg,
               rep |-> IF LastRep THEN 0 ELSE shown.rep + 1]
  /\ UNCHANGED <<held, queued, displaced>>

\* The frame is complete and nothing is queued: the same frame again.
FeedSameFrame ==
  /\ shown.fb # None
  /\ LastOfFrame
  /\ queued = None
  /\ shown' = [fb |-> shown.fb, seg |-> 0, rep |-> 0]
  /\ UNCHANGED <<held, queued, displaced>>

\* The frame is complete: the queued framebuffer takes over.  Nobody waits
\* for the one it displaces if the swap has been cancelled.
TakeOver ==
  /\ LastOfFrame
  /\ queued # None
  /\ shown' = [fb |-> queued, seg |-> 0, rep |-> 0]
  /\ queued' = None
  /\ displaced' \in {shown.fb, None}
  /\ UNCHANGED held

\* swap() returns the displaced framebuffer to the application.
Return ==
  /\ displaced # None
  /\ held' = held \cup {displaced}
  /\ displaced' = None
  /\ UNCHANGED <<shown, queued>>

\* A swap is cancelled after the takeover, before it could return.
Abandon ==
  /\ displaced # None
  /\ displaced' = None
  /\ UNCHANGED <<held, shown, queued>>

Next ==
  \/ \E b \in Buffers : Start(b) \/ Give(b) \/ Queue(b)
  \/ FeedNext
  \/ FeedSameFrame
  \/ TakeOver
  \/ Return
  \/ Abandon

Spec == Init /\ [][Next]_dbVars
-------------------------------------------------------------------------------
\* The application never holds a framebuffer that is displayed, about to be
\* displayed, or promised back to it by a swap that has not returned yet.
Exclusive == {shown.fb, queued, displaced} \cap held = {}
===============================================================================
