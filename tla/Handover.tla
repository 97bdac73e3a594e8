------------------------------- MODULE Handover -------------------------------
(***************************************************************************)
(* What swap() promises of a scan that never stops to be redirected: the   *)
(* descriptors lead to a set of framebuffers, the channel streams one of   *)
(* them, and a framebuffer comes back to the application only once nothing *)
(* leads to it and it is not being streamed.  With a shortened wait the    *)
(* one framebuffer that is being streamed may come back too early.         *)
(*                                                                         *)
(* It states the documentation of swap() in src/src/gpdma.rs and           *)
(* src/src/gpdma_2d.rs and of the unsafe-swap-wait features in             *)
(* src/src/lib.rs as a state machine.                                      *)
(***************************************************************************)
CONSTANTS
  Buffers,  \* the framebuffers
  None,     \* no framebuffer
  Drained   \* TRUE: a framebuffer comes back only when it is not streamed

VARIABLES
  held,     \* the framebuffers the application may draw into
  linked,   \* the framebuffers to which a descriptor in memory leads
  streamed  \* the framebuffer that the channel is reading

Init ==
  /\ held = Buffers
  /\ linked = {}
  /\ streamed = None

\* The application gives a framebuffer away ...
Give(b) ==
  /\ b \in held
  /\ held' = held \ {b}
  /\ UNCHANGED <<linked, streamed>>

\* ... the first descriptor leads to it ...
Link(b) ==
  /\ b \notin held
  /\ linked' = linked \cup {b}
  /\ UNCHANGED <<held, streamed>>

\* ... and in the end all of them do.
Relinked(b) ==
  /\ b \notin held
  /\ linked' = {b}
  /\ UNCHANGED <<held, streamed>>

\* The channel takes a descriptor, one of whatever mixture it finds, or is
\* between two.
Stream ==
  /\ streamed' \in linked \cup {None}
  /\ UNCHANGED <<held, linked>>

\* swap() returns a framebuffer that nothing leads to any more.
Return(b) ==
  /\ b \notin held \cup linked
  /\ Drained => b # streamed
  /\ held' = held \cup {b}
  /\ UNCHANGED <<linked, streamed>>

Next ==
  \/ \E b \in Buffers : Give(b) \/ Link(b) \/ Relinked(b) \/ Return(b)
  \/ Stream

Spec == Init /\ [][Next]_<<held, linked, streamed>>
================================================================================
