------------------------------- MODULE GpdmaWalk -------------------------------
(***************************************************************************)
(* A chain that one of the two builders has made and the GPDMA channel     *)
(* that runs on it, beside the walk of the plain DMA backend through the   *)
(* same segments (src/src/bcm.rs): block by block, and round after round,  *)
(* the two are to stream the same.                                         *)
(*                                                                         *)
(* A segment without repetitions sets them apart: the linear chain has no  *)
(* descriptor for it, the 2D builder refuses it, but the plain backend     *)
(* streams it once.  The channel is then compared with the blocks before   *)
(* and after that one.                                                     *)
(***************************************************************************)
EXTENDS GpdmaChain

CONSTANTS
  Layouts,   \* the sequences of segments that framebuffers expose
  Tables     \* the addresses at which the descriptor table may lie

\* Some segment is streamed at all, and a segment holds whole words: the
\* debug_assert! on len.is_multiple_of(2).
ASSUME WalkAssumption ==
  /\ Tables \subseteq Nat
  /\ \A s \in Layouts :
       /\ s \in Seq([ptr : Nat, len : Nat, reps : Nat])
       /\ \E i \in DOMAIN s : s[i].reps > 0
       /\ \A i \in DOMAIN s : WordSize = "TwoBytes" => s[i].len % 2 = 0

VARIABLES
  backend,  \* which of the two builders is called
  segs,     \* the segments of the framebuffer
  table,    \* the address of the descriptor table
  phase,    \* is the chain unbuilt, refused or running
  items,    \* the descriptors
  at,       \* the channel: the address of its descriptor
  again,    \* the channel: the repetition of its block
  segment,  \* the plain backend: its segment
  rep       \* the plain backend: the repetition of it

inputs == <<backend, segs, table>>
vars == <<inputs, phase, items, at, again, segment, rep>>

Backends == {"linear", "2D"}

ItemSize == IF backend = "linear" THEN LinearItemSize ELSE TwoDItemSize

Fits == IF backend = "linear" THEN LinearFits(segs, table) ELSE TwoDFits(segs, table)

Items == IF backend = "linear" THEN LinearItems(segs, table) ELSE TwoDItems(segs, table)

\* The segments that have repetitions.
Shown == {i \in DOMAIN segs : segs[i].reps > 0}

-------------------------------------------------------------------------------
\* build_chain of either backend, before the channel is started on item 1, and
\* BcmState::load
Build ==
  /\ phase = "unbuilt"
  /\ Fits
  /\ items' = Items
  /\ at' = table
  /\ again' = 0
  /\ segment' = 1
  /\ rep' = 0
  /\ phase' = "running"
  /\ UNCHANGED inputs

\* An assertion of the builder fails.
Panic ==
  /\ phase = "unbuilt"
  /\ ~Fits
  /\ phase' = "panic"
  /\ UNCHANGED <<inputs, items, at, again, segment, rep>>

RepsDone == rep + 1 >= segs[segment].reps

\* BcmState::advance returns true.
FrameBoundary == RepsDone /\ segment + 1 > Len(segs)

\* BcmState::advance, which streams a segment without repetitions once
Advance ==
  /\ rep' = IF RepsDone THEN 0 ELSE rep + 1
  /\ segment' = IF FrameBoundary THEN 1 ELSE IF RepsDone THEN segment + 1 ELSE segment

\* The channel repeats the block of descriptor k, or follows its link.
ChannelAdvances(k) ==
  LET repeats == again < items[k].repeat
  IN  /\ at = ItemAddress(table, ItemSize, k)
      /\ at' = IF repeats THEN at ELSE LinkTarget(table, items[k])
      /\ again' = IF repeats THEN again + 1 ELSE 0

\* Both have streamed a block.
NextBlock ==
  /\ phase = "running"
  /\ segment \in Shown
  /\ Advance
  /\ \E k \in DOMAIN items : ChannelAdvances(k)
  /\ UNCHANGED <<inputs, phase, items>>

\* The plain backend has streamed a block that the channel has no item for.
ExtraBlock ==
  /\ phase = "running"
  /\ segment \notin Shown
  /\ Advance
  /\ UNCHANGED <<inputs, phase, items, at, again>>

Init ==
  /\ backend \in Backends
  /\ segs \in Layouts
  /\ table \in Tables
  /\ phase = "unbuilt"
  /\ items = <<>>
  /\ at = 0
  /\ again = 0
  /\ segment = 0
  /\ rep = 0

Next == Build \/ Panic \/ NextBlock \/ ExtraBlock

Spec == Init /\ [][Next]_vars

-------------------------------------------------------------------------------
(***************************************************************************)
(* Properties.                                                             *)
(***************************************************************************)
\* A chain that has been built streams, block after block, round after round
\* and whatever the table's place, what the plain DMA backend streams of the
\* segments that have repetitions: in the linear chain the duplicated
\* descriptors are the BCM weights (gpdma.rs:3-21), in the 2D chain the
\* repeated blocks are, for "identical BCM timing" (gpdma_2d.rs:10-13).  Where
\* every segment has repetitions it is the same frame.
StreamsTheFrame ==
  phase = "running" /\ segment \in Shown =>
    \E k \in DOMAIN items :
      /\ at = ItemAddress(table, ItemSize, k)
      /\ BlockStart(items[k], again) = segs[segment].ptr
      /\ items[k].words = Words(segs[segment].len)

\* The channel raises one interrupt per frame, at its end: swap() counts them
\* (gpdma.rs:18-20).  That is where the plain backend's advance() returns true
\* or, after a last segment without repetitions, where nothing but such
\* segments is left before it does.
OneInterruptPerFrame ==
  phase = "running" /\ segment \in Shown =>
    \A k \in DOMAIN items : at = ItemAddress(table, ItemSize, k) =>
      (items[k].tc /\ again = items[k].repeat
         <=> RepsDone /\ \A i \in segment + 1 .. Len(segs) : i \notin Shown)

\* The builders refuse no table that a channel could walk: where nothing else
\* is wrong, they panic only if some descriptor is out of a link's reach.
RefusesOnlyUnreachable ==
  LET n == IF backend = "linear" THEN TotalReps(segs) ELSE Len(segs)
      Reachable == \A k \in 1 .. n : \A byte \in 0 .. ItemSize - 1 :
        (ItemAddress(table, ItemSize, k) + byte) \div Region = table \div Region
  IN  phase = "panic" =>
        \/ Len(segs) > MaxSegments
        \/ backend = "linear" /\ n > MaxDescriptors
        \/ backend = "2D" /\ \E i \in DOMAIN segs : segs[i].reps \notin 1 .. MaxReps
        \/ ~Reachable

-------------------------------------------------------------------------------
(***************************************************************************)
(* The inductive invariant: where the channel is in its chain follows from *)
(* where the plain backend is in its segments.                             *)
(***************************************************************************)
\* The blocks of this frame that both have streamed.
Streamed == TotalUpTo(segs)[segment - 1] + rep

\* The item of the block of the plain backend, or of the next one for which
\* there is an item.
ItemOfBlock ==
  IF backend # "linear" THEN segment
  ELSE IF Streamed = TotalReps(segs) THEN 1 ELSE Streamed + 1

InStep ==
  /\ Fits
  /\ items = Items
  /\ segment \in DOMAIN segs
  /\ rep \in Nat /\ (rep = 0 \/ rep < segs[segment].reps)
  /\ at = ItemAddress(table, ItemSize, ItemOfBlock)
  /\ again = IF backend = "linear" THEN 0 ELSE rep

IndInv ==
  /\ backend \in Backends /\ segs \in Layouts /\ table \in Tables
  /\ phase \in {"unbuilt", "panic", "running"}
  /\ phase = "panic" => ~Fits
  /\ phase = "running" => InStep
================================================================================
