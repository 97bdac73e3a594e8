------------------------------ MODULE GpdmaChain ------------------------------
(***************************************************************************)
(* The descriptor chains of the two GPDMA backends: build_item_chain of    *)
(* src/src/gpdma.rs, one LinearItem per repetition of a segment, and       *)
(* build_item_chain_2d of src/src/gpdma_2d.rs, one TwoDItem per segment    *)
(* that the hardware repeats.                                              *)
(*                                                                         *)
(* A link holds only the low half of the address of the next descriptor;   *)
(* the channel takes the other half from its base register.  A region is   *)
(* what one value of that register reaches (64 KB on the hardware).        *)
(*                                                                         *)
(* The builders are operators on the sequence of segments, each a record   *)
(* [ptr, len, reps], and the address of the descriptor table.  Sequences   *)
(* count from 1: item k here is items[k - 1] in the code.                  *)
(***************************************************************************)
EXTENDS Integers, Sequences, Capacity

CONSTANTS
  WordSize,        \* P::DMA_WORD_SIZE, "OneByte" or "TwoBytes"
  MaxDescriptors,  \* MAX_DESCRIPTORS of the linear table
  MaxReps,         \* what block_repeat_count can express (2048)
  LinearItemSize,  \* size_of::<LinearItem>()
  TwoDItemSize,    \* size_of::<TwoDItem>()
  Region           \* bytes within reach of a link

ASSUME ChainAssumption ==
  /\ WordSize \in {"OneByte", "TwoBytes"}
  /\ {MaxDescriptors, MaxReps, LinearItemSize, TwoDItemSize, Region} \subseteq Nat \ {0}

WordBytes == IF WordSize = "TwoBytes" THEN 2 ELSE 1

\* The number of DMA words in `len` bytes.
Words(len) == len \div WordBytes

\* The sum of the repetition counts of the first i segments.
TotalUpTo(segs) ==
  LET total[i \in 0 .. Len(segs)] == IF i = 0 THEN 0 ELSE total[i - 1] + segs[i].reps
  IN  total

\* descriptor_count, the sum of all of them
TotalReps(segs) == TotalUpTo(segs)[Len(segs)]

ItemAddress(table, size, k) == table + size * (k - 1)

\* Faulty variant: the end of the table is taken one byte too far.
InOneRegionTight(table, size, n) == table \div Region = (table + size * n) \div Region

\* The assert_eq! on base >> 16 and end >> 16.
InOneRegion(table, size, n) == table \div Region = (table + size * n - 1) \div Region

\* item_offset
ItemOffset(table, size, k) == ItemAddress(table, size, k) % Region

\* Faulty variant: is_last one item too early.
IsLastEarly(k, n) == k + 1 = n

\* is_last: the item that raises the interrupt and closes the circle.
IsLast(k, n) == k = n

\* new_write and link_to, for item k of n
MkItem(seg, repeat, back, table, size, k, n) ==
  [sar    |-> seg.ptr,
   words  |-> Words(seg.len),
   repeat |-> repeat,
   back   |-> back,
   tc     |-> IsLast(k, n),
   link   |-> ItemOffset(table, size, IF IsLast(k, n) THEN 1 ELSE k + 1)]

-------------------------------------------------------------------------------
\* The segment of item k, in a loop over the segments and the repetitions of
\* each.
SegmentOfItem(segs, k) ==
  CHOOSE i \in DOMAIN segs : TotalUpTo(segs)[i - 1] < k /\ k <= TotalUpTo(segs)[i]

\* The assertions of build_item_chain; the sum over no segments is not taken.
LinearFits(segs, table) ==
  /\ Len(segs) \in 1 .. MaxSegments
  /\ TotalReps(segs) <= MaxDescriptors
  /\ InOneRegion(table, LinearItemSize, TotalReps(segs))

\* build_item_chain, where it does not panic
LinearItems(segs, table) ==
  [k \in 1 .. TotalReps(segs) |->
     MkItem(segs[SegmentOfItem(segs, k)], 0, 0, table, LinearItemSize, k, TotalReps(segs))]

\* The assertions of build_item_chain_2d.
TwoDFits(segs, table) ==
  /\ Len(segs) \in 1 .. MaxSegments
  /\ InOneRegion(table, TwoDItemSize, Len(segs))
  /\ \A i \in DOMAIN segs : segs[i].reps \in 1 .. MaxReps

\* Faulty variant: block_repeat_count is reps, not reps - 1.
TwoDItemsOnceMore(segs, table) ==
  [k \in DOMAIN segs |->
     MkItem(segs[k], segs[k].reps, -segs[k].len, table, TwoDItemSize, k, Len(segs))]

\* Faulty variant: the next repetition goes on where the last one ended.
TwoDItemsRunOn(segs, table) ==
  [k \in DOMAIN segs |->
     MkItem(segs[k], segs[k].reps - 1, 0, table, TwoDItemSize, k, Len(segs))]

\* build_item_chain_2d, where it does not panic
TwoDItems(segs, table) ==
  [k \in DOMAIN segs |->
     MkItem(segs[k], segs[k].reps - 1, -segs[k].len, table, TwoDItemSize, k, Len(segs))]

-------------------------------------------------------------------------------
(***************************************************************************)
(* What a GPDMA channel makes of a descriptor (external): the address that *)
(* a link leads to, and where each repetition of a block starts.           *)
(***************************************************************************)
LinkTarget(table, item) == (table \div Region) * Region + item.link

BlockStart(item, r) == item.sar + r * (item.words * WordBytes + item.back)
===============================================================================
