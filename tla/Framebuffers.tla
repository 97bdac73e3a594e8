---------------------------- MODULE Framebuffers ----------------------------
(***************************************************************************)
(* Framebuffers in memory, and the pointer arithmetic that all backends    *)
(* rely on.                                                                *)
(*                                                                         *)
(* A framebuffer exposes an ordered sequence of segments, each to be       *)
(* streamed a number of times.  A swap moves every pointer into one        *)
(* framebuffer by the distance to another, computed in signed machine      *)
(* words that may wrap.  Addresses are therefore integers here, of the     *)
(* width AddressSpace = 2 * Half.                                          *)
(***************************************************************************)
EXTENDS Integers, Capacity, TLAPS

CONSTANTS
  Buffers,        \* the framebuffers, all of one type FB
  Base,           \* the address of each framebuffer
  Half,           \* half the number of addresses (2^31 on the hardware)
  SegmentCount,   \* FB::bcm_segment_count()
  Offset,         \* offset of each segment in a framebuffer, in bytes
  Length,         \* length of each segment, in bytes
  Reps            \* repetitions of each segment in a frame

AddressSpace == 2 * Half
Address == 0 .. AddressSpace - 1
Null == 0
Segments == 0 .. SegmentCount - 1

(***************************************************************************)
(* Machine arithmetic of the release profile.  The arguments are already   *)
(* in range, so that one correction by AddressSpace is the whole           *)
(* reduction modulo the width.                                             *)
(***************************************************************************)
Wrap(a) ==
  IF a < 0 THEN a + AddressSpace ELSE IF a >= AddressSpace THEN a - AddressSpace ELSE a

AsIsize(a) == IF a >= Half THEN a - AddressSpace ELSE a

IsizeSub(x, y) ==
  LET d == x - y
  IN  IF d < -Half THEN d + AddressSpace ELSE IF d >= Half THEN d - AddressSpace ELSE d

\* new_fb_ptr as isize - current_fb_ptr as isize
PointerDelta(new, current) == IsizeSub(AsIsize(new), AsIsize(current))

\* Faulty variant: ptr.byte_offset(delta), which must stay inside one object.
ByteOffset(ptr, delta) == ptr + delta

\* ptr.wrapping_byte_offset(delta)
WrappingByteOffset(ptr, delta) == Wrap(ptr + delta)

\* &mut *ptr gives whoever holds it the framebuffer at that address.
BuffersAt(ptr) == {b \in Buffers : Base[b] = ptr}

\* FrameBuffer::bcm_segment(i), of framebuffer b
SegmentPtr(b, i) == Wrap(Base[b] + Offset[i])
BcmSegment(b, i) == [ptr |-> SegmentPtr(b, i), len |-> Length[i], reps |-> Reps[i]]

(***************************************************************************)
(* What the driver relies on: the assertions of segments_from_fb_into and  *)
(* a FrameBuffer whose segments lie inside its own memory, which no two    *)
(* framebuffers share and which the null pointer does not point into.      *)
(***************************************************************************)
ASSUME LayoutAssumption ==
  /\ Half \in Nat \ {0}
  /\ SegmentCount \in 1 .. MaxSegments
  /\ Base \in [Buffers -> Address \ {Null}]
  /\ Offset \in [Segments -> Address]
  /\ Length \in [Segments -> Nat \ {0}]
  /\ Reps \in [Segments -> Nat \ {0}]
  /\ \A b \in Buffers : \A i \in Segments : SegmentPtr(b, i) # Null

ASSUME DisjointAssumption ==
  \A b, c \in Buffers : b # c =>
    /\ Base[b] # Base[c]
    /\ \A i, j \in Segments : SegmentPtr(b, i) # SegmentPtr(c, j)

------------------------------------------------------------------------------
(***************************************************************************)
(* Facts about the pointer arithmetic, for every memory, every placement   *)
(* of the framebuffers in it and every segment layout.                     *)
(***************************************************************************)
\* Two machine words have a signed distance that is a machine word too, even
\* where the subtraction of the two pointers overflows.
LEMMA PointerDeltaType ==
  ASSUME NEW x \in Address, NEW y \in Address
  PROVE  PointerDelta(x, y) \in -Half .. Half - 1
BY LayoutAssumption DEF PointerDelta, IsizeSub, AsIsize, Address, AddressSpace

\* Segments have addresses.
LEMMA SegmentPtrType ==
  ASSUME NEW b \in Buffers, NEW i \in Segments
  PROVE  SegmentPtr(b, i) \in Address
<1>1. Base[b] \in Address /\ Offset[i] \in Address
  BY LayoutAssumption
<1> QED
  BY <1>1, LayoutAssumption DEF SegmentPtr, Wrap, Address, AddressSpace

\* Shifting an address by a distance gives an address.
LEMMA OffsetType ==
  ASSUME NEW p \in Address, NEW d \in -Half .. Half - 1
  PROVE  WrappingByteOffset(p, d) \in Address
BY LayoutAssumption DEF WrappingByteOffset, Wrap, Address, AddressSpace

\* The pointer-delta technique of bcm.rs:8-11: shifting a segment of
\* framebuffer b by the distance from b to c gives the same segment of c,
\* wherever in memory the two lie and whichever operation wraps.
THEOREM DeltaReaches ==
  ASSUME NEW b \in Buffers, NEW c \in Buffers, NEW i \in Segments
  PROVE  WrappingByteOffset(SegmentPtr(b, i), PointerDelta(Base[c], Base[b])) = SegmentPtr(c, i)
<1>1. Base[b] \in Address /\ Base[c] \in Address /\ Offset[i] \in Address
  BY LayoutAssumption
<1> DEFINE d == PointerDelta(Base[c], Base[b])
<1>2. d \in Int /\ d \in {Base[c] - Base[b], Base[c] - Base[b] + AddressSpace,
                          Base[c] - Base[b] - AddressSpace}
  BY <1>1, LayoutAssumption DEF PointerDelta, IsizeSub, AsIsize, Address, AddressSpace
<1>3. d \in -Half .. Half - 1
  BY <1>1, PointerDeltaType
<1> QED
  BY <1>1, <1>2, <1>3, LayoutAssumption
  DEF WrappingByteOffset, SegmentPtr, Wrap, Address, AddressSpace

\* A framebuffer is where its pointer points, and no other is.
LEMMA BaseInjective ==
  /\ \A b \in Buffers : Base[b] \in Address /\ Base[b] # Null
  /\ \A b, c \in Buffers : Base[b] = Base[c] => b = c
BY LayoutAssumption, DisjointAssumption

LEMMA BuffersAtBase ==
  ASSUME NEW b \in Buffers
  PROVE  BuffersAt(Base[b]) = {b}
BY BaseInjective DEF BuffersAt
==============================================================================
