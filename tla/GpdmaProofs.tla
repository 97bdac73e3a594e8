------------------------------ MODULE GpdmaProofs ------------------------------
(***************************************************************************)
(* Proofs about the GPDMA backends, linear and 2D, for every set of        *)
(* framebuffers and placement of them in memory, every segment sequence,   *)
(* item size, region and place of the descriptor table, and with or        *)
(* without repeated init().                                                *)
(***************************************************************************)
EXTENDS Gpdma, GpdmaChainProofs

(***************************************************************************)
(* The chain of a framebuffer, whichever backend builds it: ItemCount      *)
(* items, item k streaming segment SegmentAt(k).                           *)
(***************************************************************************)
AnyBuffer == CHOOSE b \in Buffers : TRUE

ItemCount == IF TwoD THEN SegmentCount ELSE TotalReps(SegmentsOf(AnyBuffer))

SegmentAt(k) == IF TwoD THEN k - 1 ELSE SegmentOfItem(SegmentsOf(AnyBuffer), k) - 1

RepeatAt(k) == IF TwoD THEN Reps[SegmentAt(k)] - 1 ELSE 0

BackAt(k) == IF TwoD THEN -Length[SegmentAt(k)] ELSE 0

ItemFor(b, k) ==
  MkItem(BcmSegment(b, SegmentAt(k)), RepeatAt(k), BackAt(k), TableBase, ItemSize, k, ItemCount)

NextItem(k) == IF k = ItemCount THEN 1 ELSE k + 1

AddressOf(k) == ItemAddress(TableBase, ItemSize, k)

LEMMA SegmentsOfType ==
  ASSUME NEW b \in Buffers
  PROVE  /\ SegmentsOf(b) \in SegmentLists
         /\ Len(SegmentsOf(b)) = SegmentCount
         /\ \A i \in 1 .. SegmentCount : SegmentsOf(b)[i] = BcmSegment(b, i - 1)
<1>1. SegmentCount \in Nat
  BY LayoutAssumption
<1>2. ASSUME NEW i \in 1 .. SegmentCount PROVE BcmSegment(b, i - 1) \in Segment
  <2>1. i - 1 \in Segments
    BY <1>1 DEF Segments
  <2>2. SegmentPtr(b, i - 1) \in Nat
    BY <2>1, SegmentPtrType, LayoutAssumption DEF Address, AddressSpace
  <2> QED
    BY <2>1, <2>2, LayoutAssumption DEF BcmSegment, Segment
<1>3. SegmentsOf(b) \in [1 .. SegmentCount -> Segment]
  BY <1>2 DEF SegmentsOf
<1> QED
  BY <1>1, <1>3 DEF SegmentsOf, SegmentLists

LEMMA AnyBufferExists == AnyBuffer \in Buffers
BY GpdmaAssumption DEF AnyBuffer

\* Sums and segments of the items do not depend on the framebuffer.
LEMMA SameLayout ==
  ASSUME NEW b \in Buffers
  PROVE  /\ TotalReps(SegmentsOf(b)) = TotalReps(SegmentsOf(AnyBuffer))
         /\ \A k : SegmentOfItem(SegmentsOf(b), k) = SegmentOfItem(SegmentsOf(AnyBuffer), k)
<1>1. ASSUME NEW i \in 1 .. SegmentCount
      PROVE  SegmentsOf(b)[i].reps = SegmentsOf(AnyBuffer)[i].reps
  <2>1. SegmentsOf(b)[i] = BcmSegment(b, i - 1)
    BY SegmentsOfType
  <2>2. SegmentsOf(AnyBuffer)[i] = BcmSegment(AnyBuffer, i - 1)
    BY AnyBufferExists, SegmentsOfType
  <2> QED
    BY <2>1, <2>2 DEF BcmSegment
<1> QED
  BY <1>1, AnyBufferExists, SegmentsOfType, SameTotals

LEMMA ItemCountType == ItemCount \in Nat \ {0}
<1>1. CASE TwoD
  BY <1>1, LayoutAssumption DEF ItemCount
<1>2. CASE ~TwoD
  <2>1. SegmentCount \in Nat \ {0} /\ 0 \in Segments /\ Reps[0] > 0
    BY LayoutAssumption, CapacityAssumption DEF Segments
  <2>2. SegmentsOf(AnyBuffer)[1] = BcmSegment(AnyBuffer, 0)
    BY <2>1, AnyBufferExists, SegmentsOfType
  <2>3. 1 \in 1 .. Len(SegmentsOf(AnyBuffer))
    BY <2>1, AnyBufferExists, SegmentsOfType
  <2>4. SegmentsOf(AnyBuffer)[1].reps > 0
    BY <2>1, <2>2 DEF BcmSegment
  <2> QED
    BY <1>2, <2>3, <2>4, AnyBufferExists, SegmentsOfType, TotalRepsPositive, TotalRepsType
    DEF ItemCount
<1> QED
  BY <1>1, <1>2

LEMMA SegmentAtType == \A k \in 1 .. ItemCount : SegmentAt(k) \in Segments
<1>1. CASE TwoD
  BY <1>1, LayoutAssumption DEF ItemCount, SegmentAt, Segments
<1>2. CASE ~TwoD
  BY <1>2, AnyBufferExists, SegmentsOfType, ItemLocated, LayoutAssumption
  DEF ItemCount, SegmentAt, Segments
<1> QED
  BY <1>1, <1>2

\* What init() builds for a framebuffer.
LEMMA ChainShape ==
  ASSUME NEW b \in Buffers
  PROVE  BuildItemChain(b) = [k \in 1 .. ItemCount |-> ItemFor(b, k)]
<1>1. CASE TwoD
  <2>1. DOMAIN SegmentsOf(b) = 1 .. SegmentCount /\ SegmentCount \in Nat
    BY SegmentsOfType, SegmentListType, LayoutAssumption
  <2>2. ASSUME NEW k \in 1 .. SegmentCount
        PROVE  MkItem(SegmentsOf(b)[k], SegmentsOf(b)[k].reps - 1, -SegmentsOf(b)[k].len,
                      TableBase, TwoDItemSize, k, Len(SegmentsOf(b))) = ItemFor(b, k)
    <3>1. SegmentsOf(b)[k] = BcmSegment(b, k - 1) /\ Len(SegmentsOf(b)) = SegmentCount
      BY SegmentsOfType
    <3> QED
      BY <1>1, <3>1 DEF ItemFor, SegmentAt, RepeatAt, BackAt, BcmSegment, ItemSize, ItemCount
  <2> QED
    BY <1>1, <2>1, <2>2 DEF BuildItemChain, TwoDItems, ItemCount
<1>2. CASE ~TwoD
  <2>1. TotalReps(SegmentsOf(b)) = ItemCount
    BY <1>2, SameLayout DEF ItemCount
  <2>2. ASSUME NEW k \in 1 .. ItemCount
        PROVE  MkItem(SegmentsOf(b)[SegmentOfItem(SegmentsOf(b), k)], 0, 0,
                      TableBase, LinearItemSize, k, ItemCount) = ItemFor(b, k)
    <3>1. SegmentOfItem(SegmentsOf(b), k) \in 1 .. SegmentCount
      BY <2>1, SegmentsOfType, ItemLocated
    <3>2. SegmentsOf(b)[SegmentOfItem(SegmentsOf(b), k)] = BcmSegment(b, SegmentAt(k))
      BY <1>2, <3>1, SegmentsOfType, SameLayout DEF SegmentAt
    <3> QED
      BY <1>2, <3>2 DEF ItemFor, RepeatAt, BackAt, ItemSize
  <2> QED
    BY <1>2, <2>1, <2>2 DEF BuildItemChain, LinearItems
<1> QED
  BY <1>1, <1>2

-------------------------------------------------------------------------------
(***************************************************************************)
(* What an item of a chain is, streams and leads to.                       *)
(***************************************************************************)
LEMMA ItemSizeType == ItemSize \in Nat \ {0}
BY ChainAssumption DEF ItemSize

LEMMA ItemFields ==
  ASSUME NEW b \in Buffers, NEW k \in 1 .. ItemCount
  PROVE  /\ ItemFor(b, k).sar = SegmentPtr(b, SegmentAt(k))
         /\ ItemFor(b, k).words = Words(Length[SegmentAt(k)])
         /\ ItemFor(b, k).repeat = RepeatAt(k)
         /\ ItemFor(b, k).back = BackAt(k)
         /\ ItemFor(b, k).tc = (k = ItemCount)
         /\ ItemFor(b, k).link = ItemOffset(TableBase, ItemSize, NextItem(k))
BY DEF ItemFor, MkItem, BcmSegment, IsLast, NextItem

LEMMA NextItemType ==
  ASSUME NEW k \in 1 .. ItemCount
  PROVE  NextItem(k) \in 1 .. ItemCount
BY ItemCountType DEF NextItem

LEMMA RepeatAtType ==
  ASSUME NEW k \in 1 .. ItemCount
  PROVE  RepeatAt(k) \in Nat /\ BackAt(k) \in Int
<1>1. Reps[SegmentAt(k)] \in Nat \ {0} /\ Length[SegmentAt(k)] \in Nat
  BY SegmentAtType, LayoutAssumption
<1> QED
  BY <1>1 DEF RepeatAt, BackAt

LEMMA ItemForType ==
  ASSUME NEW b \in Buffers, NEW k \in 1 .. ItemCount
  PROVE  ItemFor(b, k) \in ItemType
<1>1. SegmentPtr(b, SegmentAt(k)) \in Address
  BY SegmentAtType, SegmentPtrType
<1>2. Words(Length[SegmentAt(k)]) \in Nat
  BY SegmentAtType, LayoutAssumption, WordsType
<1>3. RepeatAt(k) \in Nat /\ BackAt(k) \in Int
  BY RepeatAtType
<1>4. AddressOf(NextItem(k)) \in Nat
  BY NextItemType, ItemCountType, ItemSizeType, ItemIndex, GpdmaAssumption DEF AddressOf
<1>5. ItemOffset(TableBase, ItemSize, NextItem(k)) \in Nat
  <2>1. Region \in Nat \ {0}
    BY ChainAssumption
  <2>2. AddressOf(NextItem(k)) % Region \in 0 .. Region - 1
    BY <1>4, <2>1, DivMod
  <2> QED
    BY <2>1, <2>2 DEF ItemOffset, AddressOf
<1>6. IsLast(k, ItemCount) \in BOOLEAN
  BY DEF IsLast
<1> QED
  BY <1>1, <1>2, <1>3, <1>5, <1>6 DEF ItemFor, MkItem, BcmSegment, ItemType, NextItem, IsLast

\* Each repetition of a block starts where the segment does: in the 2D chain
\* the words of a block and the step back cancel out.
LEMMA BlocksStartAtSegment ==
  ASSUME NEW b \in Buffers, NEW k \in 1 .. ItemCount, NEW r \in 0 .. RepeatAt(k)
  PROVE  BlockStart(ItemFor(b, k), r) = SegmentPtr(b, SegmentAt(k))
<1> DEFINE i == SegmentAt(k)
<1>1. /\ i \in Segments /\ Length[i] \in Nat /\ SegmentPtr(b, i) \in Int
      /\ WordSize = "TwoBytes" => Length[i] % 2 = 0
  BY SegmentAtType, LayoutAssumption, GpdmaAssumption, SegmentPtrType
  DEF Address, AddressSpace
<1>2. Words(Length[i]) * WordBytes = Length[i]
  BY <1>1, WordsCoverBytes
<1>3. BlockStart(ItemFor(b, k), r)
        = SegmentPtr(b, i) + r * (Words(Length[i]) * WordBytes + BackAt(k))
  BY ItemFields DEF BlockStart
<1>4. CASE TwoD
  BY <1>1, <1>2, <1>3, <1>4 DEF BackAt, RepeatAt
<1>5. CASE ~TwoD
  <2>1. r = 0 /\ BackAt(k) = 0
    BY <1>5 DEF RepeatAt, BackAt
  <2> QED
    BY <1>1, <1>2, <1>3, <2>1
<1> QED
  BY <1>4, <1>5

\* The link of an item leads to the next one, that of the last to the first.
LEMMA LinksLead ==
  ASSUME NEW b \in Buffers, NEW k \in 1 .. ItemCount
  PROVE  LinkTarget(TableBase, ItemFor(b, k)) = AddressOf(NextItem(k))
<1>1. InOneRegion(TableBase, ItemSize, ItemCount)
  <2>1. CASE TwoD
    BY <2>1, SegmentsOfType, GpdmaAssumption DEF TwoDFits, ItemSize, ItemCount
  <2>2. CASE ~TwoD
    BY <2>2, SameLayout, GpdmaAssumption DEF LinearFits, ItemSize, ItemCount
  <2> QED
    BY <2>1, <2>2
<1>2. (TableBase \div Region) * Region + ItemOffset(TableBase, ItemSize, NextItem(k))
        = ItemAddress(TableBase, ItemSize, NextItem(k))
  BY <1>1, ItemSizeType, ItemCountType, NextItemType, LinkReaches, GpdmaAssumption
<1> QED
  BY <1>2, ItemFields DEF LinkTarget, AddressOf

\* The channel reads item k of the table at the address of item k.
LEMMA ItemAtAddress ==
  ASSUME NEW k \in Nat \ {0}
  PROVE  AddressOf(k) \in Nat /\ ItemAt(AddressOf(k)) = items[k]
BY ItemSizeType, ItemIndex, GpdmaAssumption DEF AddressOf, ItemAt

\* Only the source address of an item depends on the framebuffer.
LEMMA ItemRetargeted ==
  ASSUME NEW b \in Buffers, NEW c \in Buffers, NEW k \in 1 .. ItemCount
  PROVE  [ItemFor(b, k) EXCEPT !.sar = SegmentPtr(c, SegmentAt(k))] = ItemFor(c, k)
BY DEF ItemFor, MkItem, BcmSegment

\* An item tells of which framebuffer it is.
LEMMA ItemOwner ==
  ASSUME NEW b \in Buffers, NEW c \in Buffers, b # c, NEW i \in Segments, NEW j \in Segments
  PROVE  SegmentPtr(b, i) # SegmentPtr(c, j)
BY DisjointAssumption

LEMMA DeltaIsZeroOnlyAtHome ==
  ASSUME NEW b \in Buffers, NEW c \in Buffers, b # c
  PROVE  PointerDelta(Base[b], Base[c]) # 0
<1>1. Base[b] \in Address /\ Base[c] \in Address /\ Base[b] # Base[c]
  BY BaseInjective
<1> QED
  BY <1>1, LayoutAssumption DEF PointerDelta, IsizeSub, AsIsize, Address, AddressSpace

-------------------------------------------------------------------------------
(***************************************************************************)
(* The inductive invariant.                                                *)
(***************************************************************************)

\* The table has room for as many items as a chain has.
LEMMA TableShape ==
  ASSUME IndInv
  PROVE  /\ DOMAIN items = 1 .. ItemCount
         /\ Len(items) = ItemCount
         /\ items \in [1 .. ItemCount -> ItemType]
<1>1. DOMAIN items = 1 .. ItemCount
  BY AnyBufferExists, ChainShape DEF IndInv, TableInv
<1>2. items \in Seq(ItemType)
  BY DEF IndInv, TypeOK
<1>3. /\ DOMAIN items = 1 .. Len(items) /\ Len(items) \in Nat
      /\ items \in [1 .. Len(items) -> ItemType]
  BY <1>2, LenProperties
<1> QED
  BY <1>1, <1>3, ItemCountType

\* Item k of the chain of one framebuffer or another.
LEMMA ChainItem ==
  ASSUME NEW b \in Buffers, NEW k \in 1 .. ItemCount
  PROVE  BuildItemChain(b)[k] = ItemFor(b, k)
BY ChainShape

\* A table of that many items is a sequence of that length.
LEMMA TableType ==
  ASSUME NEW table \in [1 .. ItemCount -> ItemType]
  PROVE  table \in Seq(ItemType) /\ Len(table) = ItemCount
BY ItemCountType

LEMMA NewChannelType ==
  ASSUME NEW phase \in {"off", "load"}
  PROVE  /\ NewChannel(phase) \in [phase : {"off", "block", "load"}, next : Nat,
                                  item : ItemType \cup {None}, block : Nat, owes_tc : BOOLEAN]
         /\ NewChannel(phase).next = AddressOf(1)
         /\ NewChannel(phase).phase = phase
<1>1. TableBase + ItemSize * 0 = TableBase /\ TableBase \in Nat
  BY ItemSizeType, GpdmaAssumption
<1> QED
  BY <1>1 DEF NewChannel, AddressOf, ItemAddress

LEMMA InitIndInv == Init => IndInv
<1> SUFFICES ASSUME Init PROVE IndInv
  OBVIOUS
<1> USE DEF Init
<1>1. Null \in Address
  BY LayoutAssumption DEF Null, Address, AddressSpace
<1>2. ZeroedItem \in ItemType
  BY <1>1 DEF ZeroedItem, ItemType, Null
<1>3. items = [k \in 1 .. ItemCount |-> ZeroedItem]
  <2>1. AnyBuffer = CHOOSE b \in Buffers : TRUE
    BY DEF AnyBuffer
  <2>2. DOMAIN BuildItemChain(AnyBuffer) = 1 .. ItemCount
    BY AnyBufferExists, ChainShape
  <2> QED
    BY <2>1, <2>2
<1>4. items \in Seq(ItemType) /\ Len(items) = ItemCount
  BY <1>2, <1>3, TableType
<1>5. TypeOK
  <2>1. swap_waits \in 0 .. SwapWaitCount /\ frame_count \in 0 .. FrameCountSpan - 1
    BY GpdmaAssumption
  <2> QED
    BY <1>1, <1>4, <2>1, NewChannelType DEF TypeOK, Phases
<1>6. TableInv
  BY <1>3, ChainShape DEF TableInv
<1>7. channel.phase = "off"
  BY NewChannelType
<1>8. StartInv /\ ItemsFollowBuffer /\ ChannelInv /\ SwapInv /\ WaitInv
  BY <1>7 DEF StartInv, ItemsFollowBuffer, ChannelInv, SwapInv, WaitInv, Swapping, Waiting
<1>9. NoLostWakeup /\ StaleReadIsAwaited
  BY DEF NoLostWakeup, StaleReadIsAwaited, Waiting
<1> QED
  BY <1>5, <1>6, <1>8, <1>9 DEF IndInv

-------------------------------------------------------------------------------
\* The table while the driver runs, and while init() builds the first one.
LEMMA RunningTable ==
  ASSUME IndInv, initialised
  PROVE  \E b \in Buffers \ app, c \in Buffers \ app :
           /\ Base[b] = IF pc = "build" THEN Base[fut_fb] ELSE current_fb_ptr
           /\ Base[c] = IF pc = "patch" THEN old_ptr ELSE current_fb_ptr
           /\ \A k \in 1 .. ItemCount : items[k] = ItemFor(IF k > Written THEN c ELSE b, k)
<1>1. items \in [1 .. ItemCount -> ItemType]
  BY TableShape
<1>2. PICK b \in Buffers \ app, c \in Buffers \ app :
        /\ Base[b] = IF pc = "build" THEN Base[fut_fb] ELSE current_fb_ptr
        /\ Base[c] = IF pc = "patch" THEN old_ptr ELSE current_fb_ptr
        /\ \A k \in DOMAIN items : items[k] = BuildItemChain(IF k > Written THEN c ELSE b)[k]
  BY DEF IndInv, ItemsFollowBuffer
<1>3. ASSUME NEW k \in 1 .. ItemCount
      PROVE  items[k] = ItemFor(IF k > Written THEN c ELSE b, k)
  BY <1>1, <1>2, ChainItem
<1> QED
  BY <1>2, <1>3

\* The table while nobody writes it.
LEMMA WholeTable ==
  ASSUME IndInv, initialised, pc \notin {"build", "patch"}
  PROVE  \E b \in Buffers \ app :
           /\ Base[b] = current_fb_ptr
           /\ \A k \in 1 .. ItemCount : items[k] = ItemFor(b, k)
<1>1. Written = ItemCount
  BY TableShape DEF Written
<1>2. PICK b \in Buffers \ app, c \in Buffers \ app :
        /\ Base[b] = current_fb_ptr
        /\ \A k \in 1 .. ItemCount : items[k] = ItemFor(IF k > Written THEN c ELSE b, k)
  BY RunningTable
<1>3. \A k \in 1 .. ItemCount : ~(k > Written)
  BY <1>1, ItemCountType
<1> QED
  BY <1>2, <1>3

LEMMA FirstTable ==
  ASSUME IndInv, ~initialised, NEW k \in 1 .. ItemCount
  PROVE  IF pc = "build" /\ k <= patched THEN items[k] = ItemFor(fut_fb, k)
         ELSE items[k] = ZeroedItem
<1>1. k \in DOMAIN items
  BY TableShape
<1>2. CASE pc = "build" /\ k <= patched
  <2>1. fut_fb \in Buffers
    BY <1>2 DEF IndInv, StartInv
  <2>2. items[k] = BuildItemChain(fut_fb)[k]
    BY <1>1, <1>2 DEF IndInv, TableInv
  <2> QED
    BY <1>2, <2>1, <2>2, ChainItem
<1>3. CASE ~(pc = "build" /\ k <= patched)
  BY <1>1, <1>3 DEF IndInv, TableInv
<1> QED
  BY <1>2, <1>3

\* The descriptor that the channel is streaming.
LEMMA LoadedItem ==
  ASSUME IndInv, channel.phase = "block"
  PROVE  \E b \in Buffers, k \in 1 .. ItemCount :
           /\ channel.item = ItemFor(b, k)
           /\ channel.block \in 0 .. RepeatAt(k)
           /\ SwapWaitCount = 2 => b \notin app
<1>1. PICK b \in Buffers, k \in 1 .. ItemCount :
        /\ channel.item = BuildItemChain(b)[k]
        /\ channel.block \in 0 .. channel.item.repeat
        /\ SwapWaitCount = 2 => b \notin app
  BY TableShape DEF IndInv, ChannelInv
<1>2. channel.item = ItemFor(b, k)
  BY <1>1, ChainShape
<1> QED
  BY <1>1, <1>2, ItemFields

\* ChannelInv, in terms of the items, of whatever channel.
LEMMA ChannelInvItems ==
  ASSUME NEW item, NEW b \in Buffers, NEW k \in 1 .. ItemCount, item = ItemFor(b, k),
         NEW r \in 0 .. RepeatAt(k)
  PROVE  item = BuildItemChain(b)[k] /\ r \in 0 .. item.repeat
BY ChainShape, ItemFields

\* A block tells of which framebuffer it is.
LEMMA BlockTellsBuffer ==
  ASSUME NEW b \in Buffers, NEW c \in Buffers, NEW k \in 1 .. ItemCount,
         NEW r \in 0 .. RepeatAt(k), NEW i \in Segments,
         BlockStart(ItemFor(b, k), r) = SegmentPtr(c, i)
  PROVE  c = b
BY BlocksStartAtSegment, SegmentAtType, DisjointAssumption

-------------------------------------------------------------------------------
\* init() takes a framebuffer that the driver does not have yet.
LEMMA CallInitIndInv == ASSUME IndInv, NEW b \in Buffers, CallInit(b) PROVE IndInv'
<1> USE DEF IndInv, CallInit, coreVars, swapVars, dmaVars
<1>1. TypeOK'
  BY DEF TypeOK, Phases
<1>2. StartInv'
  BY DEF StartInv
<1>3. TableInv'
  <2>1. Len(items) \in Nat /\ \A k \in DOMAIN items : ~(k <= 0)
    BY TableShape, ItemCountType
  <2> QED
    BY <2>1 DEF TableInv
<1>4. ItemsFollowBuffer'
  <2> SUFFICES ASSUME initialised PROVE ItemsFollowBuffer'
    BY DEF ItemsFollowBuffer
  <2>1. PICK c \in Buffers \ app :
          current_fb_ptr = Base[c] /\ \A k \in 1 .. ItemCount : items[k] = ItemFor(c, k)
    BY WholeTable
  <2>3. ASSUME NEW k \in DOMAIN items
        PROVE  items[k] = BuildItemChain(IF k > 0 THEN c ELSE b)[k]
    BY <2>1, ChainItem, TableShape, ItemCountType
  <2>4. Written' = 0
    BY DEF Written
  <2> QED
    BY <2>1, <2>3, <2>4 DEF ItemsFollowBuffer
<1>5. ChannelInv' /\ SwapInv'
  BY DEF ChannelInv, SwapInv, Swapping, Waiting
<1>6. WaitInv' /\ NoLostWakeup' /\ StaleReadIsAwaited'
  BY DEF WaitInv, NoLostWakeup, StaleReadIsAwaited, Waiting
<1> QED
  BY <1>1, <1>2, <1>3, <1>4, <1>5, <1>6

\* One descriptor of the new chain is written, over one of the old.
LEMMA BuildItemWrites ==
  ASSUME IndInv, BuildItem
  PROVE  /\ fut_fb \in Buffers \ app
         /\ items \in [1 .. ItemCount -> ItemType] /\ Len(items) = ItemCount
         /\ patched \in Nat /\ patched + 1 \in 1 .. ItemCount
         /\ items' \in [1 .. ItemCount -> ItemType]
         /\ items'[patched + 1] = ItemFor(fut_fb, patched + 1)
         /\ \A k \in 1 .. ItemCount : k # patched + 1 => items'[k] = items[k]
<1> DEFINE n == patched + 1
<1>1. fut_fb \in Buffers \ app /\ patched \in Nat
  BY DEF BuildItem, IndInv, StartInv, TypeOK
<1>2. /\ items \in [1 .. ItemCount -> ItemType] /\ Len(items) = ItemCount
      /\ n \in 1 .. ItemCount
  BY <1>1, TableShape, ItemCountType DEF BuildItem
<1>3. BuildItemChain(fut_fb)[n] = ItemFor(fut_fb, n) /\ ItemFor(fut_fb, n) \in ItemType
  BY <1>1, <1>2, ChainItem, ItemForType
<1>4. items' = [items EXCEPT ![n] = ItemFor(fut_fb, n)]
  BY <1>3 DEF BuildItem
<1> QED
  BY <1>1, <1>2, <1>3, <1>4

LEMMA BuildItemIndInv == ASSUME IndInv, BuildItem PROVE IndInv'
<1> USE DEF IndInv, BuildItem, swapVars, dmaVars
<1> DEFINE n == patched + 1
<1>0. /\ fut_fb \in Buffers \ app
      /\ items \in [1 .. ItemCount -> ItemType] /\ Len(items) = ItemCount
      /\ patched \in Nat /\ n \in 1 .. ItemCount
  BY BuildItemWrites
<1>1. /\ items' \in [1 .. ItemCount -> ItemType]
      /\ items'[n] = ItemFor(fut_fb, n)
      /\ \A k \in 1 .. ItemCount : k # n => items'[k] = items[k]
  BY BuildItemWrites
<1>2. TypeOK'
  <2>1. items' \in Seq(ItemType) /\ patched' \in Nat
    BY <1>0, <1>1, TableType
  <2> QED
    BY <2>1 DEF TypeOK
<1>3. StartInv'
  BY DEF StartInv
<1>4. DOMAIN items' = DOMAIN items /\ Len(items') = Len(items)
  BY <1>0, <1>1, TableType
<1>5. TableInv'
  <2>1. patched' \in 0 .. Len(items)
    BY <1>0, ItemCountType
  <2>2. ASSUME ~initialised, NEW k \in DOMAIN items'
        PROVE  items'[k] = IF k <= patched' THEN BuildItemChain(fut_fb)[k] ELSE ZeroedItem
    <3>1. k \in 1 .. ItemCount
      BY <1>1
    <3>2. CASE k = n
      BY <1>0, <1>1, <3>1, <3>2, ChainItem
    <3>3. CASE k # n
      <4>1. k <= patched' <=> k <= patched
        BY <1>0, <3>1, <3>3
      <4> QED
        BY <1>0, <1>1, <2>2, <3>1, <3>3, <4>1, FirstTable, ChainItem
    <3> QED
      BY <3>2, <3>3
  <2> QED
    BY <1>4, <2>1, <2>2 DEF TableInv
<1>6. ItemsFollowBuffer'
  <2> SUFFICES ASSUME initialised PROVE ItemsFollowBuffer'
    BY DEF ItemsFollowBuffer
  <2>1. PICK c \in Buffers \ app :
          /\ current_fb_ptr = Base[c]
          /\ \A k \in 1 .. ItemCount :
               items[k] = ItemFor(IF k > patched THEN c ELSE fut_fb, k)
    <3>1. PICK b \in Buffers \ app, c \in Buffers \ app :
            /\ Base[b] = Base[fut_fb] /\ Base[c] = current_fb_ptr
            /\ \A k \in 1 .. ItemCount : items[k] = ItemFor(IF k > patched THEN c ELSE b, k)
      BY RunningTable DEF Written
    <3>2. b = fut_fb
      BY <1>0, <3>1, BaseInjective
    <3> QED
      BY <3>1, <3>2
  <2>2. ASSUME NEW k \in 1 .. ItemCount
        PROVE  items'[k] = ItemFor(IF k > n THEN c ELSE fut_fb, k)
    <3>1. CASE k = n
      BY <1>0, <1>1, <3>1
    <3>2. CASE k # n
      <4>1. k > n <=> k > patched
        BY <1>0, <3>2
      <4> QED
        BY <1>1, <2>1, <3>2, <4>1
    <3> QED
      BY <3>1, <3>2
  <2>3. ASSUME NEW k \in DOMAIN items'
        PROVE  items'[k] = BuildItemChain(IF k > n THEN c ELSE fut_fb)[k]
    BY <1>0, <1>1, <2>2, ChainItem
  <2>4. Written' = n
    BY DEF Written
  <2> QED
    BY <1>0, <2>1, <2>3, <2>4 DEF ItemsFollowBuffer
<1>7. ChannelInv' /\ SwapInv'
  BY <1>4 DEF ChannelInv, SwapInv, Swapping, Waiting
<1>8. WaitInv' /\ NoLostWakeup' /\ StaleReadIsAwaited'
  BY DEF WaitInv, NoLostWakeup, StaleReadIsAwaited, Waiting
<1> QED
  BY <1>2, <1>3, <1>5, <1>6, <1>7, <1>8

\* The chain is complete before the driver is set up, whether or not there was
\* one before.
LEMMA NewIndInv == ASSUME IndInv, New PROVE IndInv'
<1> USE DEF IndInv, New, swapVars
<1>0. /\ fut_fb \in Buffers \ app
      /\ patched = ItemCount
      /\ DOMAIN items = 1 .. ItemCount /\ Len(items) = ItemCount
      /\ pc' = "idle"
  BY TableShape DEF StartInv
<1>1. \A k \in 1 .. ItemCount : items[k] = ItemFor(fut_fb, k)
  <2>1. CASE initialised
    <3>1. PICK b \in Buffers \ app, c \in Buffers \ app :
            /\ Base[b] = Base[fut_fb]
            /\ \A k \in 1 .. ItemCount : items[k] = ItemFor(IF k > Written THEN c ELSE b, k)
      BY <2>1, RunningTable
    <3>2. b = fut_fb
      BY <1>0, <3>1, BaseInjective
    <3>3. \A k \in 1 .. ItemCount : ~(k > Written)
      BY <1>0, ItemCountType DEF Written
    <3> QED
      BY <3>1, <3>2, <3>3
  <2>2. CASE ~initialised
    BY <1>0, <2>2, FirstTable, ItemCountType
  <2> QED
    BY <2>1, <2>2
<1>2. channel' = NewChannel("load") \/ (initialised /\ channel' = channel)
  BY DEF StartChannel
<1>3. TypeOK'
  <2>1. channel' \in [phase : {"off", "block", "load"}, next : Nat, item : ItemType \cup {None},
                      block : Nat, owes_tc : BOOLEAN]
    BY <1>2, NewChannelType DEF TypeOK
  <2>2. Base[fut_fb] \in Address /\ tc_pending' \in BOOLEAN /\ initialised' \in BOOLEAN
    BY <1>0, BaseInjective DEF TypeOK, StartChannel, StoreTimer
  <2> QED
    BY <2>1, <2>2 DEF TypeOK, Phases
<1>4. StartInv' /\ TableInv'
  BY DEF StartInv, TableInv, StoreTimer
<1>5. ItemsFollowBuffer'
  <2>1. Written' = ItemCount
    BY <1>0 DEF Written
  <2>2. \A k \in DOMAIN items : items[k] = BuildItemChain(fut_fb)[k]
    BY <1>0, <1>1, ChainItem
  <2> QED
    BY <1>0, <2>1, <2>2 DEF ItemsFollowBuffer
<1>6. ChannelInv'
  <2>1. CASE channel' = NewChannel("load")
    BY <1>0, <2>1, NewChannelType, ItemCountType DEF ChannelInv, AddressOf
  <2>2. CASE channel' = channel
    BY <2>2 DEF ChannelInv
  <2> QED
    BY <1>2, <2>1, <2>2
<1>7. SwapInv' /\ WaitInv' /\ NoLostWakeup' /\ StaleReadIsAwaited'
  BY <1>0 DEF SwapInv, WaitInv, NoLostWakeup, StaleReadIsAwaited, Swapping, Waiting
<1> QED
  BY <1>3, <1>4, <1>5, <1>6, <1>7

LEMMA DropHandleIndInv == ASSUME IndInv, DropHandle PROVE IndInv'
<1> USE DEF IndInv, DropHandle, swapVars, dmaVars, futVars
<1>1. TypeOK' /\ StartInv' /\ TableInv'
  BY DEF TypeOK, StartInv, TableInv
<1>2. ItemsFollowBuffer'
  BY DEF ItemsFollowBuffer, Written
<1>3. ChannelInv' /\ SwapInv'
  BY DEF ChannelInv, SwapInv, Swapping, Waiting
<1>4. WaitInv' /\ NoLostWakeup' /\ StaleReadIsAwaited'
  BY DEF WaitInv, NoLostWakeup, StaleReadIsAwaited, Waiting
<1> QED
  BY <1>1, <1>2, <1>3, <1>4

\* What is given to swap() is not the current framebuffer, which is the driver's.
LEMMA SwapIndInv == ASSUME IndInv, NEW b \in Buffers, Swap(b) PROVE IndInv'
<1> USE DEF IndInv, Swap, coreVars, swapVars, dmaVars
<1>1. TypeOK' /\ StartInv' /\ TableInv'
  BY DEF TypeOK, Phases, StartInv, TableInv
<1>2. ItemsFollowBuffer'
  BY DEF ItemsFollowBuffer, Written
<1>3. ChannelInv'
  BY DEF ChannelInv
<1>4. SwapInv'
  <2>1. initialised
    BY DEF StartInv
  <2>2. PICK c \in Buffers \ app : Base[c] = current_fb_ptr
    BY <2>1, WholeTable
  <2>3. Base[b] # Base[c]
    BY <2>2, BaseInjective
  <2> QED
    BY <2>2, <2>3 DEF SwapInv, Swapping, Waiting
<1>5. WaitInv' /\ NoLostWakeup' /\ StaleReadIsAwaited'
  BY DEF WaitInv, NoLostWakeup, StaleReadIsAwaited, Waiting
<1> QED
  BY <1>1, <1>2, <1>3, <1>4, <1>5

\* The distance to the new framebuffer is not zero, so that the patching begins.
LEMMA SwapStartIndInv == ASSUME IndInv, SwapStart PROVE IndInv'
<1> USE DEF IndInv, SwapStart, swapVars, dmaVars, DisplacedPtr
<1>1. fut_fb \in Buffers \ app /\ initialised /\ Base[fut_fb] # current_fb_ptr
  BY DEF StartInv, SwapInv
<1>2. PICK c \in Buffers \ app :
        current_fb_ptr = Base[c] /\ \A k \in 1 .. ItemCount : items[k] = ItemFor(c, k)
  BY <1>1, WholeTable
<1>3. pc' = "patch"
  BY <1>1, <1>2, DeltaIsZeroOnlyAtHome
<1>4. TypeOK' /\ StartInv'
  BY <1>1, <1>3, BaseInjective DEF TypeOK, Phases, StartInv
<1>5. TableInv'
  BY <1>3, TableShape, ItemCountType DEF TableInv
<1>6. ItemsFollowBuffer'
  <2>1. Written' = 0
    BY <1>3 DEF Written
  <2>2. ASSUME NEW k \in DOMAIN items
        PROVE  items[k] = BuildItemChain(IF k > 0 THEN c ELSE fut_fb)[k]
    BY <1>2, ChainItem, TableShape, ItemCountType
  <2> QED
    BY <1>1, <1>2, <1>3, <2>1, <2>2 DEF ItemsFollowBuffer
<1>7. ChannelInv'
  BY DEF ChannelInv
<1>8. SwapInv'
  BY <1>1, <1>2, <1>3 DEF SwapInv, Swapping, Waiting
<1>9. WaitInv' /\ NoLostWakeup' /\ StaleReadIsAwaited'
  BY <1>3 DEF WaitInv, NoLostWakeup, StaleReadIsAwaited, Waiting
<1> QED
  BY <1>4, <1>5, <1>6, <1>7, <1>8, <1>9

\* One descriptor is shifted from the displaced framebuffer to the new one.
LEMMA ApplyItemDeltaShifts ==
  ASSUME IndInv, ApplyItemDelta
  PROVE  \E c \in Buffers \ app :
           /\ old_ptr = Base[c]
           /\ fut_fb \in Buffers \ app /\ current_fb_ptr = Base[fut_fb] /\ initialised
           /\ \A k \in 1 .. ItemCount : items[k] = ItemFor(IF k > patched THEN c ELSE fut_fb, k)
           /\ items \in [1 .. ItemCount -> ItemType]
           /\ patched \in Nat /\ patched + 1 \in 1 .. ItemCount
           /\ items' \in [1 .. ItemCount -> ItemType]
           /\ items'[patched + 1] = ItemFor(fut_fb, patched + 1)
           /\ \A k \in 1 .. ItemCount : k # patched + 1 => items'[k] = items[k]
<1> DEFINE n == patched + 1
<1>0. /\ fut_fb \in Buffers \ app /\ initialised
      /\ current_fb_ptr = Base[fut_fb]
      /\ items \in [1 .. ItemCount -> ItemType]
      /\ patched \in Nat
      /\ n \in 1 .. ItemCount
  <2>1. patched \in 0 .. ItemCount - 1
    BY TableShape DEF ApplyItemDelta, IndInv, TableInv
  <2> QED
    BY <2>1, TableShape, ItemCountType DEF ApplyItemDelta, IndInv, StartInv, SwapInv, Swapping
<1>1. PICK c \in Buffers \ app :
        /\ old_ptr = Base[c]
        /\ \A k \in 1 .. ItemCount : items[k] = ItemFor(IF k > patched THEN c ELSE fut_fb, k)
  <2>1. PICK b \in Buffers \ app, c \in Buffers \ app :
          /\ Base[b] = current_fb_ptr /\ Base[c] = old_ptr
          /\ \A k \in 1 .. ItemCount : items[k] = ItemFor(IF k > patched THEN c ELSE b, k)
    BY <1>0, RunningTable DEF Written, ApplyItemDelta
  <2>2. b = fut_fb
    BY <1>0, <2>1, BaseInjective
  <2> QED
    BY <2>1, <2>2
<1>2. items[n] = ItemFor(c, n)
  BY <1>0, <1>1
<1>3. Wrap(items[n].sar + Delta) = SegmentPtr(fut_fb, SegmentAt(n))
  <2>1. items[n].sar = SegmentPtr(c, SegmentAt(n)) /\ SegmentAt(n) \in Segments
    BY <1>0, <1>2, ItemFields, SegmentAtType
  <2>2. WrappingByteOffset(SegmentPtr(c, SegmentAt(n)), PointerDelta(Base[fut_fb], Base[c]))
          = SegmentPtr(fut_fb, SegmentAt(n))
    BY <1>0, <2>1, DeltaReaches
  <2> QED
    BY <1>1, <2>1, <2>2 DEF WrappingByteOffset, Delta
<1>4. items' = [items EXCEPT ![n] = ItemFor(fut_fb, n)]
  <2>1. [ItemFor(c, n) EXCEPT !.sar = SegmentPtr(fut_fb, SegmentAt(n))] = ItemFor(fut_fb, n)
    BY <1>0, ItemRetargeted
  <2> QED
    BY <1>0, <1>2, <1>3, <2>1 DEF ApplyItemDelta
<1>5. ItemFor(fut_fb, n) \in ItemType
  BY <1>0, ItemForType
<1> QED
  BY <1>0, <1>1, <1>4, <1>5

LEMMA ApplyItemDeltaIndInv == ASSUME IndInv, ApplyItemDelta PROVE IndInv'
<1> USE DEF IndInv, ApplyItemDelta, swapVars, dmaVars
<1> DEFINE n == patched + 1
<1>1. PICK c \in Buffers \ app :
        /\ old_ptr = Base[c]
        /\ fut_fb \in Buffers \ app /\ current_fb_ptr = Base[fut_fb] /\ initialised
        /\ \A k \in 1 .. ItemCount : items[k] = ItemFor(IF k > patched THEN c ELSE fut_fb, k)
        /\ items \in [1 .. ItemCount -> ItemType]
        /\ patched \in Nat /\ n \in 1 .. ItemCount
        /\ items' \in [1 .. ItemCount -> ItemType]
        /\ items'[n] = ItemFor(fut_fb, n)
        /\ \A k \in 1 .. ItemCount : k # n => items'[k] = items[k]
  BY ApplyItemDeltaShifts
<1>2. DescriptorCount = ItemCount
  BY TableShape DEF DescriptorCount
<1>4. DOMAIN items' = DOMAIN items /\ Len(items') = Len(items) /\ items' \in Seq(ItemType)
  BY <1>1, TableType, TableShape
<1>5. pc' \in {"arm", "patch"} /\ (pc' = "arm" <=> n = ItemCount)
  BY <1>2
<1>6. TypeOK' /\ StartInv'
  BY <1>1, <1>4, <1>5 DEF TypeOK, Phases, StartInv
<1>7. TableInv'
  BY <1>1, <1>4, <1>5, TableShape, ItemCountType DEF TableInv
<1>8. ASSUME NEW k \in 1 .. ItemCount
      PROVE  items'[k] = ItemFor(IF k > n THEN c ELSE fut_fb, k)
  <2>1. CASE k = n
    BY <1>1, <2>1
  <2>2. CASE k # n
    <3>1. k > n <=> k > patched
      BY <1>1, <2>2
    <3> QED
      BY <1>1, <2>2, <3>1
  <2> QED
    BY <2>1, <2>2
<1>9. ItemsFollowBuffer'
  <2>1. CASE pc' = "patch"
    <3>1. Written' = n
      BY <2>1 DEF Written
    <3>2. ASSUME NEW k \in DOMAIN items'
          PROVE  items'[k] = BuildItemChain(IF k > n THEN c ELSE fut_fb)[k]
      BY <1>1, <1>8, ChainItem
    <3> QED
      BY <1>1, <2>1, <3>1, <3>2 DEF ItemsFollowBuffer
  <2>2. CASE pc' = "arm"
    <3>1. Written' = ItemCount /\ n = ItemCount
      BY <1>4, <1>5, <2>2, TableShape DEF Written
    <3>2. ASSUME NEW k \in DOMAIN items'
          PROVE  items'[k] = BuildItemChain(fut_fb)[k] /\ ~(k > ItemCount)
      BY <1>1, <1>8, <3>1, ChainItem, ItemCountType
    <3> QED
      BY <1>1, <2>2, <3>1, <3>2 DEF ItemsFollowBuffer
  <2> QED
    BY <1>5, <2>1, <2>2
<1>10. ChannelInv'
  BY <1>4 DEF ChannelInv
<1>11. SwapInv'
  BY <1>5 DEF SwapInv, Swapping, Waiting
<1>12. WaitInv' /\ NoLostWakeup' /\ StaleReadIsAwaited'
  BY <1>5 DEF WaitInv, NoLostWakeup, StaleReadIsAwaited, Waiting
<1> QED
  BY <1>6, <1>7, <1>9, <1>10, <1>11, <1>12

-------------------------------------------------------------------------------
\* Until a frame has passed, every descriptor in the table is new and the one
\* that the channel has loaded may be old: the two waits begin.
LEMMA ArmIndInv == ASSUME IndInv, Arm PROVE IndInv'
<1> USE DEF IndInv, Arm, coreVars, dmaVars, futVars, FramesToWait
<1>1. SwapWaitCount \in 0 .. 2 /\ pc' \in {"check", "finish"}
      /\ (pc' = "check" <=> SwapWaitCount > 0)
  BY GpdmaAssumption
<1>2. TypeOK' /\ StartInv' /\ TableInv'
  <2>0. swap_waits \in 0 .. SwapWaitCount /\ swap_done \in BOOLEAN
    BY DEF TypeOK
  <2>1. swap_waits' \in 0 .. SwapWaitCount
    BY <1>1, <2>0
  <2>2. swap_done' \in BOOLEAN
    BY <2>0, Zenon
  <2>5. pc' \in Phases
    BY <1>1 DEF Phases
  <2>3. TypeOK'
    BY <2>1, <2>2, <2>5 DEF TypeOK
  <2>4. StartInv' /\ TableInv'
    BY <1>1 DEF StartInv, TableInv
  <2> QED
    BY <2>3, <2>4
<1>3. ItemsFollowBuffer'
  BY <1>1 DEF ItemsFollowBuffer, Written
<1>4. ChannelInv' /\ SwapInv'
  BY <1>1 DEF ChannelInv, SwapInv, Swapping, Waiting
<1>5. WaitInv' /\ NoLostWakeup'
  BY <1>1 DEF WaitInv, NoLostWakeup, Waiting
<1>6. SwapWaitCount = 2 => StaleReadIsAwaited'
  BY DEF StaleReadIsAwaited
<1> QED
  BY <1>2, <1>3, <1>4, <1>5, <1>6

LEMMA PollLoadIndInv == ASSUME IndInv, PollLoad PROVE IndInv'
<1> USE DEF IndInv, PollLoad, coreVars, swapVars, dmaVars, futVars
<1>1. TypeOK' /\ StartInv' /\ TableInv'
  BY DEF TypeOK, Phases, StartInv, TableInv
<1>2. ItemsFollowBuffer'
  BY DEF ItemsFollowBuffer, Written
<1>3. ChannelInv' /\ SwapInv'
  BY DEF ChannelInv, SwapInv, Swapping, Waiting
<1>4. WaitInv' /\ NoLostWakeup'
  BY DEF WaitInv, NoLostWakeup, Waiting
<1>5. SwapWaitCount = 2 => StaleReadIsAwaited'
  BY DEF StaleReadIsAwaited, Streams, Old, BuffersAt, Waiting
<1> QED
  BY <1>1, <1>2, <1>3, <1>4, <1>5

\* The second look at swap_done makes the registration safe.
LEMMA PollLockIndInv == ASSUME IndInv, PollLock PROVE IndInv'
<1> USE DEF IndInv, PollLock, coreVars, dmaVars, futVars, DoneAtLock
<1>1. TypeOK' /\ StartInv' /\ TableInv'
  <2>1. pc = "lock" /\ pc' \in {"finish", "pending"}
    OBVIOUS
  <2>2. TypeOK'
    BY DEF TypeOK, Phases
  <2>3. StartInv'
    BY <2>1 DEF StartInv
  <2>4. TableInv'
    BY <2>1 DEF TableInv
  <2> QED
    BY <2>2, <2>3, <2>4
<1>2. ItemsFollowBuffer'
  <2>1. /\ pc = "lock" /\ pc' \in {"finish", "pending"}
        /\ UNCHANGED <<initialised, app, current_fb_ptr, items, old_ptr, fut_fb, patched>>
    OBVIOUS
  <2>2. Written' = Written
    BY <2>1 DEF Written
  <2> QED
    BY <2>1, <2>2 DEF ItemsFollowBuffer
<1>3. ChannelInv' /\ SwapInv'
  BY DEF ChannelInv, SwapInv, Swapping, Waiting
<1>4. WaitInv' /\ NoLostWakeup'
  BY GpdmaAssumption DEF WaitInv, NoLostWakeup, Waiting, TypeOK
<1>5. SwapWaitCount = 2 => StaleReadIsAwaited'
  BY DEF StaleReadIsAwaited, Streams, Old, BuffersAt, Waiting
<1> QED
  BY <1>1, <1>2, <1>3, <1>4, <1>5

LEMMA PollIndInv == ASSUME IndInv, Poll \/ SpuriousWake PROVE IndInv'
<1> USE DEF IndInv, Poll, SpuriousWake, coreVars, swapVars, dmaVars, futVars
<1>1. TypeOK' /\ StartInv' /\ TableInv'
  BY DEF TypeOK, Phases, StartInv, TableInv
<1>2. ItemsFollowBuffer'
  BY DEF ItemsFollowBuffer, Written
<1>3. ChannelInv' /\ SwapInv'
  BY DEF ChannelInv, SwapInv, Swapping, Waiting
<1>4. WaitInv' /\ NoLostWakeup'
  BY DEF WaitInv, NoLostWakeup, Waiting
<1>5. SwapWaitCount = 2 => StaleReadIsAwaited'
  BY DEF StaleReadIsAwaited, Streams, Old, BuffersAt, Waiting
<1> QED
  BY <1>1, <1>2, <1>3, <1>4, <1>5

\* A swap that returns has waited until the channel had left the framebuffer
\* that it returns.
LEMMA SwapReturnIndInv == ASSUME IndInv, SwapReturn PROVE IndInv'
<1> USE DEF IndInv, SwapReturn, EndSwap, coreVars, swapVars, dmaVars
<1>1. fut_fb \in Buffers \ app /\ current_fb_ptr = Base[fut_fb] /\ initialised
  BY DEF StartInv, SwapInv, Swapping, Waiting
<1>2. PICK c \in Buffers \ app : c # fut_fb /\ old_ptr = Base[c]
  BY DEF SwapInv, Swapping, Waiting
<1>3. app' = app \cup {c}
  BY <1>2, BuffersAtBase
<1>4. TypeOK'
  BY <1>3, LayoutAssumption DEF TypeOK, Phases, Null, Address, AddressSpace
<1>5. StartInv' /\ TableInv'
  BY DEF StartInv, TableInv
<1>6. ItemsFollowBuffer'
  <2>1. PICK b \in Buffers \ app :
          Base[b] = current_fb_ptr /\ \A k \in 1 .. ItemCount : items[k] = ItemFor(b, k)
    BY <1>1, WholeTable
  <2>2. b = fut_fb
    BY <1>1, <2>1, BaseInjective
  <2>3. Written' = ItemCount
    BY TableShape DEF Written
  <2>4. ASSUME NEW k \in DOMAIN items
        PROVE  items[k] = BuildItemChain(fut_fb)[k] /\ ~(k > ItemCount)
    BY <1>1, <2>1, <2>2, ChainItem, TableShape, ItemCountType
  <2> QED
    BY <1>1, <1>2, <1>3, <2>3, <2>4 DEF ItemsFollowBuffer
<1>7. ChannelInv'
  <2>1. CASE channel.phase = "block"
    <3>1. PICK b \in Buffers, k \in 1 .. ItemCount :
            /\ channel.item = ItemFor(b, k)
            /\ channel.block \in 0 .. RepeatAt(k)
            /\ SwapWaitCount = 2 => b \notin app
      BY <2>1, LoadedItem
    <3>2. SwapWaitCount = 2 => b # c
      <4> SUFFICES ASSUME SwapWaitCount = 2, b = c PROVE FALSE
        OBVIOUS
      <4>1. BlockStart(channel.item, channel.block) = SegmentPtr(c, SegmentAt(k))
        BY <3>1, BlocksStartAtSegment
      <4>2. Streams(c)
        BY <2>1, <4>1, SegmentAtType DEF Streams
      <4>3. c \in Old
        BY <1>2, BuffersAtBase DEF Old
      <4> QED
        BY <4>2, <4>3 DEF StaleReadIsAwaited, WaitInv, Waiting
    <3> QED
      BY <1>3, <2>1, <3>1, <3>2, ChannelInvItems, TableShape DEF ChannelInv
  <2>2. CASE channel.phase # "block"
    BY <2>2 DEF ChannelInv
  <2> QED
    BY <2>1, <2>2
<1>8. SwapInv' /\ WaitInv' /\ NoLostWakeup' /\ StaleReadIsAwaited'
  BY DEF SwapInv, WaitInv, NoLostWakeup, StaleReadIsAwaited, Swapping, Waiting
<1> QED
  BY <1>4, <1>5, <1>6, <1>7, <1>8

LEMMA CancelIndInv == ASSUME IndInv, Cancel PROVE IndInv'
<1> USE DEF IndInv, Cancel, EndSwap, coreVars, swapVars, dmaVars
<1>1. TypeOK'
  BY LayoutAssumption DEF TypeOK, Phases, Null, Address, AddressSpace
<1>2. StartInv' /\ TableInv'
  BY DEF StartInv, TableInv
<1>3. ItemsFollowBuffer'
  BY DEF ItemsFollowBuffer, Written
<1>4. ChannelInv'
  BY DEF ChannelInv
<1>5. SwapInv' /\ WaitInv' /\ NoLostWakeup' /\ StaleReadIsAwaited'
  BY DEF SwapInv, WaitInv, NoLostWakeup, StaleReadIsAwaited, Swapping, Waiting
<1> QED
  BY <1>1, <1>2, <1>3, <1>4, <1>5

-------------------------------------------------------------------------------
\* Steps of the channel alone keep all but what is said of the channel.
LEMMA ChannelStep ==
  ASSUME IndInv, RepeatBlock \/ EndItem \/ LoadItem,
         channel' \in [phase : {"off", "block", "load"}, next : Nat, item : ItemType \cup {None},
                       block : Nat, owes_tc : BOOLEAN],
         initialised, ChannelInv',
         SwapWaitCount = 2 => StaleReadIsAwaited'
  PROVE  IndInv'
<1> USE DEF IndInv
<1>1. /\ UNCHANGED <<coreVars, swapVars, app, pc, futVars, woken, leaked>>
      /\ tc_pending' \in BOOLEAN
  BY DEF RepeatBlock, EndItem, LoadItem, TypeOK, ItemType
<1> USE <1>1 DEF coreVars, swapVars, futVars
<1>2. TypeOK'
  BY DEF TypeOK
<1>3. StartInv' /\ TableInv' /\ SwapInv'
  BY DEF StartInv, TableInv, SwapInv
<1>4. ItemsFollowBuffer'
  BY DEF ItemsFollowBuffer, Written
<1>5. WaitInv' /\ NoLostWakeup'
  BY DEF WaitInv, NoLostWakeup
<1> QED
  BY <1>2, <1>3, <1>4, <1>5

LEMMA RepeatBlockIndInv == ASSUME IndInv, RepeatBlock PROVE IndInv'
<1>1. PICK b \in Buffers, k \in 1 .. ItemCount :
        /\ channel.item = ItemFor(b, k)
        /\ channel.block \in 0 .. RepeatAt(k)
        /\ SwapWaitCount = 2 => b \notin app
  BY LoadedItem DEF RepeatBlock
<1>2. /\ channel \in [phase : {"off", "block", "load"}, next : Nat, item : ItemType \cup {None},
                       block : Nat, owes_tc : BOOLEAN]
      /\ channel.phase = "block" /\ initialised
  BY DEF RepeatBlock, IndInv, TypeOK, StartInv
<1>3. channel.block < RepeatAt(k) /\ RepeatAt(k) \in Nat
  BY <1>1, ItemFields, RepeatAtType DEF RepeatBlock
<1>4. /\ channel' \in [phase : {"off", "block", "load"}, next : Nat, item : ItemType \cup {None},
                        block : Nat, owes_tc : BOOLEAN]
      /\ channel'.phase = "block" /\ channel'.item = channel.item
      /\ channel'.block \in 0 .. RepeatAt(k)
  BY <1>1, <1>2, <1>3 DEF RepeatBlock
<1>5. ChannelInv'
  <2>1. channel.item = BuildItemChain(b)[k] /\ channel'.block \in 0 .. channel.item.repeat
    BY <1>1, <1>4, ChannelInvItems
  <2>2. k \in DOMAIN items /\ items' = items /\ app' = app
    BY TableShape DEF RepeatBlock, coreVars
  <2> QED
    BY <1>1, <1>4, <2>1, <2>2 DEF ChannelInv
<1>6. ASSUME NEW c \in Buffers, Streams(c)' PROVE Streams(c)
  <2>1. PICK i \in Segments : BlockStart(channel'.item, channel'.block) = SegmentPtr(c, i)
    BY <1>6 DEF Streams
  <2>2. c = b
    BY <1>1, <1>4, <2>1, BlockTellsBuffer
  <2> QED
    BY <1>1, <1>2, <2>2, BlocksStartAtSegment, SegmentAtType DEF Streams
<1>7. SwapWaitCount = 2 => StaleReadIsAwaited'
  BY <1>6 DEF RepeatBlock, IndInv, StaleReadIsAwaited, Old, BuffersAt, coreVars, swapVars, futVars
<1> QED
  BY <1>2, <1>4, <1>5, <1>7, ChannelStep

\* The channel follows a link, to a descriptor of the table.
LEMMA EndItemIndInv == ASSUME IndInv, EndItem PROVE IndInv'
<1>1. PICK b \in Buffers, k \in 1 .. ItemCount : channel.item = ItemFor(b, k)
  BY LoadedItem DEF EndItem
<1>2. /\ channel \in [phase : {"off", "block", "load"}, next : Nat, item : ItemType \cup {None},
                       block : Nat, owes_tc : BOOLEAN]
      /\ channel.phase = "block" /\ initialised
  BY DEF EndItem, IndInv, TypeOK, StartInv
<1>3. LinkTarget(TableBase, channel.item) = AddressOf(NextItem(k)) /\ NextItem(k) \in 1 .. ItemCount
  BY <1>1, LinksLead, NextItemType
<1>4. AddressOf(NextItem(k)) \in Nat
  BY <1>3, ItemCountType, ItemAtAddress
<1>5. channel.item.tc \in BOOLEAN
  BY <1>1, ItemForType DEF ItemType
<1>6. /\ channel' \in [phase : {"off", "block", "load"}, next : Nat, item : ItemType \cup {None},
                        block : Nat, owes_tc : BOOLEAN]
      /\ channel'.phase = "load" /\ channel'.next = AddressOf(NextItem(k))
  <2>1. PICK early \in BOOLEAN :
          channel' = [channel EXCEPT !.phase = "load", !.next = LinkTarget(TableBase, channel.item),
                                     !.owes_tc = channel.item.tc /\ ~early]
    BY DEF EndItem
  <2>2. (channel.item.tc /\ ~early) \in BOOLEAN
    OBVIOUS
  <2> HIDE <1>5
  <2> DEFINE owes == channel.item.tc /\ ~early
  <2>3. channel' = [channel EXCEPT !.phase = "load", !.next = AddressOf(NextItem(k)), !.owes_tc = owes]
    BY <1>3, <2>1
  <2>4. owes \in BOOLEAN
    BY <2>2
  <2> HIDE DEF owes
  <2> QED
    BY <1>2, <1>4, <2>3, <2>4
<1>7. ChannelInv'
  BY <1>3, <1>6, TableShape DEF ChannelInv, EndItem, coreVars, AddressOf
<1>8. StaleReadIsAwaited'
  BY <1>6 DEF StaleReadIsAwaited, Streams
<1> QED
  BY <1>2, <1>6, <1>7, <1>8, ChannelStep

\* What the channel loads is an item of one of the driver's framebuffers, and,
\* once all are patched, of the current one.
LEMMA LoadedFromTable ==
  ASSUME IndInv, LoadItem
  PROVE  \E b \in Buffers \ app, k \in 1 .. ItemCount :
           /\ channel'.phase = "block" /\ channel'.item = ItemFor(b, k) /\ channel'.block = 0
           /\ channel' \in [phase : {"off", "block", "load"}, next : Nat,
                             item : ItemType \cup {None}, block : Nat, owes_tc : BOOLEAN]
           /\ pc \in Waiting => current_fb_ptr = Base[b]
           /\ initialised
<1>1. /\ channel \in [phase : {"off", "block", "load"}, next : Nat, item : ItemType \cup {None},
                       block : Nat, owes_tc : BOOLEAN]
      /\ channel.phase = "load" /\ initialised
  BY DEF LoadItem, IndInv, TypeOK, StartInv
<1>2. PICK k \in 1 .. ItemCount : channel.next = AddressOf(k)
  BY <1>1, TableShape DEF IndInv, ChannelInv, AddressOf
<1>3. ItemAt(channel.next) = items[k]
  BY <1>2, ItemAtAddress, ItemCountType
<1>4. PICK b \in Buffers \ app :
        items[k] = ItemFor(b, k) /\ (pc \in Waiting => current_fb_ptr = Base[b])
  <2>1. CASE pc \in {"build", "patch"}
    BY <1>1, <2>1, RunningTable DEF Waiting
  <2>2. CASE pc \notin {"build", "patch"}
    BY <1>1, <2>2, WholeTable
  <2> QED
    BY <2>1, <2>2
<1>5. ItemFor(b, k) \in ItemType
  BY ItemForType
<1>6. channel' = [channel EXCEPT !.phase = "block", !.item = ItemFor(b, k), !.block = 0,
                                 !.owes_tc = FALSE]
  BY <1>3, <1>4 DEF LoadItem
<1> QED
  BY <1>1, <1>4, <1>5, <1>6

LEMMA LoadItemIndInv == ASSUME IndInv, LoadItem PROVE IndInv'
<1>1. PICK b \in Buffers \ app, k \in 1 .. ItemCount :
        /\ channel'.phase = "block" /\ channel'.item = ItemFor(b, k) /\ channel'.block = 0
        /\ channel' \in [phase : {"off", "block", "load"}, next : Nat,
                          item : ItemType \cup {None}, block : Nat, owes_tc : BOOLEAN]
        /\ pc \in Waiting => current_fb_ptr = Base[b]
        /\ initialised
  BY LoadedFromTable
<1>2. 0 \in 0 .. RepeatAt(k)
  BY RepeatAtType
<1>3. ChannelInv'
  <2>1. channel'.item = BuildItemChain(b)[k] /\ channel'.block \in 0 .. channel'.item.repeat
    BY <1>1, <1>2, ChannelInvItems
  <2>2. k \in DOMAIN items /\ items' = items /\ app' = app
    BY TableShape DEF LoadItem, coreVars
  <2> QED
    BY <1>1, <2>1, <2>2 DEF ChannelInv
<1>4. StaleReadIsAwaited'
  <2> SUFFICES ASSUME pc \in Waiting, NEW c \in Old, Streams(c)' PROVE FALSE
    BY DEF StaleReadIsAwaited, LoadItem, Old, BuffersAt, futVars
  <2>1. c \in Buffers /\ Base[c] = old_ptr
    BY DEF Old, BuffersAt
  <2>2. PICK i \in Segments : BlockStart(channel'.item, channel'.block) = SegmentPtr(c, i)
    BY DEF Streams
  <2>3. c = b
    BY <1>1, <1>2, <2>1, <2>2, BlockTellsBuffer
  <2>4. current_fb_ptr = Base[fut_fb] /\ fut_fb \in Buffers
    BY DEF IndInv, SwapInv, StartInv, Swapping, Waiting
  <2>5. PICK d \in Buffers : d # fut_fb /\ old_ptr = Base[d]
    BY DEF IndInv, SwapInv, Swapping
  <2> QED
    BY <1>1, <2>1, <2>3, <2>4, <2>5, BaseInjective
<1> QED
  BY <1>1, <1>3, <1>4, ChannelStep

\* The handler counts, and wakes whoever waits for the last frame.
LEMMA OnInterruptIndInv == ASSUME IndInv, OnInterrupt PROVE IndInv'
<1> USE DEF IndInv, OnInterrupt, OnFrame, coreVars, futVars
<1>1. /\ swap_waits \in 0 .. SwapWaitCount /\ swap_waits' \in 0 .. SwapWaitCount
      /\ SwapWaitCount \in Nat
      /\ swap_waits' = IF swap_waits > 0 THEN swap_waits - 1 ELSE 0
      /\ frame_count' \in 0 .. FrameCountSpan - 1
  BY GpdmaAssumption DEF TypeOK, WaitsLeft
<1>2. TypeOK'
  BY <1>1 DEF TypeOK, SignalSwapDone
<1>3. StartInv' /\ TableInv'
  BY DEF StartInv, TableInv
<1>4. ItemsFollowBuffer'
  BY DEF ItemsFollowBuffer, Written
<1>5. ChannelInv' /\ SwapInv'
  BY DEF ChannelInv, SwapInv
<1>6. WaitInv'
  BY <1>1 DEF WaitInv, SignalSwapDone, Waiting
<1>7. NoLostWakeup'
  <2> SUFFICES ASSUME pc = "pending" PROVE NoLostWakeup'
    BY DEF NoLostWakeup
  <2>1. (swap_done <=> swap_waits = 0) /\ (IF swap_done THEN woken ELSE swap_waker)
    BY <1>1 DEF WaitInv, NoLostWakeup, Waiting
  <2>2. CASE swap_waits = 1
    <3>1. swap_done' = TRUE /\ woken' = (woken \/ swap_waker)
      BY <2>2 DEF SignalSwapDone
    <3>2. swap_waker
      BY <2>1, <2>2
    <3> QED
      BY <3>1, <3>2, Zenon DEF NoLostWakeup
  <2>3. CASE swap_waits # 1
    <3>1. UNCHANGED <<swap_done, swap_waker, woken>>
      BY <2>3
    <3>2. ~swap_done => swap_waits' > 0
      BY <1>1, <2>1, <2>3
    <3> QED
      BY <2>1, <3>1, <3>2 DEF NoLostWakeup
  <2> QED
    BY <2>2, <2>3
<1>8. SwapWaitCount = 2 => StaleReadIsAwaited'
  BY <1>1 DEF StaleReadIsAwaited, Streams, Old, BuffersAt
<1> QED
  BY <1>2, <1>3, <1>4, <1>5, <1>6, <1>7, <1>8

LEMMA StutterIndInv == ASSUME IndInv, UNCHANGED vars PROVE IndInv'
<1> USE DEF IndInv, vars, coreVars, swapVars, dmaVars, futVars
<1>1. TypeOK' /\ StartInv' /\ TableInv'
  BY DEF TypeOK, StartInv, TableInv
<1>2. ItemsFollowBuffer'
  BY DEF ItemsFollowBuffer, Written
<1>3. ChannelInv' /\ SwapInv' /\ WaitInv' /\ NoLostWakeup'
  BY DEF ChannelInv, SwapInv, WaitInv, NoLostWakeup
<1>4. SwapWaitCount = 2 => StaleReadIsAwaited'
  BY DEF StaleReadIsAwaited, Streams, Old, BuffersAt
<1> QED
  BY <1>1, <1>2, <1>3, <1>4

-------------------------------------------------------------------------------
LEMMA NextIndInv == IndInv /\ [Next]_vars => IndInv'
<1> SUFFICES ASSUME IndInv, [Next]_vars PROVE IndInv'
  OBVIOUS
<1>1. ASSUME NEW b \in Buffers, CallInit(b) \/ Swap(b) PROVE IndInv'
  BY <1>1, CallInitIndInv, SwapIndInv
<1>2. CASE BuildItem \/ New \/ DropHandle
  BY <1>2, BuildItemIndInv, NewIndInv, DropHandleIndInv
<1>3. CASE SwapStart \/ ApplyItemDelta \/ Arm
  BY <1>3, SwapStartIndInv, ApplyItemDeltaIndInv, ArmIndInv
<1>4. CASE PollLoad \/ PollLock \/ Poll \/ SpuriousWake
  BY <1>4, PollLoadIndInv, PollLockIndInv, PollIndInv
<1>5. CASE SwapReturn \/ Cancel
  BY <1>5, SwapReturnIndInv, CancelIndInv
<1>6. CASE RepeatBlock \/ EndItem \/ LoadItem
  BY <1>6, RepeatBlockIndInv, EndItemIndInv, LoadItemIndInv
<1>7. CASE OnInterrupt
  BY <1>7, OnInterruptIndInv
<1>8. CASE UNCHANGED vars
  BY <1>8, StutterIndInv
<1> QED
  BY <1>1, <1>2, <1>3, <1>4, <1>5, <1>6, <1>7, <1>8 DEF Next

\* The inductive invariant holds of every behaviour of the GPDMA backends,
\* with two waits, one, or none.
THEOREM GpdmaInvariance == Spec => []IndInv
BY InitIndInv, NextIndInv, PTL DEF Spec

\* Every variable keeps its type: in particular the descriptors stay
\* descriptors and what the channel loads is one of them.
THEOREM GpdmaTypeCorrect == Spec => []TypeOK
<1>1. IndInv => TypeOK
  BY DEF IndInv
<1> QED
  BY <1>1, GpdmaInvariance, PTL

\* The descriptors in memory are the chain of the current framebuffer, or a
\* prefix of it and the rest of the displaced one's.
THEOREM ChainFollowsSwaps == Spec => []ItemsFollowBuffer
<1>1. IndInv => ItemsFollowBuffer
  BY DEF IndInv
<1> QED
  BY <1>1, GpdmaInvariance, PTL

\* The wakeup of a sleeping swap() is never lost, however many interrupts are
\* merged or served late.
THEOREM GpdmaWakeupIsKept == Spec => []NoLostWakeup
<1>1. IndInv => NoLostWakeup
  BY DEF IndInv
<1> QED
  BY <1>1, GpdmaInvariance, PTL

\* Two waits outlast every descriptor that the channel loaded before swap()
\* patched it, even if the first of the two interrupts is a late one.
THEOREM TwoWaitsDrain == ASSUME SwapWaitCount = 2 PROVE Spec => []StaleReadIsAwaited
<1>1. IndInv => StaleReadIsAwaited
  BY DEF IndInv
<1> QED
  BY <1>1, GpdmaInvariance, PTL

\* With two waits the channel never reads a framebuffer of which the
\* application owns the &mut, and always whole segments.
THEOREM GpdmaScanIsExclusive == ASSUME SwapWaitCount = 2 PROVE Spec => []ChannelReadsDriverBuffer
<1>1. IndInv => ChannelReadsDriverBuffer
  <2> SUFFICES ASSUME IndInv, channel.phase = "block"
               PROVE  DriverBlock(BlockStart(channel.item, channel.block), channel.item.words)
    BY DEF ChannelReadsDriverBuffer
  <2>1. PICK b \in Buffers, k \in 1 .. ItemCount :
          /\ channel.item = ItemFor(b, k)
          /\ channel.block \in 0 .. RepeatAt(k)
          /\ b \notin app
    BY LoadedItem
  <2>2. /\ BlockStart(channel.item, channel.block) = SegmentPtr(b, SegmentAt(k))
        /\ channel.item.words = Words(Length[SegmentAt(k)])
        /\ SegmentAt(k) \in Segments
    BY <2>1, BlocksStartAtSegment, ItemFields, SegmentAtType
  <2> QED
    BY <2>1, <2>2 DEF DriverBlock
<1> QED
  BY <1>1, GpdmaInvariance, PTL

\* What swap() returns is one framebuffer, until then the driver's, that is
\* not the current one.
THEOREM GpdmaReturnIsExclusive == Spec => ExclusiveReturn
<1>1. IndInv /\ [Next]_vars => [ReturnsOneSpare]_vars
  <2> SUFFICES ASSUME IndInv, Next, pc = "finish", pc' = "idle"
               PROVE  \E b \in Buffers \ app : app' = app \cup {b} /\ b \notin Current
    BY DEF ReturnsOneSpare
  <2>1. SwapReturn
    BY DEF Next, CallInit, Swap, BuildItem, New, DropHandle, SwapStart, ApplyItemDelta, Arm,
           PollLoad, PollLock, Poll, SpuriousWake, Cancel, RepeatBlock, EndItem, LoadItem,
           OnInterrupt
  <2>2. fut_fb \in Buffers \ app /\ current_fb_ptr = Base[fut_fb]
    BY DEF IndInv, StartInv, SwapInv, Swapping, Waiting
  <2>3. PICK c \in Buffers \ app : c # fut_fb /\ old_ptr = Base[c]
    BY DEF IndInv, SwapInv, Swapping, Waiting
  <2>4. app' = app \cup {c}
    BY <2>1, <2>3, BuffersAtBase DEF SwapReturn
  <2>5. Current = {fut_fb}
    BY <2>2, BuffersAtBase DEF Current
  <2> QED
    BY <2>3, <2>4, <2>5
<1> QED
  BY <1>1, GpdmaInvariance, PTL DEF Spec, ExclusiveReturn

-------------------------------------------------------------------------------
(***************************************************************************)
(* Nothing leaks.                                                          *)
(***************************************************************************)
LEMMA InitOwners == Init => OwnersInv
BY DEF Init, OwnersInv, NothingLeaks

\* Steps that change neither ownership nor any pointer to a framebuffer.
LEMMA SilentOwners ==
  ASSUME OwnersInv,
         UNCHANGED <<initialised, handle, current_fb_ptr, app, fut_fb, old_ptr, leaked>>,
         pc \in Swapping <=> pc' \in Swapping
  PROVE  OwnersInv'
<1>1. Current' = Current /\ Old' = Old
  BY DEF Current, Old
<1> QED
  BY <1>1 DEF OwnersInv, NothingLeaks

LEMMA NextOwners == IndInv /\ OwnersInv /\ [Next]_vars => OwnersInv'
<1> SUFFICES ASSUME IndInv, OwnersInv, [Next]_vars, ~leaked' PROVE OwnersInv'
  BY DEF OwnersInv
<1>0. /\ None \notin Buffers
      /\ IF pc = "idle" THEN fut_fb = None ELSE fut_fb \in Buffers \ app /\ fut_fb # None
  BY GpdmaAssumption DEF IndInv, StartInv
<1>1. ASSUME NEW b \in Buffers, CallInit(b) PROVE OwnersInv'
  <2>1. /\ ~leaked /\ ~initialised /\ app = Buffers /\ app' = app \ {b} /\ fut_fb' = b
        /\ b # None /\ ~initialised'
    BY <1>0, <1>1 DEF CallInit, OwnersInv, coreVars
  <2> QED
    BY <2>1 DEF OwnersInv, NothingLeaks
<1>2. ASSUME NEW b \in Buffers, Swap(b) PROVE OwnersInv'
  <2>1. Current' = Current /\ pc \notin Swapping /\ pc' \notin Swapping
    BY <1>2 DEF Swap, coreVars, Current, Swapping, Waiting
  <2>2. /\ ~leaked /\ initialised /\ initialised' /\ handle'
        /\ fut_fb = None /\ fut_fb' = b /\ b # None /\ app' = app \ {b}
    BY <1>0, <1>2 DEF Swap, coreVars, IndInv, StartInv
  <2> QED
    BY <2>1, <2>2 DEF OwnersInv, NothingLeaks
<1>3. CASE New
  <2>1. /\ ~leaked /\ ~initialised /\ app = Buffers \ {fut_fb} /\ app' = app
        /\ initialised' /\ handle' /\ fut_fb' = None /\ pc' \notin Swapping
    <3>1. ~leaked /\ ~handle /\ pc = "build" /\ pc' = "idle"
      BY <1>3 DEF New, IndInv, StartInv
    <3>2. ~initialised /\ fut_fb # None
      BY <1>0, <3>1 DEF OwnersInv
    <3> QED
      BY <1>3, <3>1, <3>2 DEF New, OwnersInv, StoreTimer, Swapping, Waiting
  <2>2. Current' = {fut_fb}
    BY <1>0, <1>3, BuffersAtBase DEF New, Current
  <2> QED
    BY <2>1, <2>2 DEF OwnersInv, NothingLeaks
<1>4. CASE SwapStart
  <2>1. /\ ~leaked /\ initialised /\ initialised' /\ handle' /\ app' = app
        /\ fut_fb' = fut_fb /\ fut_fb # None
        /\ pc \notin Swapping /\ pc' \in Swapping
    BY <1>0, <1>4 DEF SwapStart, OwnersInv, IndInv, StartInv, Swapping, Waiting
  <2>2. Current' = {fut_fb} /\ Old' = Current
    BY <1>0, <1>4, BuffersAtBase DEF SwapStart, DisplacedPtr, Current, Old
  <2> QED
    BY <2>1, <2>2 DEF OwnersInv, NothingLeaks
<1>5. CASE SwapReturn
  <2>1. /\ fut_fb \in Buffers \ app /\ initialised /\ handle
        /\ current_fb_ptr = Base[fut_fb] /\ pc \in Swapping
    BY <1>5 DEF SwapReturn, IndInv, StartInv, SwapInv, Swapping, Waiting
  <2>2. PICK c \in Buffers \ app : c # fut_fb /\ old_ptr = Base[c]
    BY <2>1 DEF IndInv, SwapInv
  <2>3. Current = {fut_fb} /\ Current' = {fut_fb} /\ Old = {c}
    BY <1>5, <2>1, <2>2, BuffersAtBase DEF SwapReturn, coreVars, Current, Old
  <2>4. /\ ~leaked /\ initialised' /\ handle' /\ app' = app \cup {c} /\ fut_fb' = None
        /\ pc' \notin Swapping /\ fut_fb # None
    BY <1>0, <1>5, <2>1, <2>2, BuffersAtBase
    DEF SwapReturn, EndSwap, coreVars, Swapping, Waiting
  <2> QED
    BY <2>1, <2>2, <2>3, <2>4 DEF OwnersInv, NothingLeaks
<1>6. CASE DropHandle \/ Cancel
  BY <1>6 DEF DropHandle, Cancel
<1>7. CASE BuildItem \/ ApplyItemDelta \/ Arm \/ PollLoad \/ PollLock \/ Poll \/ SpuriousWake
  <2>1. /\ UNCHANGED <<initialised, handle, current_fb_ptr, app, fut_fb, old_ptr, leaked>>
        /\ pc \in Swapping <=> pc' \in Swapping
    BY <1>7 DEF BuildItem, ApplyItemDelta, Arm, PollLoad, PollLock, Poll, SpuriousWake,
                coreVars, futVars, Swapping, Waiting
  <2> QED
    BY <2>1, SilentOwners
<1>8. CASE RepeatBlock \/ EndItem \/ LoadItem \/ OnInterrupt \/ UNCHANGED vars
  <2>1. UNCHANGED <<initialised, handle, current_fb_ptr, app, pc, fut_fb, old_ptr, leaked>>
    BY <1>8 DEF RepeatBlock, EndItem, LoadItem, OnInterrupt, vars, coreVars, futVars
  <2> QED
    BY <2>1, SilentOwners
<1> QED
  BY <1>1, <1>2, <1>3, <1>4, <1>5, <1>6, <1>7, <1>8 DEF Next

\* Unless a swap is cancelled or the Hub75 dropped, no framebuffer is ever out
\* of reach: each is the application's, the call's, current or displaced.
THEOREM GpdmaNoneIsLost == Spec => []NothingLeaks
<1>1. OwnersInv => NothingLeaks
  <2> SUFFICES ASSUME OwnersInv, ~leaked, initialised PROVE NothingLeaks
    BY DEF NothingLeaks
  <2> QED
    BY DEF OwnersInv
<1> QED
  BY <1>1, InitOwners, NextOwners, GpdmaInvariance, PTL DEF Spec

-------------------------------------------------------------------------------
(***************************************************************************)
(* The GPDMA backends implement Handover: each step of Gpdma is a step of  *)
(* Handover under the mapping H, or leaves all that it speaks of           *)
(* unchanged.                                                              *)
(***************************************************************************)
\* A descriptor leads to the one framebuffer whose item it is, one that has
\* not been written yet to none.
LEMMA ItemLeadsTo ==
  ASSUME NEW b \in Buffers, NEW c \in Buffers, NEW k \in 1 .. ItemCount, NEW i \in Segments,
         ItemFor(b, k).sar = SegmentPtr(c, i)
  PROVE  c = b
BY ItemFields, SegmentAtType, DisjointAssumption

LEMMA ZeroedLeadsNowhere ==
  ASSUME NEW b \in Buffers, NEW i \in Segments
  PROVE  ZeroedItem.sar # SegmentPtr(b, i)
BY LayoutAssumption DEF ZeroedItem, Null

\* A whole chain leads to its framebuffer only.
LEMMA LedToOne ==
  ASSUME NEW table \in [1 .. ItemCount -> ItemType], NEW b \in Buffers,
         \A k \in 1 .. ItemCount : table[k] = ItemFor(b, k)
  PROVE  LedTo(table) = {b}
<1>1. 1 \in 1 .. ItemCount
  BY ItemCountType
<1>2. table[1].sar = SegmentPtr(b, SegmentAt(1)) /\ SegmentAt(1) \in Segments
  BY <1>1, ItemFields, SegmentAtType
<1>3. \A k \in 1 .. ItemCount, i \in Segments, x \in Buffers :
        table[k].sar = SegmentPtr(x, i) => x = b
  BY ItemLeadsTo
<1> QED
  BY <1>1, <1>2, <1>3 DEF LedTo

\* While nobody writes the table it leads to the current framebuffer only.
LEMMA LedToCurrent ==
  ASSUME IndInv, initialised, pc \notin {"build", "patch"}, NEW b \in Buffers,
         current_fb_ptr = Base[b]
  PROVE  LedTo(items) = {b}
<1>1. PICK c \in Buffers \ app :
        Base[c] = current_fb_ptr /\ \A k \in 1 .. ItemCount : items[k] = ItemFor(c, k)
  BY WholeTable
<1>2. c = b
  BY <1>1, BaseInjective
<1> QED
  BY <1>1, <1>2, TableShape, LedToOne

\* Wherever descriptor n leads, those that are behind it do too.
RestAlike(table, n) ==
  \A c \in Buffers, i \in Segments, k \in 1 .. ItemCount :
    table[n].sar = SegmentPtr(c, i) /\ k >= n => \E j \in Segments : table[k].sar = SegmentPtr(c, j)

\* Writing one descriptor of a framebuffer links it; with the last one nothing
\* else is linked any more.
LEMMA OneMoreLink ==
  ASSUME NEW table \in [1 .. ItemCount -> ItemType], NEW n \in 1 .. ItemCount,
         NEW b \in Buffers, NEW new \in [1 .. ItemCount -> ItemType],
         new[n] = ItemFor(b, n),
         \A k \in 1 .. ItemCount : k # n => new[k] = table[k],
         \A k \in 1 .. ItemCount : k <= n - 1 => table[k] = ItemFor(b, k),
         RestAlike(table, n)
  PROVE  LedTo(new) = IF n = ItemCount THEN {b} ELSE LedTo(table) \cup {b}
<1>0. n - 1 \in Nat /\ ItemCount \in Nat
  BY ItemCountType
<1>1. b \in LedTo(new)
  BY ItemFields, SegmentAtType DEF LedTo
<1>2. ASSUME NEW x \in LedTo(new) PROVE x = b \/ (n # ItemCount /\ x \in LedTo(table))
  <2>1. PICK k \in 1 .. ItemCount, i \in Segments : new[k].sar = SegmentPtr(x, i) /\ x \in Buffers
    BY DEF LedTo
  <2>2. CASE k <= n
    <3>1. new[k] = ItemFor(b, k)
      BY <1>0, <2>2
    <3> QED
      BY <2>1, <3>1, ItemLeadsTo
  <2>3. CASE k > n
    <3>1. table[k].sar = SegmentPtr(x, i) /\ n # ItemCount
      BY <1>0, <2>1, <2>3
    <3> QED
      BY <2>1, <3>1 DEF LedTo
  <2> QED
    BY <1>0, <2>2, <2>3
<1>3. ASSUME n # ItemCount, NEW x \in LedTo(table) PROVE x \in LedTo(new)
  <2>1. PICK k \in 1 .. ItemCount, i \in Segments : table[k].sar = SegmentPtr(x, i) /\ x \in Buffers
    BY DEF LedTo
  <2>2. CASE k <= n - 1
    <3>1. x = b
      BY <2>1, <2>2, ItemLeadsTo
    <3> QED
      BY <1>1, <3>1
  <2>3. CASE k = n
    <3>1. n + 1 \in 1 .. ItemCount /\ n + 1 >= n /\ n + 1 # n
      BY <1>0, <1>3
    <3>2. PICK j \in Segments : table[n + 1].sar = SegmentPtr(x, j)
      BY <2>1, <2>3, <3>1 DEF RestAlike
    <3>3. new[n + 1].sar = SegmentPtr(x, j)
      BY <3>1, <3>2
    <3> QED
      BY <2>1, <3>1, <3>3 DEF LedTo
  <2>4. CASE k > n
    <3>1. new[k].sar = SegmentPtr(x, i)
      BY <2>1, <2>4
    <3> QED
      BY <2>1, <3>1 DEF LedTo
  <2> QED
    BY <1>0, <2>2, <2>3, <2>4
<1> QED
  BY <1>1, <1>2, <1>3

-------------------------------------------------------------------------------
\* None is no framebuffer.
LEMMA NoneIsNoBuffer == \A b \in Buffers : b # None
BY GpdmaAssumption

\* What is streamed depends on the channel only.
LEMMA StreamedUnchanged == ASSUME UNCHANGED channel PROVE Streamed' = Streamed
BY DEF Streamed, Streams

\* A channel that streams an item of a framebuffer streams that framebuffer.
LEMMA StreamsItsItem ==
  ASSUME NEW b \in Buffers, NEW k \in 1 .. ItemCount,
         channel.phase = "block", channel.item = ItemFor(b, k),
         channel.block \in 0 .. RepeatAt(k)
  PROVE  Streamed = b
<1>1. BlockStart(channel.item, channel.block) = SegmentPtr(b, SegmentAt(k))
  BY BlocksStartAtSegment
<1>2. Streams(b)
  BY <1>1, SegmentAtType DEF Streams
<1>3. ASSUME NEW c \in Buffers, Streams(c) PROVE c = b
  BY <1>3, BlockTellsBuffer DEF Streams
<1> QED
  BY <1>2, <1>3 DEF Streamed

LEMMA InitMapsHandover == Init => H!Init
<1> SUFFICES ASSUME Init PROVE H!Init
  OBVIOUS
<1>1. \A k \in DOMAIN items : items[k] = ZeroedItem
  BY DEF Init
<1>2. LedTo(items) = {}
  BY <1>1, ZeroedLeadsNowhere DEF LedTo
<1>3. Streamed = None
  BY DEF Init, NewChannel, Streamed
<1> QED
  BY <1>2, <1>3 DEF H!Init, Init

-------------------------------------------------------------------------------
\* A framebuffer given to init() or to swap().
LEMMA GiveMaps == ASSUME NEW b \in Buffers, CallInit(b) \/ Swap(b) PROVE H!Give(b)
<1>1. UNCHANGED channel /\ items' = items
  BY DEF CallInit, Swap, coreVars, dmaVars
<1>2. LedTo(items') = LedTo(items) /\ Streamed' = Streamed
  BY <1>1, StreamedUnchanged
<1> QED
  BY <1>2 DEF H!Give, CallInit, Swap

\* One descriptor more of init()'s chain.
LEMMA BuildItemMaps ==
  ASSUME IndInv, BuildItem
  PROVE  fut_fb \in Buffers /\ (H!Link(fut_fb) \/ H!Relinked(fut_fb))
<1> DEFINE n == patched + 1
<1>1. /\ fut_fb \in Buffers \ app
      /\ items \in [1 .. ItemCount -> ItemType]
      /\ patched \in Nat /\ n \in 1 .. ItemCount
      /\ items' \in [1 .. ItemCount -> ItemType]
      /\ items'[n] = ItemFor(fut_fb, n)
      /\ \A k \in 1 .. ItemCount : k # n => items'[k] = items[k]
  BY BuildItemWrites
<1>2. /\ \A k \in 1 .. ItemCount : k <= n - 1 => items[k] = ItemFor(fut_fb, k)
      /\ RestAlike(items, n)
  <2>1. CASE initialised
    <3>1. PICK b \in Buffers, c \in Buffers :
            /\ Base[b] = Base[fut_fb]
            /\ \A k \in 1 .. ItemCount : items[k] = ItemFor(IF k > patched THEN c ELSE b, k)
      BY <2>1, RunningTable DEF BuildItem, Written
    <3>2. b = fut_fb
      BY <1>1, <3>1, BaseInjective
    <3>3. \A k \in 1 .. ItemCount : k >= n => items[k] = ItemFor(c, k)
      BY <1>1, <3>1
    <3> QED
      BY <1>1, <3>1, <3>2, <3>3, ItemLeadsTo, ItemFields, SegmentAtType DEF RestAlike
  <2>2. CASE ~initialised
    <3>1. \A k \in 1 .. ItemCount : k <= n - 1 => items[k] = ItemFor(fut_fb, k)
      BY <1>1, <2>2, FirstTable DEF BuildItem
    <3>2. items[n] = ZeroedItem
      BY <1>1, <2>2, FirstTable
    <3> QED
      BY <3>1, <3>2, ZeroedLeadsNowhere DEF RestAlike
  <2> QED
    BY <2>1, <2>2
<1>3. LedTo(items') = IF n = ItemCount THEN {fut_fb} ELSE LedTo(items) \cup {fut_fb}
  BY <1>1, <1>2, OneMoreLink
<1>4. Streamed' = Streamed /\ app' = app
  BY StreamedUnchanged DEF BuildItem, dmaVars
<1> QED
  BY <1>1, <1>3, <1>4 DEF H!Link, H!Relinked

\* One descriptor more that swap() has patched.
LEMMA ApplyItemDeltaMaps ==
  ASSUME IndInv, ApplyItemDelta
  PROVE  fut_fb \in Buffers /\ (H!Link(fut_fb) \/ H!Relinked(fut_fb))
<1> DEFINE n == patched + 1
<1>1. PICK c \in Buffers :
        /\ fut_fb \in Buffers \ app
        /\ \A k \in 1 .. ItemCount : items[k] = ItemFor(IF k > patched THEN c ELSE fut_fb, k)
        /\ items \in [1 .. ItemCount -> ItemType]
        /\ patched \in Nat /\ n \in 1 .. ItemCount
        /\ items' \in [1 .. ItemCount -> ItemType]
        /\ items'[n] = ItemFor(fut_fb, n)
        /\ \A k \in 1 .. ItemCount : k # n => items'[k] = items[k]
  BY ApplyItemDeltaShifts
<1>2. /\ \A k \in 1 .. ItemCount : k <= n - 1 => items[k] = ItemFor(fut_fb, k)
      /\ \A k \in 1 .. ItemCount : k >= n => items[k] = ItemFor(c, k)
  BY <1>1
<1>3. RestAlike(items, n)
  BY <1>1, <1>2, ItemLeadsTo, ItemFields, SegmentAtType DEF RestAlike
<1>4. LedTo(items') = IF n = ItemCount THEN {fut_fb} ELSE LedTo(items) \cup {fut_fb}
  BY <1>1, <1>2, <1>3, OneMoreLink
<1>5. Streamed' = Streamed /\ app' = app
  BY StreamedUnchanged DEF ApplyItemDelta, dmaVars
<1> QED
  BY <1>1, <1>4, <1>5 DEF H!Link, H!Relinked

\* swap() returns the displaced framebuffer: no descriptor leads to it, and
\* with two waits the channel has left it.
LEMMA SwapReturnMaps ==
  ASSUME IndInv, SwapReturn
  PROVE  \E c \in Buffers : H!Return(c)
<1>1. fut_fb \in Buffers /\ current_fb_ptr = Base[fut_fb] /\ initialised /\ pc = "finish"
  BY DEF SwapReturn, IndInv, StartInv, SwapInv, Swapping, Waiting
<1>2. PICK c \in Buffers \ app : c # fut_fb /\ old_ptr = Base[c]
  BY DEF SwapReturn, IndInv, SwapInv, Swapping, Waiting
<1>3. app' = app \cup {c}
  BY <1>2, BuffersAtBase DEF SwapReturn
<1>4. LedTo(items) = {fut_fb}
  BY <1>1, LedToCurrent
<1>5. SwapWaitCount = 2 => c # Streamed
  <2> SUFFICES ASSUME SwapWaitCount = 2, c = Streamed PROVE FALSE
    OBVIOUS
  <2>1. channel.phase = "block"
    BY NoneIsNoBuffer DEF Streamed
  <2>2. PICK b \in Buffers, k \in 1 .. ItemCount :
          channel.item = ItemFor(b, k) /\ channel.block \in 0 .. RepeatAt(k)
    BY <2>1, LoadedItem
  <2>3. Streams(c)
    BY <2>1, <2>2, BlocksStartAtSegment, StreamsItsItem, SegmentAtType DEF Streams
  <2>4. c \in Old
    BY <1>2, BuffersAtBase DEF Old
  <2> QED
    BY <1>1, <2>3, <2>4 DEF IndInv, StaleReadIsAwaited, WaitInv, Waiting
<1>6. UNCHANGED channel /\ items' = items
  BY DEF SwapReturn, coreVars, dmaVars
<1>7. Streamed' = Streamed /\ LedTo(items') = LedTo(items)
  BY <1>6, StreamedUnchanged
<1> QED
  BY <1>2, <1>3, <1>4, <1>5, <1>7 DEF H!Return

-------------------------------------------------------------------------------
\* The channel loads a descriptor of the table ...
LEMMA LoadItemMaps == ASSUME IndInv, LoadItem PROVE H!Stream
<1>1. UNCHANGED <<app, items>>
  BY DEF LoadItem, coreVars
<1>2. PICK k \in 1 .. ItemCount : channel.next = AddressOf(k)
  BY TableShape DEF LoadItem, IndInv, ChannelInv, AddressOf
<1>3. PICK b \in Buffers, l \in 1 .. ItemCount :
        channel'.phase = "block" /\ channel'.item = ItemFor(b, l) /\ channel'.block = 0
  BY LoadedFromTable
<1>4. channel'.item = items[k]
  <2>1. ItemAt(channel.next) = items[k]
    BY <1>2, ItemAtAddress, ItemCountType
  <2> QED
    BY <2>1 DEF LoadItem, IndInv, TypeOK
<1>5. b \in LedTo(items)
  <2>0. items[k] = ItemFor(b, l)
    BY <1>3, <1>4
  <2>1. items[k].sar = SegmentPtr(b, SegmentAt(l)) /\ SegmentAt(l) \in Segments
    BY <2>0, ItemFields, SegmentAtType
  <2>2. k \in DOMAIN items
    BY TableShape
  <2> QED
    BY <2>1, <2>2 DEF LedTo
<1>6. Streamed' = b
  <2>1. channel'.block \in 0 .. RepeatAt(l)
    BY <1>3, RepeatAtType
  <2> QED
    BY <1>3, <2>1, BlocksStartAtSegment, BlockTellsBuffer, SegmentAtType DEF Streamed, Streams
<1> QED
  BY <1>1, <1>5, <1>6 DEF H!Stream

\* ... and after its last block streams nothing.
LEMMA EndItemMaps == ASSUME IndInv, EndItem PROVE H!Stream
<1>1. UNCHANGED <<app, items>>
  BY DEF EndItem, coreVars
<1>2. channel'.phase = "load"
  BY DEF EndItem, IndInv, TypeOK
<1> QED
  BY <1>1, <1>2 DEF H!Stream, Streamed

\* Hub75::new starts the channel anew, or it goes on.
LEMMA NewMaps ==
  ASSUME IndInv, New
  PROVE  H!Stream \/ UNCHANGED <<app, LedTo(items), Streamed>>
<1>1. UNCHANGED <<app, items>>
  BY DEF New
<1>2. CASE channel' = NewChannel("load")
  BY <1>1, <1>2, NewChannelType DEF H!Stream, Streamed
<1>3. CASE UNCHANGED channel
  BY <1>1, <1>3, StreamedUnchanged
<1> QED
  BY <1>2, <1>3 DEF New, StartChannel

\* The next repetition of a block is of the same segment.
LEMMA RepeatBlockMaps ==
  ASSUME IndInv, RepeatBlock
  PROVE  UNCHANGED <<app, LedTo(items), Streamed>>
<1>1. UNCHANGED <<app, items>>
  BY DEF RepeatBlock, coreVars
<1>2. PICK b \in Buffers, k \in 1 .. ItemCount :
        channel.item = ItemFor(b, k) /\ channel.block \in 0 .. RepeatAt(k)
  BY LoadedItem DEF RepeatBlock
<1>3. /\ channel'.phase = "block" /\ channel'.item = ItemFor(b, k)
      /\ channel'.block \in 0 .. RepeatAt(k)
  <2>1. channel.item.repeat = RepeatAt(k) /\ RepeatAt(k) \in Nat
    BY <1>2, ItemFields, RepeatAtType
  <2> QED
    BY <1>2, <2>1 DEF RepeatBlock, IndInv, TypeOK
<1>4. Streamed = b
  BY <1>2, StreamsItsItem DEF RepeatBlock
<1>5. Streamed' = b
  BY <1>3, BlocksStartAtSegment, BlockTellsBuffer, SegmentAtType DEF Streamed, Streams
<1> QED
  BY <1>1, <1>4, <1>5

\* Steps of the executor and of the handler.
LEMMA SilentMaps ==
  ASSUME DropHandle \/ SwapStart \/ Arm \/ PollLoad \/ PollLock \/ Poll \/ SpuriousWake
           \/ Cancel \/ OnInterrupt \/ UNCHANGED vars
  PROVE  UNCHANGED <<app, LedTo(items), Streamed>>
<1>1. UNCHANGED <<app, items, channel>>
  BY DEF DropHandle, SwapStart, Arm, PollLoad, PollLock, Poll, SpuriousWake, Cancel,
         OnInterrupt, vars, coreVars, dmaVars
<1> QED
  BY <1>1, StreamedUnchanged

LEMMA NextMapsHandover ==
  IndInv /\ [Next]_vars => [H!Next]_<<app, LedTo(items), Streamed>>
<1> SUFFICES ASSUME IndInv, [Next]_vars
             PROVE  H!Next \/ UNCHANGED <<app, LedTo(items), Streamed>>
  OBVIOUS
<1>1. ASSUME NEW b \in Buffers, CallInit(b) \/ Swap(b) PROVE H!Next
  BY <1>1, GiveMaps DEF H!Next
<1>2. CASE BuildItem
  BY <1>2, BuildItemMaps DEF H!Next
<1>3. CASE ApplyItemDelta
  BY <1>3, ApplyItemDeltaMaps DEF H!Next
<1>4. CASE SwapReturn
  BY <1>4, SwapReturnMaps DEF H!Next
<1>5. CASE LoadItem
  BY <1>5, LoadItemMaps DEF H!Next
<1>6. CASE EndItem
  BY <1>6, EndItemMaps DEF H!Next
<1>7. CASE New
  BY <1>7, NewMaps DEF H!Next
<1>8. CASE RepeatBlock
  BY <1>8, RepeatBlockMaps
<1>9. CASE DropHandle \/ SwapStart \/ Arm \/ PollLoad \/ PollLock \/ Poll \/ SpuriousWake
             \/ Cancel \/ OnInterrupt \/ UNCHANGED vars
  BY <1>9, SilentMaps
<1> QED
  BY <1>1, <1>2, <1>3, <1>4, <1>5, <1>6, <1>7, <1>8, <1>9 DEF Next

\* The GPDMA backends keep the promise of swap() that Handover states: a
\* framebuffer comes back only when no descriptor leads to it and, with two
\* waits, when the channel is not streaming it; with fewer waits only the
\* descriptor that the channel has loaded may still be of it.
THEOREM GpdmaRefines == Spec => ImplementsHandover
BY InitMapsHandover, GpdmaInvariance, NextMapsHandover, PTL DEF Spec, ImplementsHandover, H!Spec
================================================================================
