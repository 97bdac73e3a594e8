---------------------------- MODULE PlainDmaProofs ----------------------------
(***************************************************************************)
(* Proofs about the plain DMA backend, for every set of framebuffers and   *)
(* placement of them in memory, every segment sequence, with or without a  *)
(* shared interrupt vector and repeated init().                            *)
(***************************************************************************)
EXTENDS PlainDma, TLAPS

LEMMA WordsType ==
  ASSUME NEW len \in Nat
  PROVE  Words(len) \in Nat
BY DEF Words

\* Advancing stays within the frame, and on a repetition that exists.
LEMMA AdvanceStaysInFrame ==
  ASSUME BcmTypeOK, Advance, count = SegmentCount, current_segment \in Segments,
         segments[current_segment].reps = Reps[current_segment]
  PROVE  /\ current_segment' \in Segments
         /\ current_rep' \in Nat
         /\ current_rep' < Reps[current_segment']
<1>1. Reps[current_segment] \in Nat \ {0} /\ current_rep \in Nat /\ current_segment \in Nat
  BY LayoutAssumption DEF BcmTypeOK, Segments
<1>2. current_segment' \in Segments
  BY <1>1, LayoutAssumption DEF Advance, FrameBoundary, RepsDone, Segments
<1>3. Reps[current_segment'] \in Nat \ {0}
  BY <1>2, LayoutAssumption
<1>4. CASE RepsDone
  BY <1>2, <1>3, <1>4 DEF Advance
<1>5. CASE ~RepsDone
  BY <1>1, <1>2, <1>5 DEF Advance, RepsDone, FrameBoundary
<1> QED
  BY <1>4, <1>5

LEMMA SegmentsAreSlots == Segments \subseteq Slots /\ 0 \in Segments
BY LayoutAssumption, CapacityAssumption DEF Segments, Slots

LEMMA BcmSegmentType ==
  ASSUME NEW b \in Buffers, NEW k \in Segments
  PROVE  BcmSegment(b, k) \in [ptr : Address, len : Nat, reps : Nat]
BY SegmentPtrType, LayoutAssumption DEF BcmSegment

-------------------------------------------------------------------------------
LEMMA InitIndInv == Init => IndInv
<1> SUFFICES ASSUME Init PROVE IndInv
  OBVIOUS
<1> USE DEF Init, BcmInit
<1>1. TypeOK
  <2>1. Null \in Address
    BY LayoutAssumption DEF Null, Address, AddressSpace
  <2>2. BcmTypeOK
    BY <2>1, SegmentsAreSlots, LayoutAssumption, CapacityAssumption DEF BcmTypeOK, EmptySegment
  <2>3. dma \in [busy : BOOLEAN, ptr : Address, words : Nat]
    BY <2>1
  <2>4. frame_count \in 0 .. FrameCountSpan - 1
    BY PlainDmaAssumption
  <2> QED
    BY <2>1, <2>2, <2>3, <2>4 DEF TypeOK, Phases
<1>2. StartInv /\ CacheInv /\ ChannelInv /\ PendingInv /\ SwapInv /\ NoLostWakeup
  BY DEF StartInv, CacheInv, ChannelInv, PendingInv, SwapInv, NoLostWakeup, Waiting
<1> QED
  BY <1>1, <1>2 DEF IndInv

\* init() loads the cache with the segments of the framebuffer it is given.
LEMMA NewIndInv == ASSUME IndInv, NEW b \in Buffers, New(b) PROVE IndInv'
<1> USE DEF IndInv, New
<1>0. /\ Null \in Address
      /\ Base[b] \in Address
      /\ \A k \in Segments : segments'[k] = BcmSegment(b, k)
      /\ current_segment' = 0
  <2>1. \A k \in Segments : k \in Slots /\ k < SegmentCount
    BY SegmentsAreSlots, LayoutAssumption DEF Segments
  <2> QED
    BY <2>1, BaseInjective, LayoutAssumption DEF Load, Null, Address, AddressSpace
<1>1. BcmTypeOK'
  <2>1. \A k \in Slots : k < SegmentCount => k \in Segments
    BY LayoutAssumption DEF Slots, Segments
  <2>2. segments' \in [Slots -> [ptr : Address, len : Nat, reps : Nat]]
    BY <1>0, <2>1, BcmSegmentType DEF Load, EmptySegment
  <2> QED
    BY <2>2, SegmentsAreSlots, LayoutAssumption DEF BcmTypeOK, Load
<1>2. dma' \in [busy : BOOLEAN, ptr : Address, words : Nat]
  BY <1>0, <1>1, SegmentsAreSlots, WordsType DEF BcmTypeOK, Kick
<1>3. TypeOK'
  <2>1. frame_count' \in 0 .. FrameCountSpan - 1
    BY PlainDmaAssumption
  <2> QED
    BY <1>0, <1>1, <1>2, <2>1 DEF TypeOK
<1>4. CacheInv'
  <2>1. 0 \in Segments /\ 0 < Reps[0]
    BY SegmentsAreSlots, LayoutAssumption
  <2>2. count' = SegmentCount /\ current_segment' = 0 /\ current_rep' = 0
    BY DEF Load
  <2>3. b \in Buffers \ app' /\ current_fb_ptr' = Base[b]
    OBVIOUS
  <2> QED
    BY <1>0, <2>1, <2>2, <2>3 DEF CacheInv
<1>5. ChannelInv'
  BY DEF ChannelInv, Kick
<1>6. pc = "idle" /\ pc' = "idle"
  BY DEF StartInv
<1>7. (StartInv /\ PendingInv /\ SwapInv /\ NoLostWakeup)'
  BY <1>6 DEF StartInv, PendingInv, SwapInv, NoLostWakeup, Waiting
<1> QED
  BY <1>3, <1>4, <1>5, <1>7

LEMMA DropHandleIndInv == ASSUME IndInv, DropHandle PROVE IndInv'
<1> USE DEF IndInv, DropHandle, bcmVars, coreVars, swapVars, dmaVars
<1>1. TypeOK'
  BY DEF TypeOK, BcmTypeOK
<1>2. (StartInv /\ CacheInv /\ ChannelInv)'
  BY DEF StartInv, CacheInv, ChannelInv
<1>3. (PendingInv /\ SwapInv /\ NoLostWakeup)'
  BY DEF PendingInv, SwapInv, NoLostWakeup, Waiting
<1> QED
  BY <1>1, <1>2, <1>3

\* What is given to swap() is not on display and not queued: those two are
\* the driver's.
LEMMA SwapIndInv == ASSUME IndInv, NEW b \in Buffers, Swap(b) PROVE IndInv'
<1> USE DEF IndInv, Swap, bcmVars, coreVars, swapVars, dmaVars
<1>1. TypeOK'
  BY DEF TypeOK, BcmTypeOK, Phases
<1>2. initialised
  BY DEF StartInv
<1>3. (StartInv /\ CacheInv /\ ChannelInv /\ PendingInv)'
  BY DEF StartInv, CacheInv, ChannelInv, PendingInv
<1>4. Base[b] \notin {current_fb_ptr, pending_fb_ptr}
  BY <1>2, BaseInjective DEF CacheInv, PendingInv
<1>5. (SwapInv /\ NoLostWakeup)'
  BY <1>4 DEF SwapInv, NoLostWakeup, Waiting
<1> QED
  BY <1>1, <1>3, <1>5

LEMMA SwapQueueIndInv == ASSUME IndInv, SwapQueue PROVE IndInv'
<1> USE DEF IndInv, SwapQueue, bcmVars, dmaVars
<1>1. fut_fb \in Buffers \ app /\ initialised
  BY DEF StartInv
<1>2. current_fb_ptr \in Address /\ Base[fut_fb] \in Address
  BY <1>1, BaseInjective DEF TypeOK
<1>3. PointerDelta(Base[fut_fb], current_fb_ptr) \in Int
  BY <1>2, PointerDeltaType, LayoutAssumption
<1>4. TypeOK'
  BY <1>2, <1>3 DEF TypeOK, BcmTypeOK, Phases
<1>5. (StartInv /\ CacheInv /\ ChannelInv)'
  BY DEF StartInv, CacheInv, ChannelInv
<1>6. PendingInv'
  BY <1>1, <1>3, PlainDmaAssumption DEF PendingInv, SwapInv
<1>7. (SwapInv /\ NoLostWakeup)'
  BY <1>3, PlainDmaAssumption DEF SwapInv, NoLostWakeup, Waiting
<1> QED
  BY <1>4, <1>5, <1>6, <1>7

LEMMA PollLoadIndInv == ASSUME IndInv, PollLoad PROVE IndInv'
<1> USE DEF IndInv, PollLoad, bcmVars, coreVars, swapVars, dmaVars
<1>1. TypeOK'
  BY DEF TypeOK, BcmTypeOK, Phases
<1>2. (StartInv /\ CacheInv /\ ChannelInv /\ PendingInv)'
  BY DEF StartInv, CacheInv, ChannelInv, PendingInv
<1>3. (SwapInv /\ NoLostWakeup)'
  BY DEF SwapInv, NoLostWakeup, Waiting
<1> QED
  BY <1>1, <1>2, <1>3

\* The second look at swap_done makes the registration safe.
LEMMA PollLockIndInv == ASSUME IndInv, PollLock PROVE IndInv'
<1> USE DEF IndInv, PollLock, bcmVars, coreVars, dmaVars
<1>1. TypeOK'
  BY DEF TypeOK, BcmTypeOK, Phases
<1>2. (StartInv /\ CacheInv /\ ChannelInv /\ PendingInv)'
  BY DEF StartInv, CacheInv, ChannelInv, PendingInv
<1>3. (SwapInv /\ NoLostWakeup)'
  BY DEF SwapInv, NoLostWakeup, Waiting
<1> QED
  BY <1>1, <1>2, <1>3

LEMMA PollIndInv == ASSUME IndInv, Poll PROVE IndInv'
<1> USE DEF IndInv, Poll, bcmVars, coreVars, swapVars, dmaVars
<1>1. TypeOK'
  BY DEF TypeOK, BcmTypeOK, Phases
<1>2. (StartInv /\ CacheInv /\ ChannelInv /\ PendingInv)'
  BY DEF StartInv, CacheInv, ChannelInv, PendingInv
<1>3. (SwapInv /\ NoLostWakeup)'
  BY DEF SwapInv, NoLostWakeup, Waiting
<1> QED
  BY <1>1, <1>2, <1>3

LEMMA SpuriousWakeIndInv == ASSUME IndInv, SpuriousWake PROVE IndInv'
<1> USE DEF IndInv, SpuriousWake, bcmVars, coreVars, swapVars, dmaVars
<1>1. TypeOK'
  BY DEF TypeOK, BcmTypeOK
<1>2. (StartInv /\ CacheInv /\ ChannelInv /\ PendingInv)'
  BY DEF StartInv, CacheInv, ChannelInv, PendingInv
<1>3. (SwapInv /\ NoLostWakeup)'
  BY DEF SwapInv, NoLostWakeup, Waiting
<1> QED
  BY <1>1, <1>2, <1>3

\* The returned framebuffer is neither the current one nor a queued one.
LEMMA SwapReturnIndInv == ASSUME IndInv, SwapReturn PROVE IndInv'
<1> USE DEF IndInv, SwapReturn, bcmVars, coreVars, swapVars, dmaVars
<1>1. /\ fut_fb \in Buffers \ app
      /\ current_fb_ptr = Base[fut_fb]
      /\ pending_delta = None
  BY DEF StartInv, SwapInv, Waiting
<1>2. PICK r \in Buffers \ app : r # fut_fb /\ returned_fb_ptr = Base[r]
  BY DEF SwapInv, Waiting
<1>3. app' = app \cup {r}
  BY <1>2, BuffersAtBase
<1>4. TypeOK'
  BY <1>3 DEF TypeOK, BcmTypeOK, Phases
<1>5. CacheInv'
  BY <1>1, <1>2, <1>3, BaseInjective DEF CacheInv
<1>6. (StartInv /\ ChannelInv)'
  BY DEF StartInv, ChannelInv
<1>7. (PendingInv /\ SwapInv /\ NoLostWakeup)'
  BY <1>1 DEF PendingInv, SwapInv, NoLostWakeup, Waiting
<1> QED
  BY <1>4, <1>5, <1>6, <1>7

LEMMA CancelIndInv == ASSUME IndInv, Cancel PROVE IndInv'
<1> USE DEF IndInv, Cancel, bcmVars, coreVars, swapVars, dmaVars
<1>1. TypeOK'
  BY DEF TypeOK, BcmTypeOK, Phases
<1>2. (StartInv /\ CacheInv /\ ChannelInv /\ PendingInv)'
  BY DEF StartInv, CacheInv, ChannelInv, PendingInv
<1>3. (SwapInv /\ NoLostWakeup)'
  BY DEF SwapInv, NoLostWakeup, Waiting
<1> QED
  BY <1>1, <1>2, <1>3

LEMMA TransferCompleteIndInv == ASSUME IndInv, TransferComplete PROVE IndInv'
<1> USE DEF IndInv, TransferComplete, bcmVars, coreVars, swapVars, taskVars
<1>1. dma' \in [busy : BOOLEAN, ptr : Address, words : Nat] /\ dma'.busy = FALSE
  BY DEF TypeOK
<1>2. TypeOK'
  BY <1>1 DEF TypeOK, BcmTypeOK
<1>3. (StartInv /\ CacheInv /\ ChannelInv /\ PendingInv)'
  BY <1>1 DEF StartInv, CacheInv, ChannelInv, PendingInv
<1>4. (SwapInv /\ NoLostWakeup)'
  BY DEF SwapInv, NoLostWakeup, Waiting
<1> QED
  BY <1>2, <1>3, <1>4

-------------------------------------------------------------------------------
\* The takeover moves the whole cache from the current framebuffer to the
\* queued one.
LEMMA TakeOverMovesCache ==
  ASSUME IndInv, initialised, TakeOver, UNCHANGED count
  PROVE  \E b \in Buffers \ app, c \in Buffers \ app :
           /\ b # c
           /\ current_fb_ptr = Base[b]
           /\ current_fb_ptr' = Base[c]
           /\ pending_fb_ptr = Base[c]
           /\ \A k \in Segments : segments'[k] = BcmSegment(c, k)
<1>1. PICK b \in Buffers \ app :
        current_fb_ptr = Base[b] /\ \A k \in Segments : segments[k] = BcmSegment(b, k)
  BY DEF IndInv, CacheInv
<1>2. PICK c \in Buffers \ app : pending_fb_ptr = Base[c]
  BY DEF IndInv, PendingInv, TakeOver
<1>3. b # c /\ pending_delta = PointerDelta(Base[c], Base[b])
  BY <1>1, <1>2 DEF IndInv, PendingInv, TakeOver
<1>4. ASSUME NEW k \in Segments PROVE segments'[k] = BcmSegment(c, k)
  <2>1. k \in Slots /\ k < count
    BY SegmentsAreSlots, LayoutAssumption DEF IndInv, CacheInv, Segments
  <2>2. segments'[k] = [BcmSegment(b, k) EXCEPT !.ptr = WrappingByteOffset(@, pending_delta)]
    BY <2>1, <1>1 DEF TakeOver, ApplyDelta
  <2>3. WrappingByteOffset(SegmentPtr(b, k), pending_delta) = SegmentPtr(c, k)
    BY <1>3, DeltaReaches
  <2> QED
    BY <2>2, <2>3 DEF BcmSegment
<1> QED
  BY <1>1, <1>2, <1>3, <1>4 DEF TakeOver

\* The cache knows how often its segments are to be streamed.
LEMMA CachedReps ==
  ASSUME IndInv, initialised
  PROVE  segments[current_segment].reps = Reps[current_segment]
<1>1. PICK b \in Buffers \ app : segments[current_segment] = BcmSegment(b, current_segment)
  BY DEF IndInv, CacheInv
<1> QED
  BY <1>1 DEF BcmSegment

\* The handler keeps the cache well-formed, whether or not it takes over.
LEMMA InterruptCache ==
  ASSUME IndInv, DmaInterrupt
  PROVE  /\ segments' \in [Slots -> [ptr : Address, len : Nat, reps : Nat]]
         /\ current_segment' \in Segments
         /\ CacheInv'
<1> USE DEF IndInv
<1>1. /\ count = SegmentCount /\ count' = SegmentCount /\ app' = app /\ initialised
      /\ current_segment \in Segments
      /\ segments[current_segment].reps = Reps[current_segment]
  BY CachedReps DEF CacheInv, DmaInterrupt
<1>2. current_segment' \in Segments /\ current_rep' < Reps[current_segment']
  BY <1>1, AdvanceStaysInFrame DEF TypeOK, CacheInv, DmaInterrupt
<1>3. CASE TakeOver
  <2>1. PICK c \in Buffers \ app :
          current_fb_ptr' = Base[c] /\ \A k \in Segments : segments'[k] = BcmSegment(c, k)
    BY <1>1, <1>3, TakeOverMovesCache
  <2>2. ASSUME NEW k \in Slots
        PROVE  segments'[k] \in [ptr : Address, len : Nat, reps : Nat]
    <3>1. CASE k \in Segments
      BY <2>1, <3>1, BcmSegmentType
    <3>2. CASE k \notin Segments
      <4>1. ~(k < count)
        BY <1>1, <3>2, LayoutAssumption DEF Slots, Segments
      <4> QED
        BY <1>3, <4>1 DEF TakeOver, ApplyDelta, TypeOK, BcmTypeOK
    <3> QED
      BY <3>1, <3>2
  <2>3. segments' \in [Slots -> [ptr : Address, len : Nat, reps : Nat]]
    BY <1>3, <2>2 DEF TakeOver, ApplyDelta
  <2> QED
    BY <1>1, <1>2, <2>1, <2>3 DEF CacheInv
<1>4. CASE KeepShowing
  BY <1>1, <1>2, <1>4 DEF KeepShowing, CacheInv, TypeOK, BcmTypeOK
<1> QED
  BY <1>3, <1>4 DEF DmaInterrupt

LEMMA DmaInterruptIndInv == ASSUME IndInv, DmaInterrupt PROVE IndInv'
<1> USE DEF IndInv
<1>0. /\ count = SegmentCount /\ initialised /\ current_segment \in Segments
      /\ segments[current_segment].reps = Reps[current_segment]
  BY CachedReps DEF CacheInv, DmaInterrupt
<1>1. BcmTypeOK'
  <2>1. current_rep' \in Nat
    BY <1>0, AdvanceStaysInFrame DEF TypeOK, DmaInterrupt
  <2> QED
    BY <2>1, InterruptCache, SegmentsAreSlots DEF BcmTypeOK, TypeOK, DmaInterrupt
<1>2. dma' \in [busy : BOOLEAN, ptr : Address, words : Nat]
  BY <1>1, InterruptCache, SegmentsAreSlots, WordsType DEF BcmTypeOK, Kick, DmaInterrupt
<1>3. frame_count' \in 0 .. FrameCountSpan - 1
  BY PlainDmaAssumption DEF TypeOK, DmaInterrupt
<1>4. TypeOK'
  <2>1. CASE TakeOver
    <3>1. Null \in Address
      BY LayoutAssumption DEF Null, Address, AddressSpace
    <3> QED
      BY <1>1, <1>2, <1>3, <2>1, <3>1 DEF TypeOK, DmaInterrupt, TakeOver, SignalSwapDone
  <2>2. CASE KeepShowing
    BY <1>1, <1>2, <1>3, <2>2 DEF TypeOK, DmaInterrupt, KeepShowing
  <2> QED
    BY <2>1, <2>2 DEF DmaInterrupt
<1>5. (StartInv /\ CacheInv /\ ChannelInv)'
  BY InterruptCache DEF StartInv, ChannelInv, DmaInterrupt, Kick
<1>6. CASE TakeOver
  <2>1. PICK b \in Buffers \ app, c \in Buffers \ app :
          /\ b # c
          /\ current_fb_ptr = Base[b]
          /\ current_fb_ptr' = Base[c]
          /\ pending_fb_ptr = Base[c]
    BY <1>0, <1>6, TakeOverMovesCache DEF DmaInterrupt
  <2>2. PendingInv'
    BY <1>6 DEF TakeOver, PendingInv
  <2>3. fut_fb \in Buffers => Base[fut_fb] # Null
    BY BaseInjective
  <2>4. pc = "created" => fut_fb \in Buffers
    BY DEF StartInv
  <2>5. pc \in Waiting => ~swap_done /\ fut_fb = c
    <3>1. pc \in Waiting => ~swap_done
      BY <1>6 DEF SwapInv, TakeOver
    <3>2. pc \in Waiting => fut_fb \in Buffers
      BY DEF StartInv, Waiting
    <3> QED
      BY <2>1, <3>1, <3>2, BaseInjective DEF SwapInv
  <2>6. SwapInv'
    BY <1>6, <2>1, <2>3, <2>4, <2>5 DEF SwapInv, TakeOver, SignalSwapDone, DmaInterrupt, Waiting
  <2>7. NoLostWakeup'
    BY <1>6, <2>5 DEF NoLostWakeup, TakeOver, SignalSwapDone, DmaInterrupt, Waiting
  <2> QED
    BY <1>4, <1>5, <2>2, <2>6, <2>7
<1>7. CASE KeepShowing
  <2>1. (PendingInv /\ SwapInv /\ NoLostWakeup)'
    BY <1>7 DEF PendingInv, SwapInv, NoLostWakeup, Waiting, KeepShowing, DmaInterrupt
  <2> QED
    BY <1>4, <1>5, <2>1
<1> QED
  BY <1>6, <1>7 DEF DmaInterrupt

-------------------------------------------------------------------------------
LEMMA NextIndInv == IndInv /\ [Next]_vars => IndInv'
<1> SUFFICES ASSUME IndInv, [Next]_vars PROVE IndInv'
  OBVIOUS
<1>1. ASSUME NEW b \in Buffers, New(b) PROVE IndInv'
  BY <1>1, NewIndInv
<1>2. ASSUME NEW b \in Buffers, Swap(b) PROVE IndInv'
  BY <1>2, SwapIndInv
<1>3. CASE DropHandle
  BY <1>3, DropHandleIndInv
<1>4. CASE SwapQueue
  BY <1>4, SwapQueueIndInv
<1>5. CASE PollLoad \/ PollLock \/ Poll
  BY <1>5, PollLoadIndInv, PollLockIndInv, PollIndInv
<1>6. CASE SpuriousWake
  BY <1>6, SpuriousWakeIndInv
<1>7. CASE SwapReturn
  BY <1>7, SwapReturnIndInv
<1>8. CASE Cancel
  BY <1>8, CancelIndInv
<1>9. CASE TransferComplete
  BY <1>9, TransferCompleteIndInv
<1>10. CASE DmaInterrupt
  BY <1>10, DmaInterruptIndInv
<1>11. CASE UNCHANGED vars
  <2> USE <1>11 DEF vars, bcmVars, coreVars, swapVars, dmaVars, taskVars, IndInv
  <2>1. TypeOK'
    BY DEF TypeOK, BcmTypeOK
  <2>2. (StartInv /\ CacheInv /\ ChannelInv /\ PendingInv)'
    BY DEF StartInv, CacheInv, ChannelInv, PendingInv
  <2>3. (SwapInv /\ NoLostWakeup)'
    BY DEF SwapInv, NoLostWakeup, Waiting
  <2> QED
    BY <2>1, <2>2, <2>3
<1> QED
  BY <1>1, <1>2, <1>3, <1>4, <1>5, <1>6, <1>7, <1>8, <1>9, <1>10, <1>11 DEF Next

\* The inductive invariant holds of every behaviour of the backend.
THEOREM Invariance == Spec => []IndInv
BY InitIndInv, NextIndInv, PTL DEF Spec

\* Every variable keeps its type: in particular the walk through the cache
\* stays inside it and the cached pointers stay machine words.
THEOREM TypeCorrect == Spec => []TypeOK
<1>1. IndInv => TypeOK
  BY DEF IndInv
<1> QED
  BY <1>1, Invariance, PTL

\* The channel reads one whole segment of the current framebuffer, of which
\* the application does not own the &mut: on the interrupt path of dma.rs
\* drawing and scanning never meet.
THEOREM ScanIsExclusive == Spec => []DmaReadsDriverBuffer
<1>1. IndInv => DmaReadsDriverBuffer
  <2> SUFFICES ASSUME IndInv, dma.busy
               PROVE  \E b \in Buffers \ app :
                        /\ current_fb_ptr = Base[b]
                        /\ dma.ptr = SegmentPtr(b, current_segment)
                        /\ dma.words = Words(Length[current_segment])
    BY DEF DmaReadsDriverBuffer
  <2>1. initialised /\ current_segment \in Segments
    BY DEF IndInv, TypeOK, StartInv, CacheInv
  <2>2. PICK b \in Buffers \ app :
          current_fb_ptr = Base[b] /\ segments[current_segment] = BcmSegment(b, current_segment)
    BY <2>1 DEF IndInv, CacheInv
  <2> QED
    BY <2>2 DEF IndInv, ChannelInv, BcmSegment
<1> QED
  BY <1>1, Invariance, PTL

\* swap() returns only after its own framebuffer has gone on display, even
\* where an earlier swap was cancelled at its await point.
THEOREM SwapHasHappened == Spec => []ReturnAfterSwitch
<1>1. IndInv => ReturnAfterSwitch
  BY DEF IndInv, SwapInv, ReturnAfterSwitch, Waiting
<1> QED
  BY <1>1, Invariance, PTL

\* The wakeup of a sleeping swap() is never lost between the look at
\* swap_done and the registration of the waker.
THEOREM WakeupIsKept == Spec => []NoLostWakeup
<1>1. IndInv => NoLostWakeup
  BY DEF IndInv
<1> QED
  BY <1>1, Invariance, PTL

\* What swap() returns is one framebuffer, until then the driver's, that is
\* neither scanned nor queued.
THEOREM ReturnIsExclusive == Spec => ExclusiveReturn
<1>1. IndInv /\ [Next]_vars => [ReturnsOneSpare]_vars
  <2> SUFFICES ASSUME IndInv, Next, pc = "finish", pc' = "idle"
               PROVE  \E b \in Buffers \ app :
                        app' = app \cup {b} /\ b \notin Current \cup Queued
    BY DEF ReturnsOneSpare
  <2>1. SwapReturn
    BY DEF Next, New, Swap, DropHandle, SwapQueue, PollLoad, PollLock, Poll, SpuriousWake,
           Cancel, TransferComplete, DmaInterrupt, taskVars, IndInv, StartInv
  <2>2. /\ fut_fb \in Buffers \ app
        /\ current_fb_ptr = Base[fut_fb]
        /\ pending_fb_ptr = Null
    BY DEF IndInv, StartInv, SwapInv, PendingInv, Waiting
  <2>3. PICK r \in Buffers \ app : r # fut_fb /\ returned_fb_ptr = Base[r]
    BY DEF IndInv, SwapInv, Waiting
  <2>4. app' = app \cup {r}
    BY <2>1, <2>3, BuffersAtBase DEF SwapReturn
  <2>5. Current = {fut_fb} /\ Queued = {}
    BY <2>2, BuffersAtBase, BaseInjective DEF Current, Queued, BuffersAt
  <2> QED
    BY <2>3, <2>4, <2>5
<1> QED
  BY <1>1, Invariance, PTL DEF Spec, ExclusiveReturn

-------------------------------------------------------------------------------
(***************************************************************************)
(* Nothing leaks.                                                          *)
(***************************************************************************)
LEMMA InitOwners == Init => OwnersInv
BY DEF Init, OwnersInv, NothingLeaks

\* Steps that change neither ownership nor what is displayed or queued.
LEMMA SilentOwners ==
  ASSUME OwnersInv,
         PollLoad \/ PollLock \/ Poll \/ SpuriousWake \/ TransferComplete \/ UNCHANGED vars
  PROVE  OwnersInv'
<1>1. /\ app' = app /\ handle' = handle /\ initialised' = initialised /\ leaked' = leaked
      /\ pending_delta' = pending_delta /\ current_fb_ptr' = current_fb_ptr
      /\ returned_fb_ptr' = returned_fb_ptr /\ swap_done' = swap_done /\ fut_fb' = fut_fb
      /\ pc \in Waiting <=> pc' \in Waiting
      /\ pc' = "idle" => pc = "idle"
  BY DEF PollLoad, PollLock, Poll, SpuriousWake, TransferComplete, vars, coreVars, swapVars,
         taskVars, Waiting
<1>2. Current' = Current /\ Displaced' = Displaced
  BY <1>1 DEF Current, Displaced, Returned
<1> QED
  BY <1>1, <1>2 DEF OwnersInv, NothingLeaks

LEMMA NewOwners == ASSUME IndInv, OwnersInv, NEW b \in Buffers, New(b) PROVE OwnersInv'
<1> SUFFICES ASSUME ~leaked PROVE OwnersInv'
  BY DEF OwnersInv, New
<1>1. app = Buffers /\ pc = "idle" /\ fut_fb = None
  BY DEF OwnersInv, New, IndInv, StartInv
<1>2. Current' = {b} /\ Displaced' = {}
  BY <1>1, BuffersAtBase DEF New, Current, Displaced, Waiting
<1> QED
  BY <1>1, <1>2 DEF OwnersInv, NothingLeaks, New

LEMMA SwapOwners == ASSUME OwnersInv, NEW b \in Buffers, Swap(b) PROVE OwnersInv'
<1> SUFFICES ASSUME ~leaked PROVE OwnersInv'
  BY DEF OwnersInv, Swap
<1>1. Current' = Current /\ Displaced = {} /\ Displaced' = {}
  BY DEF Swap, coreVars, Current, Displaced, Waiting
<1>2. fut_fb = None /\ fut_fb' = b /\ b # None
  BY PlainDmaAssumption DEF OwnersInv, Swap
<1> QED
  BY <1>1, <1>2 DEF OwnersInv, NothingLeaks, Swap, coreVars, Waiting

LEMMA SwapQueueOwners == ASSUME OwnersInv, SwapQueue PROVE OwnersInv'
<1>1. Current' = Current /\ Displaced = {} /\ Displaced' = {}
  BY DEF SwapQueue, Current, Displaced, Waiting
<1> QED
  BY <1>1 DEF OwnersInv, NothingLeaks, SwapQueue, Waiting

LEMMA SwapReturnOwners == ASSUME IndInv, OwnersInv, SwapReturn PROVE OwnersInv'
<1> SUFFICES ASSUME ~leaked PROVE OwnersInv'
  BY DEF OwnersInv, SwapReturn
<1>1. /\ fut_fb \in Buffers \ app /\ fut_fb # None /\ initialised /\ swap_done
      /\ current_fb_ptr = Base[fut_fb]
      /\ pending_delta = None
  BY PlainDmaAssumption DEF IndInv, StartInv, SwapInv, SwapReturn, Waiting
<1>2. PICK r \in Buffers \ app : r # fut_fb /\ returned_fb_ptr = Base[r]
  BY DEF IndInv, SwapInv, SwapReturn, Waiting
<1>3. app' = app \cup {r} /\ Displaced = {r} /\ Displaced' = {}
  BY <1>1, <1>2, BuffersAtBase DEF SwapReturn, Displaced, Returned, Waiting
<1>4. Current = {fut_fb} /\ Current' = Current
  BY <1>1, BuffersAtBase DEF SwapReturn, coreVars, Current
<1> QED
  BY <1>1, <1>2, <1>3, <1>4 DEF OwnersInv, NothingLeaks, SwapReturn, coreVars

LEMMA DmaInterruptOwners == ASSUME IndInv, OwnersInv, DmaInterrupt PROVE OwnersInv'
<1> SUFFICES ASSUME ~leaked PROVE OwnersInv'
  BY DEF OwnersInv, DmaInterrupt
<1>1. CASE TakeOver
  <2>1. pc \in Waiting /\ ~swap_done /\ fut_fb \in Buffers /\ fut_fb # None
    BY <1>1, PlainDmaAssumption DEF OwnersInv, TakeOver, IndInv, StartInv, Waiting
  <2>2. PICK b \in Buffers, c \in Buffers :
          current_fb_ptr = Base[b] /\ current_fb_ptr' = Base[c] /\ pending_fb_ptr = Base[c]
    BY <1>1, TakeOverMovesCache DEF DmaInterrupt
  <2>3. c = fut_fb
    BY <2>1, <2>2, BaseInjective DEF IndInv, SwapInv
  <2>4. Current = {b} /\ Current' = {fut_fb} /\ Displaced = {} /\ Displaced' = {b}
    BY <1>1, <2>1, <2>2, <2>3, BuffersAtBase
    DEF Current, Displaced, Returned, TakeOver, SignalSwapDone, DmaInterrupt
  <2> QED
    BY <1>1, <2>1, <2>4 DEF OwnersInv, NothingLeaks, DmaInterrupt, TakeOver
<1>2. CASE KeepShowing
  <2>1. Current' = Current /\ Displaced' = Displaced
    BY <1>2 DEF KeepShowing, DmaInterrupt, Current, Displaced, Returned
  <2> QED
    BY <1>2, <2>1 DEF OwnersInv, NothingLeaks, DmaInterrupt, KeepShowing
<1> QED
  BY <1>1, <1>2 DEF DmaInterrupt

LEMMA NextOwners == IndInv /\ OwnersInv /\ [Next]_vars => OwnersInv'
<1> SUFFICES ASSUME IndInv, OwnersInv, [Next]_vars PROVE OwnersInv'
  OBVIOUS
<1>1. ASSUME NEW b \in Buffers, New(b) \/ Swap(b) PROVE OwnersInv'
  BY <1>1, NewOwners, SwapOwners
<1>2. CASE DropHandle \/ Cancel
  BY <1>2 DEF DropHandle, Cancel, OwnersInv
<1>3. CASE SwapQueue \/ SwapReturn
  BY <1>3, SwapQueueOwners, SwapReturnOwners
<1>4. CASE DmaInterrupt
  BY <1>4, DmaInterruptOwners
<1>5. CASE PollLoad \/ PollLock \/ Poll \/ SpuriousWake \/ TransferComplete \/ UNCHANGED vars
  BY <1>5, SilentOwners
<1> QED
  BY <1>1, <1>2, <1>3, <1>4, <1>5 DEF Next

\* Unless a swap is cancelled or the Hub75 dropped, no framebuffer is ever out
\* of reach: each is the application's, the swap's, or on display.
THEOREM NoneIsLost == Spec => []NothingLeaks
<1>1. OwnersInv => NothingLeaks
  BY DEF OwnersInv, NothingLeaks
<1> QED
  BY <1>1, InitOwners, NextOwners, Invariance, PTL DEF Spec

-------------------------------------------------------------------------------
(***************************************************************************)
(* Whole segments.                                                         *)
(***************************************************************************)

\* The interrupt is pending only when the channel is done: init() alone, over
\* a scan that is running, can start the channel with an interrupt pending.
TcInv == tc_pending => ~dma.busy

LEMMA NextTc ==
  ASSUME IndInv, TcInv, [Next]_vars, ~Reinit
  PROVE  TcInv'
<1> USE DEF TcInv
<1>1. ASSUME NEW b \in Buffers, New(b) PROVE TcInv'
  BY <1>1 DEF New, IndInv, StartInv
<1>2. CASE TransferComplete
  BY <1>2 DEF TransferComplete, IndInv, TypeOK
<1>3. CASE DmaInterrupt
  BY <1>3 DEF DmaInterrupt
<1>4. ASSUME UNCHANGED dmaVars PROVE TcInv'
  BY <1>4 DEF dmaVars
<1>5. ASSUME NEW b \in Buffers, Swap(b) PROVE UNCHANGED dmaVars
  BY <1>5 DEF Swap
<1>6. CASE \/ DropHandle \/ SwapQueue \/ PollLoad \/ PollLock \/ Poll \/ SpuriousWake
           \/ SwapReturn \/ Cancel \/ UNCHANGED vars
  <2>1. UNCHANGED dmaVars
    BY <1>6 DEF DropHandle, SwapQueue, PollLoad, PollLock, Poll, SpuriousWake, SwapReturn,
                Cancel, vars
  <2> QED
    BY <2>1, <1>4
<1> QED
  BY <1>1, <1>2, <1>3, <1>4, <1>5, <1>6 DEF Next

\* With a vector of its own and a single init(), the driver never cuts a
\* transfer short: it moves on only once the segment has been streamed whole.
THEOREM SegmentsAreWhole == ASSUME ~SharedVector, ~Reinit PROVE Spec => WholeSegments
<1> DEFINE Whole == dma.busy /\ ~(~handle /\ handle') => UNCHANGED <<current_segment, current_rep>>
<1>1. Init => TcInv
  BY DEF Init, TcInv
<1>2. IndInv /\ TcInv /\ [Next]_vars => TcInv'
  BY NextTc
<1>3. IndInv /\ TcInv /\ [Next]_vars => [Whole]_vars
  <2> SUFFICES ASSUME TcInv, Next, dma.busy, ~(~handle /\ handle')
               PROVE  UNCHANGED <<current_segment, current_rep>>
    OBVIOUS
  <2>1. ASSUME NEW b \in Buffers, New(b) PROVE FALSE
    BY <2>1 DEF New
  <2>2. ~DmaInterrupt
    BY DEF DmaInterrupt, TcInv
  <2>3. ASSUME NEW b \in Buffers, Swap(b) PROVE UNCHANGED bcmVars
    BY <2>3 DEF Swap
  <2>4. UNCHANGED bcmVars
    BY <2>1, <2>2, <2>3 DEF Next, DropHandle, SwapQueue, PollLoad, PollLock, Poll, SpuriousWake,
                            SwapReturn, Cancel, TransferComplete
  <2> QED
    BY <2>4 DEF bcmVars
<1> QED
  BY <1>1, <1>2, <1>3, Invariance, PTL DEF Spec, WholeSegments

-------------------------------------------------------------------------------
(***************************************************************************)
(* The plain DMA backend implements the double buffer: each step of        *)
(* PlainDma is a step of DoubleBuffer under the mapping DB, or leaves all  *)
(* that it speaks of unchanged.                                            *)
(***************************************************************************)
\* The framebuffer at a pointer that is one's base, and at the null pointer.
LEMMA TheBufferAt ==
  /\ \A b \in Buffers : TheBuffer(BuffersAt(Base[b])) = b
  /\ TheBuffer(BuffersAt(Null)) = None
  /\ TheBuffer({}) = None
<1>1. ASSUME NEW b \in Buffers PROVE TheBuffer(BuffersAt(Base[b])) = b
  BY BuffersAtBase DEF TheBuffer
<1>2. BuffersAt(Null) = {}
  BY BaseInjective DEF BuffersAt
<1> QED
  BY <1>1, <1>2 DEF TheBuffer

\* None is no framebuffer.
LEMMA NoneIsNoBuffer == \A b \in Buffers : b # None
BY PlainDmaAssumption

LEMMA InitMaps == Init => DB!Init
<1> SUFFICES ASSUME Init PROVE DB!Init
  OBVIOUS
<1>1. Current = BuffersAt(Null) /\ Queued = BuffersAt(Null) /\ Displaced = {}
  BY DEF Init, Current, Queued, Displaced, Waiting
<1> QED
  BY <1>1, TheBufferAt DEF DB!Init, Init, BcmInit

\* What the mapping shows while the driver runs.
LEMMA RunningMaps ==
  ASSUME IndInv, initialised
  PROVE  \E b \in Buffers \ app : current_fb_ptr = Base[b] /\ TheBuffer(Current) = b
<1>1. PICK b \in Buffers \ app : current_fb_ptr = Base[b]
  BY DEF IndInv, CacheInv
<1> QED
  BY <1>1, TheBufferAt DEF Current

-------------------------------------------------------------------------------
LEMMA NewMaps == ASSUME IndInv, NEW b \in Buffers, New(b) PROVE DB!Start(b)
<1>1. pc' = "idle" /\ current_fb_ptr' = Base[b] /\ pending_fb_ptr' = Null
  BY DEF New, IndInv, StartInv
<1>2. TheBuffer(Current') = b /\ TheBuffer(Queued') = None /\ TheBuffer(Displaced') = None
  BY <1>1, TheBufferAt DEF Current, Queued, Displaced, Waiting
<1> QED
  BY <1>2 DEF DB!Start, New, Load

LEMMA SwapMaps == ASSUME IndInv, NEW b \in Buffers, Swap(b) PROVE DB!Give(b)
<1>1. Current' = Current /\ Queued' = Queued /\ Displaced = {} /\ Displaced' = {}
  BY DEF Swap, coreVars, Current, Queued, Displaced, Waiting
<1> QED
  BY <1>1 DEF DB!Give, Swap, bcmVars

LEMMA SwapQueueMaps ==
  ASSUME IndInv, SwapQueue
  PROVE  fut_fb \in Buffers /\ DB!Queue(fut_fb)
<1>1. fut_fb \in Buffers \ app /\ initialised /\ Base[fut_fb] # current_fb_ptr
  BY DEF SwapQueue, IndInv, StartInv, SwapInv
<1>2. PICK b \in Buffers \ app : current_fb_ptr = Base[b] /\ TheBuffer(Current) = b
  BY <1>1, RunningMaps
<1>3. fut_fb # TheBuffer(Current)
  BY <1>1, <1>2
<1>4. Current' = Current
  BY DEF SwapQueue, Current
<1>5. TheBuffer(Queued') = fut_fb
  BY <1>1, TheBufferAt DEF SwapQueue, Queued
<1>6. TheBuffer(Displaced') = None
  BY TheBufferAt DEF SwapQueue, Displaced
<1> QED
  BY <1>1, <1>3, <1>4, <1>5, <1>6 DEF DB!Queue, SwapQueue, bcmVars

\* Steps of the executor, of the channel and of the poll function.
LEMMA SilentMaps ==
  ASSUME IndInv,
         DropHandle \/ PollLoad \/ PollLock \/ Poll \/ SpuriousWake \/ TransferComplete
           \/ UNCHANGED vars
  PROVE  UNCHANGED DB!dbVars
<1>1. /\ app' = app /\ current_segment' = current_segment /\ current_rep' = current_rep
      /\ current_fb_ptr' = current_fb_ptr /\ pending_fb_ptr' = pending_fb_ptr
      /\ returned_fb_ptr' = returned_fb_ptr /\ swap_done' = swap_done
      /\ pc \in Waiting <=> pc' \in Waiting
  BY DEF DropHandle, PollLoad, PollLock, Poll, SpuriousWake, TransferComplete, vars, bcmVars,
         coreVars, swapVars, dmaVars, taskVars, Waiting
<1>2. Current' = Current /\ Queued' = Queued /\ Displaced' = Displaced
  BY <1>1 DEF Current, Queued, Displaced, Returned
<1> QED
  BY <1>1, <1>2 DEF DB!dbVars

LEMMA SwapReturnMaps == ASSUME IndInv, SwapReturn PROVE DB!Return
<1>1. PICK r \in Buffers \ app : returned_fb_ptr = Base[r]
  BY DEF SwapReturn, IndInv, SwapInv, Waiting
<1>2. Displaced = {r} /\ Displaced' = {}
  BY <1>1, BuffersAtBase DEF SwapReturn, IndInv, SwapInv, Displaced, Returned, Waiting
<1>3. TheBuffer(Displaced) = r /\ TheBuffer(Displaced') = None
  BY <1>1, <1>2, BuffersAtBase, TheBufferAt
<1>4. app' = app \cup {r}
  BY <1>1, BuffersAtBase DEF SwapReturn
<1>5. Current' = Current /\ Queued' = Queued
  BY DEF SwapReturn, coreVars, Current, Queued
<1> QED
  BY <1>3, <1>4, <1>5, NoneIsNoBuffer DEF DB!Return, SwapReturn, bcmVars

\* A cancelled swap has displaced a framebuffer that nobody will get, or none.
LEMMA CancelMaps == ASSUME IndInv, Cancel PROVE DB!Abandon \/ UNCHANGED DB!dbVars
<1>1. /\ Current' = Current /\ Queued' = Queued /\ Displaced' = {}
      /\ app' = app /\ current_segment' = current_segment /\ current_rep' = current_rep
  BY DEF Cancel, bcmVars, coreVars, Current, Queued, Displaced, Waiting
<1>2. TheBuffer(Displaced') = None
  BY <1>1, TheBufferAt
<1>3. CASE TheBuffer(Displaced) = None
  BY <1>1, <1>2, <1>3 DEF DB!dbVars
<1>4. CASE TheBuffer(Displaced) # None
  BY <1>1, <1>2, <1>4 DEF DB!Abandon
<1> QED
  BY <1>3, <1>4

-------------------------------------------------------------------------------
\* The end of a frame means the same to the cache and to the double buffer.
LEMMA BoundaryMaps ==
  ASSUME IndInv, initialised
  PROVE  /\ RepsDone <=> DB!LastRep
         /\ FrameBoundary <=> DB!LastOfFrame
<1>1. /\ current_segment \in Segments /\ current_rep \in Nat /\ count = SegmentCount
      /\ current_rep < Reps[current_segment]
      /\ segments[current_segment].reps = Reps[current_segment]
  BY CachedReps DEF IndInv, CacheInv, TypeOK, BcmTypeOK
<1>2. Reps[current_segment] \in Nat /\ current_segment \in Nat /\ SegmentCount \in Nat
      /\ current_segment < SegmentCount
  BY <1>1, LayoutAssumption DEF Segments
<1>3. RepsDone <=> DB!LastRep
  BY <1>1, <1>2 DEF RepsDone, DB!LastRep
<1> QED
  BY <1>1, <1>2, <1>3 DEF FrameBoundary, DB!LastOfFrame

LEMMA TakeOverMaps == ASSUME IndInv, DmaInterrupt, TakeOver PROVE DB!TakeOver
<1>1. initialised /\ FrameBoundary /\ DB!LastOfFrame
  BY BoundaryMaps DEF DmaInterrupt, TakeOver
<1>2. PICK b \in Buffers \ app, c \in Buffers \ app :
        current_fb_ptr = Base[b] /\ current_fb_ptr' = Base[c] /\ pending_fb_ptr = Base[c]
  BY <1>1, TakeOverMovesCache DEF DmaInterrupt
<1>3. TheBuffer(Current) = b /\ TheBuffer(Current') = c /\ TheBuffer(Queued) = c
  BY <1>2, TheBufferAt DEF Current, Queued
<1>4. TheBuffer(Queued') = None
  BY TheBufferAt DEF TakeOver, Queued
<1>5. TheBuffer(Displaced') \in {b, None}
  BY <1>2, TheBufferAt DEF TakeOver, Displaced, Returned
<1>6. current_segment' = 0 /\ current_rep' = 0
  BY <1>1 DEF DmaInterrupt, Advance, FrameBoundary
<1> QED
  BY <1>1, <1>3, <1>4, <1>5, <1>6, NoneIsNoBuffer DEF DB!TakeOver, DmaInterrupt

LEMMA KeepShowingMaps ==
  ASSUME IndInv, DmaInterrupt, KeepShowing
  PROVE  DB!FeedNext \/ DB!FeedSameFrame
<1>1. /\ initialised
      /\ RepsDone <=> DB!LastRep
      /\ FrameBoundary <=> DB!LastOfFrame
  BY BoundaryMaps DEF DmaInterrupt
<1>2. TheBuffer(Current) # None
  BY <1>1, RunningMaps, NoneIsNoBuffer
<1>3. Current' = Current /\ Queued' = Queued /\ Displaced' = Displaced /\ app' = app
  BY DEF DmaInterrupt, KeepShowing, Current, Queued, Displaced, Returned
<1>4. CASE FrameBoundary
  <2>1. TheBuffer(Queued) = None
    BY <1>4, TheBufferAt DEF KeepShowing, IndInv, PendingInv, Queued
  <2>2. current_segment' = 0 /\ current_rep' = 0
    BY <1>4 DEF DmaInterrupt, Advance, FrameBoundary
  <2> QED
    BY <1>1, <1>2, <1>3, <1>4, <2>1, <2>2 DEF DB!FeedSameFrame
<1>5. CASE ~FrameBoundary
  <2>1. IF RepsDone THEN current_segment' = current_segment + 1 /\ current_rep' = 0
        ELSE current_segment' = current_segment /\ current_rep' = current_rep + 1
    BY <1>5 DEF DmaInterrupt, Advance
  <2> QED
    BY <1>1, <1>2, <1>3, <1>5, <2>1 DEF DB!FeedNext
<1> QED
  BY <1>4, <1>5

-------------------------------------------------------------------------------
LEMMA NextMaps == IndInv /\ [Next]_vars => [DB!Next]_DB!dbVars
<1> SUFFICES ASSUME IndInv, [Next]_vars PROVE DB!Next \/ UNCHANGED DB!dbVars
  OBVIOUS
<1>1. ASSUME NEW b \in Buffers, New(b) PROVE DB!Next
  BY <1>1, NewMaps DEF DB!Next
<1>2. ASSUME NEW b \in Buffers, Swap(b) PROVE DB!Next
  BY <1>2, SwapMaps DEF DB!Next
<1>3. CASE SwapQueue
  BY <1>3, SwapQueueMaps DEF DB!Next
<1>4. CASE DropHandle \/ PollLoad \/ PollLock \/ Poll \/ SpuriousWake \/ TransferComplete
             \/ UNCHANGED vars
  BY <1>4, SilentMaps
<1>5. CASE SwapReturn
  BY <1>5, SwapReturnMaps DEF DB!Next
<1>6. CASE Cancel
  BY <1>6, CancelMaps DEF DB!Next
<1>7. CASE DmaInterrupt
  <2>1. CASE TakeOver
    BY <1>7, <2>1, TakeOverMaps DEF DB!Next
  <2>2. CASE KeepShowing
    BY <1>7, <2>2, KeepShowingMaps DEF DB!Next
  <2> QED
    BY <1>7, <2>1, <2>2 DEF DmaInterrupt
<1> QED
  BY <1>1, <1>2, <1>3, <1>4, <1>5, <1>6, <1>7 DEF Next

\* The plain backend, with its cached pointers, interrupts, critical sections
\* and cancelled futures, shows and hands over framebuffers as the double
\* buffer does: every exchange is at a frame boundary, every frame is whole.
THEOREM Refines == Spec => ImplementsDoubleBuffer
BY InitMaps, Invariance, NextMaps, PTL DEF Spec, ImplementsDoubleBuffer, DB!Spec

===============================================================================
