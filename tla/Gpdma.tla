-------------------------------- MODULE Gpdma --------------------------------
(***************************************************************************)
(* The two GPDMA backends, src/src/gpdma.rs and src/src/gpdma_2d.rs: their *)
(* IsrCore, Hub75::new, Hub75::swap and interrupt handlers, which differ   *)
(* only in the chain of descriptors they build.                            *)
(*                                                                         *)
(* The channel walks the circular chain for ever and reads each descriptor *)
(* from memory as it comes to it.  swap() patches the descriptors one      *)
(* after the other while the channel runs, then waits for SwapWaitCount    *)
(* frame interrupts before it hands back the old framebuffer.  An          *)
(* interrupt may be served late, and two that are raised before the first  *)
(* is served are one.                                                      *)
(***************************************************************************)
EXTENDS Framebuffers, GpdmaChain

CONSTANTS
  None,            \* no framebuffer
  TwoD,            \* TRUE: gpdma_2d, FALSE: gpdma
  Reinit,          \* TRUE: the application may drop Hub75 and call init() again
  SwapWaitCount,   \* SWAP_WAIT_COUNT: 2, or 1 or 0 by the unsafe features
  FrameCountSpan,  \* number of values of frame_count (2^32 in an AtomicU32)
  TableBase        \* the address of the static descriptor table ITEMS

SegmentsOf(b) == [i \in 1 .. SegmentCount |-> BcmSegment(b, i - 1)]
ItemSize == IF TwoD THEN TwoDItemSize ELSE LinearItemSize

\* The chain that init() builds for framebuffer b.
BuildItemChain(b) ==
  IF TwoD THEN TwoDItems(SegmentsOf(b), TableBase)
          ELSE LinearItems(SegmentsOf(b), TableBase)

\* init() does not panic.
ASSUME GpdmaAssumption ==
  /\ None \notin Buffers
  /\ Buffers # {}
  /\ TableBase \in Nat
  /\ {TwoD, Reinit} \subseteq BOOLEAN
  /\ SwapWaitCount \in 0 .. 2
  /\ FrameCountSpan \in Nat \ {0}
  /\ WordSize = "TwoBytes" => \A i \in Segments : Length[i] % 2 = 0
  /\ \A b \in Buffers : IF TwoD THEN TwoDFits(SegmentsOf(b), TableBase)
                                ELSE LinearFits(SegmentsOf(b), TableBase)

VARIABLES
  initialised,     \* TIMER is Some
  handle,          \* the application owns a Hub75
  items,           \* the active part of ITEMS, in memory
  current_fb_ptr,  \* Hub75::current_fb_ptr
  swap_waits,      \* IsrCore::swap_waits
  swap_done,       \* IsrCore::swap_done
  swap_waker,      \* IsrCore::swap_waker is Some
  frame_count,     \* IsrCore::frame_count
  channel,         \* the GPDMA channel, see NewChannel
  tc_pending,      \* its transfer-complete interrupt is pending
  app,             \* the framebuffers of which the application owns the &mut
  pc,              \* where the application's swap() or init() stands
  fut_fb,          \* the framebuffer given to that call
  old_ptr,         \* old_ptr of that swap()
  patched,         \* how many descriptors that call has written
  woken,           \* the task's waker has been woken since its last poll
  leaked           \* history: a swap has been cancelled or a Hub75 dropped

coreVars == <<initialised, handle, items, current_fb_ptr>>
swapVars == <<swap_waits, swap_done, swap_waker, frame_count>>
dmaVars == <<channel, tc_pending>>
futVars == <<fut_fb, old_ptr, patched>>
vars == <<coreVars, swapVars, dmaVars, app, pc, futVars, woken, leaked>>

\* The channel: is it off, streaming a block or loading a descriptor; the
\* address of the descriptor to load next; the descriptor it has loaded; the
\* repetition of its block; whether it still has to raise an interrupt.
NewChannel(phase) ==
  [phase |-> phase, next |-> TableBase, item |-> None, block |-> 0, owes_tc |-> FALSE]

Phases ==
  {"idle", "build", "created", "patch", "arm", "check", "lock", "pending", "finish"}

\* zeroed_linear_item, zeroed_two_d_item
ZeroedItem == [sar |-> 0, words |-> 0, repeat |-> 0, back |-> 0, tc |-> FALSE, link |-> 0]

ItemType == [sar : Address, words : Nat, repeat : Nat, back : Int, tc : BOOLEAN, link : Nat]

TypeOK ==
  /\ {initialised, handle} \subseteq BOOLEAN
  /\ items \in Seq(ItemType)
  /\ current_fb_ptr \in Address
  /\ swap_waits \in 0 .. SwapWaitCount
  /\ swap_done \in BOOLEAN
  /\ swap_waker \in BOOLEAN
  /\ frame_count \in 0 .. FrameCountSpan - 1
  /\ channel \in [phase : {"off", "block", "load"}, next : Nat, item : ItemType \cup {None},
                  block : Nat, owes_tc : BOOLEAN]
  /\ tc_pending \in BOOLEAN
  /\ app \subseteq Buffers
  /\ pc \in Phases
  /\ fut_fb \in Buffers \cup {None}
  /\ old_ptr \in Address
  /\ patched \in Nat
  /\ woken \in BOOLEAN
  /\ leaked \in BOOLEAN

-------------------------------------------------------------------------------
\* The descriptor at an address of the table.
ItemAt(address) == items[(address - TableBase) \div ItemSize + 1]

\* Faulty variant: the distance is taken after current_fb_ptr was assigned.
DeltaOfNothing == 0

\* The delta of the swap in progress.
Delta == PointerDelta(Base[fut_fb], old_ptr)

\* Faulty variant: the loop ends before the last descriptor.
DescriptorCountShort == Len(items) - 1

\* Hub75::descriptor_count, how many descriptors swap() patches.
DescriptorCount == Len(items)

\* Faulty variant: old_ptr is read after current_fb_ptr has been assigned.
DisplacedPtrLate == Base[fut_fb]

\* old_ptr: what the running swap() is going to return.
DisplacedPtr == current_fb_ptr

\* Faulty variant: one interrupt fewer.
FramesToWaitLess == SwapWaitCount - 1

\* The value that wait_swap stores to swap_waits.
FramesToWait == SwapWaitCount

\* Faulty variant: the waker is registered without a second look.
DoneUnseen == FALSE

\* The look at swap_done under the critical section of poll_fn.
DoneAtLock == swap_done

\* Faulty variant: the count goes down without being looked at.
WaitsLeftUnguarded == swap_waits - 1

\* What on_frame leaves of swap_waits.
WaitsLeft == IF swap_waits > 0 THEN swap_waits - 1 ELSE 0

\* Faulty variant: the flag is set and nobody is woken.
SignalWithoutWake == swap_done' = TRUE /\ UNCHANGED <<swap_waker, woken>>

\* IsrCore::signal_swap_done
SignalSwapDone ==
  /\ swap_done' = TRUE
  /\ swap_waker' = FALSE
  /\ woken' = (woken \/ swap_waker)

-------------------------------------------------------------------------------
(***************************************************************************)
(* init().  The channel may still be walking the table that a Hub75 since  *)
(* dropped has left behind: the chain is written into it descriptor by     *)
(* descriptor, outside any critical section.                               *)
(***************************************************************************)
CallInit(b) ==
  /\ ~handle
  /\ initialised => Reinit
  /\ pc = "idle"
  /\ b \in app
  /\ app' = app \ {b}
  /\ pc' = "build"
  /\ fut_fb' = b
  /\ patched' = 0
  /\ UNCHANGED <<coreVars, swapVars, dmaVars, old_ptr, woken, leaked>>

\* One descriptor of build_item_chain (build_item_chain_2d).
BuildItem ==
  /\ pc = "build"
  /\ patched < Len(items)
  /\ items' = [items EXCEPT ![patched + 1] = BuildItemChain(fut_fb)[patched + 1]]
  /\ patched' = patched + 1
  /\ UNCHANGED <<initialised, handle, current_fb_ptr, swapVars, dmaVars, app, pc, fut_fb,
                 old_ptr, woken, leaked>>

\* Channel::linked_list.  A channel that is running is started anew or goes
\* on, and its pending interrupt is cleared or stays.
StartChannel ==
  /\ channel' \in {NewChannel("load")} \cup (IF initialised THEN {channel} ELSE {})
  /\ tc_pending' \in {FALSE, tc_pending}

\* store_timer: from now on the handler acts, and the timer is never disabled.
StoreTimer == initialised' = TRUE

\* The rest of Hub75::new, one critical section.  IsrCore is left as it is.
New ==
  /\ pc = "build"
  /\ patched = Len(items)
  /\ StoreTimer
  /\ handle' = TRUE
  /\ current_fb_ptr' = Base[fut_fb]
  /\ StartChannel
  /\ pc' = "idle"
  /\ fut_fb' = None
  /\ patched' = 0
  /\ UNCHANGED <<items, swapVars, app, old_ptr, woken, leaked>>

\* The application drops its Hub75.  The scan goes on.
DropHandle ==
  /\ Reinit
  /\ handle
  /\ pc = "idle"
  /\ handle' = FALSE
  /\ leaked' = TRUE
  /\ UNCHANGED <<initialised, items, current_fb_ptr, swapVars, dmaVars, app, pc, futVars,
                 woken>>

\* swap(new_fb) gives new_fb away; nothing else happens before the first poll.
Swap(b) ==
  /\ handle
  /\ pc = "idle"
  /\ b \in app
  /\ app' = app \ {b}
  /\ fut_fb' = b
  /\ pc' = "created"
  /\ UNCHANGED <<coreVars, swapVars, dmaVars, old_ptr, patched, woken, leaked>>

\* The first poll, up to the loop over the descriptors.
SwapStart ==
  /\ pc = "created"
  /\ old_ptr' = DisplacedPtr
  /\ current_fb_ptr' = Base[fut_fb]
  /\ patched' = 0
  /\ pc' = IF PointerDelta(Base[fut_fb], current_fb_ptr) # 0 THEN "patch" ELSE "arm"
  /\ UNCHANGED <<initialised, handle, items, swapVars, dmaVars, app, fut_fb, woken, leaked>>

\* One round of the loop of apply_item_delta (apply_item_delta_2d), a store to
\* sar that nothing keeps the channel or the handler from coming between.
ApplyItemDelta ==
  /\ pc = "patch"
  /\ items' = [items EXCEPT ![patched + 1].sar = Wrap(@ + Delta)]
  /\ patched' = patched + 1
  /\ pc' = IF patched + 1 = DescriptorCount THEN "arm" ELSE "patch"
  /\ UNCHANGED <<initialised, handle, current_fb_ptr, swapVars, dmaVars, app, fut_fb,
                 old_ptr, woken, leaked>>

\* wait_swap: the critical section that arms the wait, unless there is none.
Arm ==
  /\ pc = "arm"
  /\ IF SwapWaitCount = 0
     THEN pc' = "finish" /\ UNCHANGED <<swap_waits, swap_done>>
     ELSE pc' = "check" /\ swap_waits' = FramesToWait /\ swap_done' = FALSE
  /\ UNCHANGED <<coreVars, swap_waker, frame_count, dmaVars, app, futVars, woken, leaked>>

\* poll_fn: the look at swap_done outside any critical section.
PollLoad ==
  /\ pc = "check"
  /\ pc' = IF swap_done THEN "finish" ELSE "lock"
  /\ UNCHANGED <<coreVars, swapVars, dmaVars, app, futVars, woken, leaked>>

\* poll_fn: the critical section that looks again and registers the waker.
PollLock ==
  /\ pc = "lock"
  /\ IF DoneAtLock
     THEN pc' = "finish" /\ UNCHANGED swap_waker
     ELSE pc' = "pending" /\ swap_waker' = TRUE
  /\ UNCHANGED <<coreVars, swap_waits, swap_done, frame_count, dmaVars, app, futVars, woken,
                 leaked>>

\* The executor polls the task again, once per wake.
Poll ==
  /\ pc = "pending"
  /\ woken
  /\ woken' = FALSE
  /\ pc' = "check"
  /\ UNCHANGED <<coreVars, swapVars, dmaVars, app, futVars, leaked>>

\* Something else that the task waits for wakes it.
SpuriousWake ==
  /\ pc = "pending"
  /\ woken' = TRUE
  /\ UNCHANGED <<coreVars, swapVars, dmaVars, app, pc, futVars, leaked>>

\* The swap is over, one way or the other.
EndSwap ==
  /\ pc' = "idle"
  /\ fut_fb' = None
  /\ old_ptr' = Null
  /\ patched' = 0

\* swap() returns the framebuffer at old_ptr.
SwapReturn ==
  /\ pc = "finish"
  /\ app' = app \cup BuffersAt(old_ptr)
  /\ EndSwap
  /\ UNCHANGED <<coreVars, swapVars, dmaVars, woken, leaked>>

\* The future is dropped at its await point, or before its first poll.
Cancel ==
  /\ pc \in {"created", "pending"}
  /\ EndSwap
  /\ leaked' = TRUE
  /\ UNCHANGED <<coreVars, swapVars, dmaVars, app, woken>>

-------------------------------------------------------------------------------
(***************************************************************************)
(* The channel (external).  A block ends: it is repeated, or the next      *)
(* descriptor is to be loaded.  The interrupt of a descriptor is raised    *)
(* before or after that load.                                              *)
(***************************************************************************)
RepeatBlock ==
  /\ channel.phase = "block"
  /\ channel.block < channel.item.repeat
  /\ channel' = [channel EXCEPT !.block = @ + 1]
  /\ UNCHANGED <<coreVars, swapVars, tc_pending, app, pc, futVars, woken, leaked>>

EndItem ==
  /\ channel.phase = "block"
  /\ channel.block = channel.item.repeat
  /\ \E early \in BOOLEAN :
       /\ channel' = [channel EXCEPT !.phase = "load",
                                     !.next = LinkTarget(TableBase, channel.item),
                                     !.owes_tc = channel.item.tc /\ ~early]
       /\ tc_pending' = (tc_pending \/ (channel.item.tc /\ early))
  /\ UNCHANGED <<coreVars, swapVars, app, pc, futVars, woken, leaked>>

LoadItem ==
  /\ channel.phase = "load"
  /\ channel' = [channel EXCEPT !.phase = "block", !.item = ItemAt(channel.next),
                                !.block = 0, !.owes_tc = FALSE]
  /\ tc_pending' = (tc_pending \/ channel.owes_tc)
  /\ UNCHANGED <<coreVars, swapVars, app, pc, futVars, woken, leaked>>

\* IsrCore::on_frame
OnFrame ==
  /\ frame_count' = (frame_count + 1) % FrameCountSpan
  /\ swap_waits' = WaitsLeft
  /\ IF swap_waits = 1 THEN SignalSwapDone ELSE UNCHANGED <<swap_done, swap_waker, woken>>

\* Hub75DmaHandler::on_interrupt, one critical section.
OnInterrupt ==
  /\ initialised
  /\ tc_pending
  /\ tc_pending' = FALSE
  /\ OnFrame
  /\ UNCHANGED <<coreVars, channel, app, pc, futVars, leaked>>

-------------------------------------------------------------------------------
Init ==
  /\ initialised = FALSE
  /\ handle = FALSE
  /\ items = [k \in DOMAIN BuildItemChain(CHOOSE b \in Buffers : TRUE) |-> ZeroedItem]
  /\ current_fb_ptr = Null
  /\ swap_waits = 0
  /\ swap_done = FALSE
  /\ swap_waker = FALSE
  /\ frame_count = 0
  /\ channel = NewChannel("off")
  /\ tc_pending = FALSE
  /\ app = Buffers
  /\ pc = "idle"
  /\ fut_fb = None
  /\ old_ptr = Null
  /\ patched = 0
  /\ woken = FALSE
  /\ leaked = FALSE

Next ==
  \/ \E b \in Buffers : CallInit(b) \/ Swap(b)
  \/ BuildItem
  \/ New
  \/ DropHandle
  \/ SwapStart
  \/ ApplyItemDelta
  \/ Arm
  \/ PollLoad
  \/ PollLock
  \/ Poll
  \/ SpuriousWake
  \/ SwapReturn
  \/ Cancel
  \/ RepeatBlock
  \/ EndItem
  \/ LoadItem
  \/ OnInterrupt

Spec == Init /\ [][Next]_vars

(***************************************************************************)
(* init() runs to its end.  A task that has been woken is polled and its   *)
(* poll runs to its end; the channel, paced by the free-running timer,     *)
(* goes on; a pending interrupt is served.  Nothing makes the application  *)
(* call init() or swap().                                                  *)
(***************************************************************************)
Fairness ==
  /\ WF_vars(BuildItem)
  /\ WF_vars(New)
  /\ WF_vars(SwapStart)
  /\ WF_vars(ApplyItemDelta)
  /\ WF_vars(Arm)
  /\ WF_vars(PollLoad)
  /\ WF_vars(PollLock)
  /\ WF_vars(Poll)
  /\ WF_vars(SwapReturn)
  /\ WF_vars(RepeatBlock)
  /\ WF_vars(EndItem)
  /\ WF_vars(LoadItem)
  /\ WF_vars(OnInterrupt)

FairSpec == Spec /\ Fairness

-------------------------------------------------------------------------------
(***************************************************************************)
(* Properties.                                                             *)
(***************************************************************************)
Current == BuffersAt(current_fb_ptr)
Old == BuffersAt(old_ptr)

\* swap() has begun and will return Old; it has patched everything.
Waiting == {"check", "lock", "pending", "finish"}
Swapping == {"patch", "arm"} \cup Waiting

\* Does a block that starts at this address and has this length belong to a
\* framebuffer that the application does not own?
DriverBlock(start, words) ==
  \E b \in Buffers \ app : \E i \in Segments :
    start = SegmentPtr(b, i) /\ words = Words(Length[i])

\* The channel reads no framebuffer that the application owns: with two
\* waits, however late an interrupt is served and wherever the patching meets
\* the channel, the old framebuffer is drained (gpdma.rs:24-26).
ChannelReadsDriverBuffer ==
  channel.phase = "block" =>
    DriverBlock(BlockStart(channel.item, channel.block), channel.item.words)

\* The channel is streaming a segment of this framebuffer.
Streams(b) ==
  /\ channel.phase = "block"
  /\ \E i \in Segments : BlockStart(channel.item, channel.block) = SegmentPtr(b, i)

\* While the channel is still at a descriptor that it loaded before swap()
\* patched it, the wait has not run out, and an interrupt that was raised
\* before the wait was armed cannot end it (gpdma.rs:24-26).
StaleReadIsAwaited ==
  pc \in Waiting /\ (\E b \in Old : Streams(b)) =>
    ~swap_done /\ swap_waits > (IF tc_pending THEN 1 ELSE 0)

\* How many descriptors do not lead to the displaced framebuffer.
Written == IF pc \in {"build", "patch"} THEN patched ELSE Len(items)

\* The descriptors in memory are the chain of the current framebuffer, after
\* any number of swaps and cancelled swaps; while swap() or a second init() is
\* writing them, those that are still to come are the displaced one's.
ItemsFollowBuffer ==
  initialised =>
    \E b \in Buffers \ app, c \in Buffers \ app :
      /\ Base[b] = IF pc = "build" THEN Base[fut_fb] ELSE current_fb_ptr
      /\ Base[c] = IF pc = "patch" THEN old_ptr ELSE current_fb_ptr
      /\ \A k \in DOMAIN items : items[k] = BuildItemChain(IF k > Written THEN c ELSE b)[k]

\* What swap() returns is one framebuffer, the driver's until then, and not
\* the current one (gpdma.rs:496 "handed back exclusively").
ReturnsOneSpare ==
  pc = "finish" /\ pc' = "idle" =>
    \E b \in Buffers \ app : app' = app \cup {b} /\ b \notin Current

ExclusiveReturn == [][ReturnsOneSpare]_vars

\* A task that sleeps in swap() will be woken: until the last wait its waker
\* is registered and the count has not run out, afterwards it has been woken.
NoLostWakeup ==
  pc = "pending" => IF swap_done THEN woken ELSE swap_waker /\ swap_waits > 0

\* Framebuffers get lost only by cancelling a swap or dropping the Hub75.
NothingLeaks ==
  ~leaked /\ initialised =>
    app = Buffers \ (Current \cup (IF pc \in Swapping THEN Old ELSE {})
                             \cup (IF fut_fb = None THEN {} ELSE {fut_fb}))

\* Once swap() is called, and unless it is cancelled, it returns.
SwapReturns == pc = "created" ~> pc = "idle"

\* A framebuffer to which the descriptors lead is shown, even if the swap that
\* brought it has been cancelled, unless another one takes its place.
HandedOverIsShown ==
  \A b \in Buffers :
    pc = "arm" /\ fut_fb = b ~> Streams(b) \/ Base[b] # current_fb_ptr

(***************************************************************************)
(* The backends implement what swap() promises (gpdma.rs:456-464): the     *)
(* application gets a framebuffer back only when no descriptor leads to it *)
(* and the channel is not reading it, or, with the unsafe-swap-wait        *)
(* features, reads at most the one descriptor it has loaded.               *)
(***************************************************************************)
Nowhere == "nowhere"

\* The framebuffers to which a table of descriptors leads.
LedTo(table) ==
  {b \in Buffers : \E k \in DOMAIN table, i \in Segments : table[k].sar = SegmentPtr(b, i)}

\* The framebuffer that the channel is streaming.
Streamed ==
  IF channel.phase # "block" THEN None
  ELSE IF \E b \in Buffers : Streams(b) THEN CHOOSE b \in Buffers : Streams(b)
  ELSE Nowhere

H == INSTANCE Handover WITH
       held <- app,
       linked <- LedTo(items),
       streamed <- Streamed,
       Drained <- SwapWaitCount = 2

ImplementsHandover == H!Spec

-------------------------------------------------------------------------------
(***************************************************************************)
(* The inductive invariant: what the parts of the state know of each other *)
(* between any two steps.                                                  *)
(***************************************************************************)
\* Nothing runs before init(), and a call in progress has a framebuffer that
\* the application does not own.
StartInv ==
  /\ ~initialised => channel.phase = "off" /\ ~handle
  /\ pc = "build" => ~handle
  /\ pc \notin {"idle", "build"} => handle
  /\ IF pc = "idle" THEN fut_fb = None ELSE fut_fb \in Buffers \ app

\* The table has room for one chain, of which the calls write one descriptor
\* after the other.
TableInv ==
  /\ \A b \in Buffers : DOMAIN items = DOMAIN BuildItemChain(b)
  /\ pc = "build" => patched \in 0 .. Len(items)
  /\ pc = "patch" => patched \in 0 .. Len(items) - 1
  /\ ~initialised =>
       \A k \in DOMAIN items :
         items[k] = IF pc = "build" /\ k <= patched THEN BuildItemChain(fut_fb)[k]
                    ELSE ZeroedItem

\* The descriptor that the channel has loaded was one of a whole chain, which
\* with two waits is still the driver's, and its links lead to descriptors.
ChannelInv ==
  /\ channel.phase = "block" =>
       \E b \in Buffers : \E k \in DOMAIN items :
         /\ channel.item = BuildItemChain(b)[k]
         /\ channel.block \in 0 .. channel.item.repeat
         /\ SwapWaitCount = 2 => b \notin app
  /\ channel.phase = "load" =>
       \E k \in DOMAIN items : channel.next = ItemAddress(TableBase, ItemSize, k)

\* The framebuffer of a swap is not the current one until the swap starts and
\* is from then on; the displaced one is another one of the driver's.
SwapInv ==
  /\ pc = "created" => current_fb_ptr # Base[fut_fb]
  /\ pc \in Swapping =>
       /\ current_fb_ptr = Base[fut_fb]
       /\ \E c \in Buffers \ app : c # fut_fb /\ old_ptr = Base[c]

\* The wait is over exactly when the count has run out.
WaitInv ==
  /\ pc \in Waiting \ {"finish"} => SwapWaitCount > 0
  /\ pc \in Waiting /\ SwapWaitCount > 0 => (swap_done <=> swap_waits = 0)
  /\ pc = "finish" /\ SwapWaitCount > 0 => swap_done

IndInv ==
  /\ TypeOK
  /\ StartInv
  /\ TableInv
  /\ ItemsFollowBuffer
  /\ ChannelInv
  /\ SwapInv
  /\ WaitInv
  /\ NoLostWakeup
  /\ SwapWaitCount = 2 => StaleReadIsAwaited

\* While nothing has been cancelled or dropped, who has which framebuffer:
\* what NothingLeaks needs to be inductive beside IndInv.
OwnersInv ==
  ~leaked =>
    /\ initialised => handle
    /\ ~initialised => app = Buffers \ (IF fut_fb = None THEN {} ELSE {fut_fb})
    /\ NothingLeaks

-------------------------------------------------------------------------------
(***************************************************************************)
(* Two statements of the documentation that these backends do not keep.    *)
(***************************************************************************)

\* A frame is read from one framebuffer: "swapping atomically at frame
\* boundaries" (lib.rs:19, README.md:27).
WholeFrames ==
  [][ LoadItem /\ channel.next # TableBase =>
        \E b \in Buffers : \E i, j \in Segments :
          channel.item.sar = SegmentPtr(b, i) /\ channel'.item.sar = SegmentPtr(b, j) ]_vars

\* The descriptors are patched "in a critical section" (gpdma.rs:22), which
\* no interrupt can enter.
PatchedUndisturbed == [][ pc = "patch" => ~OnInterrupt ]_vars
==============================================================================
