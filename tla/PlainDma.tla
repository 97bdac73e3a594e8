------------------------------- MODULE PlainDma -------------------------------
(***************************************************************************)
(* The plain DMA backend, src/src/dma.rs: IsrCore, Hub75::new,             *)
(* Hub75::swap and the interrupt handler that hub75_define! generates.     *)
(*                                                                         *)
(* Three parties run interleaved:                                          *)
(*   - the DMA channel, which streams one segment and raises its           *)
(*     transfer-complete interrupt (external: embassy-stm32's dma module); *)
(*   - the interrupt handler, one critical section from entry to exit;     *)
(*   - the application task, which owns framebuffers, calls init(), awaits *)
(*     swap() or drops its future.  Between two critical sections of       *)
(*     swap_inner the handler may run, so each of them is a step.          *)
(***************************************************************************)
EXTENDS Bcm

CONSTANTS
  None,            \* Option::None, and no framebuffer
  WordSize,        \* P::DMA_WORD_SIZE, "OneByte" or "TwoBytes"
  SharedVector,    \* TRUE: another channel shares the interrupt vector
  Reinit,          \* TRUE: the application may drop Hub75 and call init() again
  FrameCountSpan   \* number of values of frame_count (2^32 in an AtomicU32)

ASSUME PlainDmaAssumption ==
  /\ None \notin Buffers
  /\ None \notin Int
  /\ WordSize \in {"OneByte", "TwoBytes"}
  /\ WordSize = "TwoBytes" => \A i \in Segments : Length[i] % 2 = 0
  /\ SharedVector \in BOOLEAN
  /\ Reinit \in BOOLEAN
  /\ FrameCountSpan \in Nat \ {0}

VARIABLES
  initialised,     \* IsrCore::state and TIMER are Some
  current_fb_ptr,  \* IsrCoreState::current_fb_ptr
  pending_delta,   \* IsrCoreState::pending_delta, None or a signed distance
  pending_fb_ptr,  \* IsrCoreState::pending_fb_ptr
  returned_fb_ptr, \* IsrCoreState::returned_fb_ptr
  swap_done,       \* IsrCore::swap_done
  swap_waker,      \* IsrCore::swap_waker is Some
  frame_count,     \* IsrCore::frame_count
  dma,             \* the channel: is it streaming, from where, how many words
  tc_pending,      \* its transfer-complete interrupt is pending
  app,             \* the framebuffers of which the application owns the &mut
  handle,          \* the application owns a Hub75
  pc,              \* where the application's swap() stands
  fut_fb,          \* the framebuffer given to that swap()
  woken,           \* the task's waker has been woken since its last poll
  leaked           \* history: a swap has been cancelled or a Hub75 dropped

coreVars == <<initialised, current_fb_ptr, pending_delta, pending_fb_ptr, returned_fb_ptr>>
swapVars == <<swap_done, swap_waker, frame_count>>
dmaVars == <<dma, tc_pending>>
taskVars == <<app, handle, pc, fut_fb, woken, leaked>>
vars == <<bcmVars, coreVars, swapVars, dmaVars, taskVars>>

Phases == {"idle", "created", "check", "lock", "pending", "finish"}

TypeOK ==
  /\ BcmTypeOK
  /\ initialised \in BOOLEAN
  /\ current_fb_ptr \in Address
  /\ pending_delta \in Int \cup {None}
  /\ pending_fb_ptr \in Address
  /\ returned_fb_ptr \in Address
  /\ swap_done \in BOOLEAN
  /\ swap_waker \in BOOLEAN
  /\ frame_count \in 0 .. FrameCountSpan - 1
  /\ dma \in [busy : BOOLEAN, ptr : Address, words : Nat]
  /\ tc_pending \in BOOLEAN
  /\ app \subseteq Buffers
  /\ handle \in BOOLEAN
  /\ pc \in Phases
  /\ fut_fb \in Buffers \cup {None}
  /\ woken \in BOOLEAN
  /\ leaked \in BOOLEAN

-------------------------------------------------------------------------------
(***************************************************************************)
(* Helpers of the backend.                                                 *)
(***************************************************************************)

\* The number of DMA words in `len` bytes, as kick_dma counts them.
Words(len) == IF WordSize = "TwoBytes" THEN len \div 2 ELSE len

\* kick_dma on segment k of the cache segs: write_raw configures the channel
\* and starts it.
Kick(segs, k) ==
  dma' = [busy |-> TRUE, ptr |-> segs[k].ptr, words |-> Words(segs[k].len)]

\* Faulty variant: the flag is set and nobody is woken.
SignalWithoutWake == swap_done' = TRUE /\ UNCHANGED <<swap_waker, woken>>

\* IsrCore::signal_swap_done
SignalSwapDone ==
  /\ swap_done' = TRUE
  /\ swap_waker' = FALSE
  /\ woken' = (woken \/ swap_waker)

-------------------------------------------------------------------------------
(***************************************************************************)
(* init(): Hub75::new in one critical section, IsrCore::init_state and     *)
(* start_first_transfer included.  Replacing the old IsrCoreState drops    *)
(* its Transfer, which stops the channel; swap_waker and an interrupt that *)
(* is already pending are left alone.                                      *)
(***************************************************************************)
New(b) ==
  /\ ~handle
  /\ initialised => Reinit
  /\ b \in app
  /\ app' = app \ {b}
  /\ handle' = TRUE
  /\ initialised' = TRUE
  /\ Load(b)
  /\ current_fb_ptr' = Base[b]
  /\ pending_delta' = None
  /\ pending_fb_ptr' = Null
  /\ returned_fb_ptr' = Null
  /\ swap_done' = FALSE
  /\ frame_count' = 0
  /\ Kick(segments', current_segment')
  /\ UNCHANGED <<swap_waker, tc_pending, pc, fut_fb, woken, leaked>>

\* The application drops its Hub75.  The scan goes on; the framebuffers the
\* driver holds are out of reach for good.
DropHandle ==
  /\ Reinit
  /\ handle
  /\ pc = "idle"
  /\ handle' = FALSE
  /\ leaked' = TRUE
  /\ UNCHANGED <<bcmVars, coreVars, swapVars, dmaVars, app, pc, fut_fb, woken>>

-------------------------------------------------------------------------------
(***************************************************************************)
(* swap(new_fb).await.  Calling swap gives new_fb away; nothing else       *)
(* happens before the future is polled.  NotInitialised cannot arise: a    *)
(* Hub75 exists only once the state is Some, and it never becomes None.    *)
(***************************************************************************)
Swap(b) ==
  /\ handle
  /\ pc = "idle"
  /\ b \in app
  /\ app' = app \ {b}
  /\ fut_fb' = b
  /\ pc' = "created"
  /\ UNCHANGED <<bcmVars, coreVars, swapVars, dmaVars, handle, woken, leaked>>

\* Faulty variant: swap_done is not reset, so that an earlier swap's counts.
SwapQueueStale ==
  /\ pc = "created"
  /\ pending_delta' = PointerDelta(Base[fut_fb], current_fb_ptr)
  /\ pending_fb_ptr' = Base[fut_fb]
  /\ pc' = "check"
  /\ UNCHANGED <<bcmVars, initialised, current_fb_ptr, returned_fb_ptr, swapVars, dmaVars,
                 app, handle, fut_fb, woken, leaked>>

\* The first poll: the critical section that queues the framebuffer.
SwapQueue ==
  /\ pc = "created"
  /\ pending_delta' = PointerDelta(Base[fut_fb], current_fb_ptr)
  /\ pending_fb_ptr' = Base[fut_fb]
  /\ swap_done' = FALSE
  /\ pc' = "check"
  /\ UNCHANGED <<bcmVars, initialised, current_fb_ptr, returned_fb_ptr, swap_waker,
                 frame_count, dmaVars, app, handle, fut_fb, woken, leaked>>

\* poll_fn: the look at swap_done outside any critical section.
PollLoad ==
  /\ pc = "check"
  /\ pc' = IF swap_done THEN "finish" ELSE "lock"
  /\ UNCHANGED <<bcmVars, coreVars, swapVars, dmaVars, app, handle, fut_fb, woken, leaked>>

\* Faulty variant: the waker is registered without a second look.
PollLockOnce ==
  /\ pc = "lock"
  /\ pc' = "pending"
  /\ swap_waker' = TRUE
  /\ UNCHANGED <<bcmVars, coreVars, swap_done, frame_count, dmaVars, app, handle, fut_fb,
                 woken, leaked>>

\* poll_fn: the critical section that looks again and registers the waker.
PollLock ==
  /\ pc = "lock"
  /\ IF swap_done
     THEN pc' = "finish" /\ UNCHANGED swap_waker
     ELSE pc' = "pending" /\ swap_waker' = TRUE
  /\ UNCHANGED <<bcmVars, coreVars, swap_done, frame_count, dmaVars, app, handle, fut_fb,
                 woken, leaked>>

\* The executor polls the task again, once per wake.
Poll ==
  /\ pc = "pending"
  /\ woken
  /\ woken' = FALSE
  /\ pc' = "check"
  /\ UNCHANGED <<bcmVars, coreVars, swapVars, dmaVars, app, handle, fut_fb, leaked>>

\* Something else that the task waits for wakes it.
SpuriousWake ==
  /\ pc = "pending"
  /\ woken' = TRUE
  /\ UNCHANGED <<bcmVars, coreVars, swapVars, dmaVars, app, handle, pc, fut_fb, leaked>>

\* The last critical section of swap_inner, and the return of swap().
SwapReturn ==
  /\ pc = "finish"
  /\ app' = app \cup BuffersAt(returned_fb_ptr)
  /\ fut_fb' = None
  /\ pc' = "idle"
  /\ UNCHANGED <<bcmVars, coreVars, swapVars, dmaVars, handle, woken, leaked>>

\* The future is dropped at its await point, or before its first poll.
Cancel ==
  /\ pc \in {"created", "pending"}
  /\ pc' = "idle"
  /\ fut_fb' = None
  /\ leaked' = TRUE
  /\ UNCHANGED <<bcmVars, coreVars, swapVars, dmaVars, app, handle, woken>>

-------------------------------------------------------------------------------
\* Faulty variant: the half-transfer interrupt is enabled too.
TransferHalfway ==
  /\ dma.busy
  /\ \E busy \in BOOLEAN : dma' = [dma EXCEPT !.busy = busy]
  /\ tc_pending' = TRUE
  /\ UNCHANGED <<bcmVars, coreVars, swapVars, taskVars>>

\* The channel has streamed its last word.
TransferComplete ==
  /\ dma.busy
  /\ dma' = [dma EXCEPT !.busy = FALSE]
  /\ tc_pending' = TRUE
  /\ UNCHANGED <<bcmVars, coreVars, swapVars, taskVars>>

\* Faulty variant: the two assignments of the takeover in the wrong order.
TakeOverReordered ==
  /\ FrameBoundary /\ pending_delta # None
  /\ current_fb_ptr' = pending_fb_ptr
  /\ returned_fb_ptr' = pending_fb_ptr
  /\ pending_fb_ptr' = Null
  /\ pending_delta' = None
  /\ ApplyDelta(pending_delta)
  /\ SignalSwapDone

\* Faulty variant: the delta is read, not taken, and applied at every frame.
TakeOverAgain ==
  /\ FrameBoundary /\ pending_delta # None
  /\ returned_fb_ptr' = current_fb_ptr
  /\ current_fb_ptr' = pending_fb_ptr
  /\ pending_fb_ptr' = Null
  /\ ApplyDelta(pending_delta)
  /\ SignalSwapDone
  /\ UNCHANGED pending_delta

\* on_dma_complete, at a frame boundary with a swap queued.
TakeOver ==
  /\ FrameBoundary /\ pending_delta # None
  /\ returned_fb_ptr' = current_fb_ptr
  /\ current_fb_ptr' = pending_fb_ptr
  /\ pending_fb_ptr' = Null
  /\ pending_delta' = None
  /\ ApplyDelta(pending_delta)
  /\ SignalSwapDone

\* on_dma_complete, otherwise.
KeepShowing ==
  /\ ~(FrameBoundary /\ pending_delta # None)
  /\ UNCHANGED <<segments, current_fb_ptr, pending_delta, pending_fb_ptr, returned_fb_ptr,
                 swap_done, swap_waker, woken>>

\* Faulty variant: the channel is restarted before the takeover.
DmaInterruptEarlyKick ==
  /\ initialised
  /\ tc_pending \/ SharedVector
  /\ tc_pending' = FALSE
  /\ Advance
  /\ frame_count' = IF FrameBoundary THEN (frame_count + 1) % FrameCountSpan ELSE frame_count
  /\ Kick(segments, current_segment')
  /\ TakeOver \/ KeepShowing
  /\ UNCHANGED <<count, initialised, app, handle, pc, fut_fb, leaked>>

(***************************************************************************)
(* Hub75DmaHandler::on_interrupt: stop the timer, on_dma_complete, start   *)
(* the timer, in one critical section.  The handler does not ask which     *)
(* channel raised the interrupt.  Before init() it returns at once, which  *)
(* changes nothing.  Dropping the old transfer stops the channel, and the  *)
(* new one starts it, so only the last state of dma can be observed.       *)
(***************************************************************************)
DmaInterrupt ==
  /\ initialised
  /\ tc_pending \/ SharedVector
  /\ tc_pending' = FALSE
  /\ Advance
  /\ frame_count' = IF FrameBoundary THEN (frame_count + 1) % FrameCountSpan ELSE frame_count
  /\ TakeOver \/ KeepShowing
  /\ Kick(segments', current_segment')
  /\ UNCHANGED <<count, initialised, app, handle, pc, fut_fb, leaked>>

-------------------------------------------------------------------------------
Init ==
  /\ BcmInit
  /\ initialised = FALSE
  /\ current_fb_ptr = Null
  /\ pending_delta = None
  /\ pending_fb_ptr = Null
  /\ returned_fb_ptr = Null
  /\ swap_done = FALSE
  /\ swap_waker = FALSE
  /\ frame_count = 0
  /\ dma = [busy |-> FALSE, ptr |-> Null, words |-> 0]
  /\ tc_pending = FALSE
  /\ app = Buffers
  /\ handle = FALSE
  /\ pc = "idle"
  /\ fut_fb = None
  /\ woken = FALSE
  /\ leaked = FALSE

Next ==
  \/ \E b \in Buffers : New(b) \/ Swap(b)
  \/ DropHandle
  \/ SwapQueue
  \/ PollLoad
  \/ PollLock
  \/ Poll
  \/ SpuriousWake
  \/ SwapReturn
  \/ Cancel
  \/ TransferComplete
  \/ DmaInterrupt

Spec == Init /\ [][Next]_vars

(***************************************************************************)
(* The executor polls a task that has been woken and runs a poll to its    *)
(* end; the channel, paced by the timer, completes its transfer; the       *)
(* interrupt controller delivers a pending interrupt.  Nothing makes the   *)
(* application call init() or swap(), or cancel.                           *)
(***************************************************************************)
Fairness ==
  /\ WF_vars(SwapQueue)
  /\ WF_vars(PollLoad)
  /\ WF_vars(PollLock)
  /\ WF_vars(Poll)
  /\ WF_vars(SwapReturn)
  /\ WF_vars(TransferComplete)
  /\ WF_vars(DmaInterrupt)

FairSpec == Spec /\ Fairness
-------------------------------------------------------------------------------
(***************************************************************************)
(* Properties.                                                             *)
(***************************************************************************)

\* The framebuffers at the three pointers of IsrCoreState.
Current == BuffersAt(current_fb_ptr)
Queued == BuffersAt(pending_fb_ptr)
Returned == BuffersAt(returned_fb_ptr)

\* A swap is in progress and its takeover has happened.
Waiting == {"check", "lock", "pending", "finish"}
Displaced == IF pc \in Waiting /\ swap_done THEN Returned ELSE {}

\* The channel only ever reads the segment that the BCM state names, whole,
\* from the framebuffer that is current, and the application does not own
\* that framebuffer (kick_dma, dma.rs:394 "no longer being read").
DmaReadsDriverBuffer ==
  dma.busy =>
    \E b \in Buffers \ app :
      /\ current_fb_ptr = Base[b]
      /\ dma.ptr = SegmentPtr(b, current_segment)
      /\ dma.words = Words(Length[current_segment])

\* swap() gives back a framebuffer that nobody owns, that is neither scanned
\* nor queued: one framebuffer, exclusive (dma.rs:385 "an exclusive reference
\* to the old framebuffer that is no longer being read by the ISR").
ReturnsOneSpare ==
  pc = "finish" /\ pc' = "idle" =>
    \E b \in Buffers \ app :
      /\ app' = app \cup {b}
      /\ b \notin Current \cup Queued

ExclusiveReturn == [][ReturnsOneSpare]_vars

\* A swap that is about to return has had its effect: its framebuffer is the
\* one on display, however many swaps were cancelled before it.
ReturnAfterSwitch ==
  pc = "finish" =>
    /\ swap_done
    /\ current_fb_ptr = Base[fut_fb]
    /\ pending_delta = None

\* A task that sleeps in swap() will be woken: until the takeover its waker
\* is registered, afterwards it has been woken (the double check of swap_done
\* around the registration, dma.rs:213-224).
NoLostWakeup ==
  pc = "pending" => IF swap_done THEN woken ELSE swap_waker

\* Framebuffers get lost only by cancelling a swap or dropping the Hub75: in
\* between, every framebuffer is the application's, the swap's, or on display.
NothingLeaks ==
  ~leaked /\ initialised =>
    app = Buffers \ (Current \cup Displaced \cup (IF fut_fb = None THEN {} ELSE {fut_fb}))

\* The handler takes the next segment only once the last one has been
\* streamed whole (dma.rs:145: only from the transfer-complete interrupt);
\* init() starts over.
WholeSegments ==
  [][ dma.busy /\ ~(~handle /\ handle') => UNCHANGED <<current_segment, current_rep>> ]_vars

\* Once swap() is called, and unless it is cancelled, it returns.
SwapReturns == pc = "created" ~> pc = "idle"

\* A framebuffer that a cancelled swap has left queued goes on display all the
\* same, or makes way for the next one: the frame always comes to its end.
QueuedIsTaken ==
  \A b \in Buffers : pending_fb_ptr = Base[b] ~> pending_fb_ptr # Base[b]

(***************************************************************************)
(* The backend implements the double buffer of the crate documentation:    *)
(* "swapping atomically at frame boundaries" (lib.rs:18).                  *)
(***************************************************************************)
TheBuffer(set) == IF set = {} THEN None ELSE CHOOSE b \in set : TRUE

DB == INSTANCE DoubleBuffer WITH
        held <- app,
        shown <- [fb |-> TheBuffer(Current), seg |-> current_segment, rep |-> current_rep],
        queued <- TheBuffer(Queued),
        displaced <- TheBuffer(Displaced)

ImplementsDoubleBuffer == DB!Spec
-------------------------------------------------------------------------------
(***************************************************************************)
(* The inductive invariant: what the parts of the state know of each other *)
(* between any two steps.                                                  *)
(***************************************************************************)

\* Nothing happens before init(), and a Hub75 exists only after it.
StartInv ==
  /\ ~initialised => ~dma.busy /\ ~tc_pending
  /\ handle => initialised
  /\ pc # "idle" => handle /\ fut_fb \in Buffers \ app

\* The cache holds the segments of one framebuffer, the driver's, and the
\* position in it is one of a frame.
CacheInv ==
  initialised =>
    /\ count = SegmentCount
    /\ current_segment \in Segments
    /\ current_rep < Reps[current_segment]
    /\ \E b \in Buffers \ app :
         /\ current_fb_ptr = Base[b]
         /\ \A k \in Segments : segments[k] = BcmSegment(b, k)

\* The channel reads the segment that the cache names.
ChannelInv ==
  dma.busy =>
    /\ dma.ptr = segments[current_segment].ptr
    /\ dma.words = Words(segments[current_segment].len)

\* A queued framebuffer is the driver's, not the current one, and the delta
\* still leads from the current one to it.
PendingInv ==
  IF pending_delta = None THEN pending_fb_ptr = Null
  ELSE /\ initialised
       /\ pending_fb_ptr # current_fb_ptr
       /\ pending_delta = PointerDelta(pending_fb_ptr, current_fb_ptr)
       /\ \E b \in Buffers \ app : pending_fb_ptr = Base[b]

\* A framebuffer given to swap() is nowhere else, then queued, then current;
\* once it is current, the returned one is the driver's and another one.
SwapInv ==
  /\ pc = "created" => Base[fut_fb] \notin {current_fb_ptr, pending_fb_ptr}
  /\ pc \in Waiting /\ ~swap_done => pending_delta # None /\ pending_fb_ptr = Base[fut_fb]
  /\ pc \in Waiting /\ swap_done =>
       /\ pending_delta = None
       /\ current_fb_ptr = Base[fut_fb]
       /\ \E r \in Buffers \ app : r # fut_fb /\ returned_fb_ptr = Base[r]
  /\ pc = "finish" => swap_done

\* The inductive invariant of the backend.
IndInv ==
  /\ TypeOK
  /\ StartInv
  /\ CacheInv
  /\ ChannelInv
  /\ PendingInv
  /\ SwapInv
  /\ NoLostWakeup

\* Where the framebuffers are as long as nothing has been cancelled or dropped:
\* what NothingLeaks needs to be inductive beside IndInv.
OwnersInv ==
  ~leaked =>
    /\ initialised <=> handle
    /\ ~initialised => app = Buffers
    /\ pc = "idle" => fut_fb = None
    /\ pending_delta # None => pc \in Waiting /\ ~swap_done
    /\ NothingLeaks

===============================================================================
