# A verification of embassy-stm32-hub75

TLA+ models of the HUB75 driver in `src/src/`, TLC runs that check them on small
instances, and TLAPS proofs of theorems about them. `PROJECT.json` maps every
definition to the lines it models and lists the runs, hazards and theorems.

The driver shows a framebuffer on an LED panel by having a DMA channel stream
its words to a GPIO port, paced by a timer. A framebuffer is a sequence of
*segments*, each to be streamed a number of times per frame (binary code
modulation). The application draws into a second framebuffer and exchanges the
two with `swap(fb).await`, which promises that what it returns is no longer read.
Framebuffers are `&'static mut`: who may touch one is a question of ownership
that the driver answers with raw pointers, an interrupt handler and a DMA
channel, where no compiler helps.

## 1. The system

| Part | Source | State | Operations |
|---|---|---|---|
| segment cache, BCM state machine | `bcm.rs` | cached segments and their count; position (segment, repetition) | `load`, `advance`, `apply_delta` |
| plain DMA backend | `dma.rs` | `IsrCoreState` (current, pending and returned framebuffer, pending delta, transfer), `swap_done`, `swap_waker`, `frame_count` | `init`, `swap`, dropping a swap, the interrupt handler |
| GPDMA linear backend | `gpdma.rs` | descriptor table `ITEMS`, `current_fb_ptr`, `swap_waits`, `swap_done`, `swap_waker`, `frame_count` | `init`, chain builder, `swap`, `wait_swap`, the handler |
| GPDMA 2D backend | `gpdma_2d.rs` | as above, one descriptor per segment | as above |
| pin groups | `lib.rs` | none; pin levels and directions | `Hub75Pins8::new`, `Hub75Pins16::new`, `configure_and_get_odr` |
| timer | `setup.rs`, handler in `dma.rs` | the timer's registers, its DMA request | `hardware`, `store_timer`; stop, reset and start in the plain handler |
| configuration, errors, features | `lib.rs` | none | - |
| `hub75_define!` macros | the backends | the statics and the interrupt handler | generated `init`, `on_interrupt` |
| examples | `examples/*/src/main.rs` | locals of `display_task`, `RENDER_MS`, `SIMPLE_COUNTER` | `main`, `display_task`: draw, `swap().await`, measure the refresh rate |
| hub75-framebuffer, embassy | dependencies | segment layout; DMA channels, polling | external |

Interactions. In the plain backend the handler runs at the end of *every segment
repetition*: it steps the BCM state machine, at a frame boundary takes over a
queued framebuffer by shifting the cached pointers, and starts the next
transfer. `swap()` shares `IsrCoreState` with it under a critical section, and
`swap_done` and `swap_waker` with it partly outside one. In the GPDMA backends the
channel walks a circular chain of descriptors by itself and the handler only
counts frames; `swap()` patches the descriptors in memory while the channel reads
them, then waits for a number of frame interrupts. The timer asks the DMA for a word
in each period and clocks it into the panel; it does not know where a transfer
ends. The examples draw into what `swap()` returns and read `frame_count`, which the
handler goes on counting.

What is hard:

* interleavings of the task, the handler and the channel at every point where
  no critical section is held;
* futures dropped at an await point: a swap that is abandoned stays queued, or
  has patched the descriptors and waits no longer;
* interrupts served late, merged, pending from before, or of another channel
  on the same vector;
* pointer arithmetic in wrapping machine words, the two halves of an address in
  descriptor links, off-by-one in repetition counts and `is_last`;
* `init()` for a second time while the old scan is still running, with GPDMA
  over a table that the channel is walking;
* a timer that keeps clocking between the end of a transfer and the handler;
* counters that wrap between two readings.

The properties that make each part correct are stated at the end of its module;
section 4 lists them by run, and `hazards` in `PROJECT.json` ties each line at
which something can go wrong to the properties that would catch it.

## 2. The modules

```
Capacity                MAX_SEGMENTS
  |-- Framebuffers      memory, segments, wrapping pointer arithmetic, facts about it
  |     |-- Bcm         segment cache and BCM state machine (bcm.rs)
  |     |     `-- PlainDma        the plain backend (dma.rs)   --implements-->  DoubleBuffer
  |     |           `-- DisplayTask      the examples on top of the plain backend
  |     `-- Gpdma       both GPDMA backends, with GpdmaChain   --implements-->  Handover
  `-- GpdmaChain        the chain builders (gpdma.rs, gpdma_2d.rs)
        `-- GpdmaWalk   the channel on a chain, beside the plain backend's walk
Setup                   pins, output register address (lib.rs)
PixelClock              timer, DMA requests and handler (setup.rs, dma.rs)
MC*                     values for TLC
```

The proofs about a module are in the module of its name with `Proofs` behind it:
`PlainDmaProofs`, `DisplayTaskProofs` (which extends it), `GpdmaChainProofs`,
`GpdmaWalkProofs`, `GpdmaProofs`, `PixelClockProofs`, `SetupProofs`. The few facts about
pointer arithmetic that both backends use are at the end of `Framebuffers`.

**Framebuffers.** A framebuffer `b` is at address `Base[b]`, its segment `i` at
`SegmentPtr(b, i)`. Addresses are integers of width `2 * Half`. `PointerDelta` is the
signed subtraction of `swap_inner`, wrapping as the release profile does;
`WrappingByteOffset` is what `apply_delta` applies. `BuffersAt(ptr)` is the
framebuffer that `&mut *ptr` gives to whoever holds it: a wrong pointer makes it
the empty set or somebody else's framebuffer. `LayoutAssumption` is the
assertions of `segments_from_fb_into` and a sane `FrameBuffer`, no segment of which
starts at the null pointer; `DisjointAssumption` says that two framebuffers share no memory.

**Bcm.** `segments`, `count`, `current_segment`, `current_rep` under their names in the
code. `FrameBoundary` is the `true` of `BcmState::advance`.

**PlainDma.** `New` is `init()` with everything inside its one critical section:
`Hub75::new`, `init_state` (a fresh `BcmState`) and `start_first_transfer` (load, first
`kick_dma`). `swap()` is cut at its critical sections: `Swap` (the call, which
does nothing before the first poll), `SwapQueue`, then `PollLoad` (the look at
`swap_done` outside a critical section), `PollLock` (the second look and the
registration of the waker), `Poll` and `SpuriousWake` (the executor), `SwapReturn`.
`Cancel` drops the future at its await point or before its first poll;
`DropHandle` drops the `Hub75`. `TransferComplete` is the channel. `DmaInterrupt` is
the whole handler, one critical section: advance, count the frame, `TakeOver`
or `KeepShowing`, kick. With `SharedVector` it runs at any time, as it does when
another channel of the vector interrupts.
`app` is the set of framebuffers of which the application owns the `&mut`: the
ghost that ownership properties speak of. `leaked` is a history variable.

**DoubleBuffer.** What the crate documentation promises of `swap()`: one
framebuffer is shown, at most one is queued, the exchange happens only between
two frames, and the application gets back the framebuffer that was displaced.
No pointers, caches, interrupts or futures.

**GpdmaChain.** `build_item_chain` and `build_item_chain_2d` as functions from the
segments and the address of the table to descriptors: address, words, repeat
count, distance to go back, interrupt, and the low half of the link. `LinearFits`
and `TwoDFits` are their assertions; where they are false the code panics.
`LinkTarget` and `BlockStart` say what the hardware makes of a descriptor (external).

**GpdmaWalk.** `Build` calls one of the builders, `Panic` is one of its assertions that
fails. `NextBlock` ends a block: the channel repeats it or follows the link
(`ChannelAdvances`), and the plain backend's walk through the same segments goes on as
`BcmState::advance` does (`Advance`). A segment without repetitions (one that is not in
`Shown`) has no item, while the plain backend streams it once: that is `ExtraBlock`, in
which the channel takes no part.

**Gpdma.** One module for both backends, which differ only in the chain
(`TwoD`). `init()` is `CallInit` (the framebuffer is given away), `BuildItem` (one
descriptor, written outside any critical section) and `New` (the critical
section: `StoreTimer`, `StartChannel`, the new `Hub75`). `swap()` is `Swap`, `SwapStart`,
`ApplyItemDelta`, `Arm`, `PollLoad`, `PollLock`, `Poll`, `SwapReturn`, with `Cancel` as in the plain
backend. `ApplyItemDelta` is *one* store to one descriptor: nothing keeps the
channel or the handler from running between two of them. The channel
(external) streams a block, repeats it (`RepeatBlock`), ends it (`EndItem`) and loads
the next descriptor from memory *at that moment* (`LoadItem`); the interrupt of
the last descriptor may be raised before or after that load. An interrupt is a
flag: two that are raised before the first is served are one. `OnInterrupt` is the
generated handler, `OnFrame` what it calls. `SwapWaitCount` is `SWAP_WAIT_COUNT`. With
`Reinit`, the application may drop the `Hub75` (`DropHandle`) and call `init()` again
while the forgotten channel walks the table that `BuildItem` is rewriting.

**Handover.** What the GPDMA backends promise: the descriptors lead to a set of
framebuffers (`linked`), the channel streams any one of them (`streamed`), and a
framebuffer comes back (`held`) only when nothing leads to it. `Drained` says whether
it must not be streamed either: TRUE for two waits, FALSE for fewer. There are no
waits, interrupts, pointers or polls in it. The refinement reads `linked` off
the addresses in the table and `streamed` off the running block.

**Setup.** The constructors (`Accept`, `RejectStart`, `RejectPin`), the loop of
`configure_and_get_odr`, and `DmaWrite`, one word of the channel on the output
register.

**PixelClock.** The timer's registers as `setup::hardware` leaves them
(`ConfiguredTimer`, with the compare preload that an update event loads), `Start` (arm
the channel, start the timer), `Tick` (one count; an update event raises the DMA
request, the rising edge of the output clocks the port into the panel), `WriteWord`
(the channel answers) and `OnInterrupt` (stop, next transfer, reset, start). Its last
`WriteWord` is PlainDma's `TransferComplete`, its `OnInterrupt` PlainDma's `DmaInterrupt`; what the
handler does besides is in PlainDma.

**DisplayTask.** `main` (`Main`, then `MainLoop` with its counter) and `display_task`
(`StartTask`, `Draw`, `AwaitSwap`, `TakeBack`, `CountRender`, `Measure`, `Restart`) of both example
applications, composed with the plain backend: `AwaitSwap` and `TakeBack` are the steps
of its `swap()`, `Stream` and `Interrupt` its channel and handler, which run at any time.
`MainLoop` runs only while the display task is suspended, as on one executor.
`elapsed` is the time since `start`. `frames` is a history variable that
counts the frames since the last reading without wrapping.

Each definition that a mutant replaces is preceded by its faulty variant, marked
as such: the bug that the property is there to catch. They are part of no
specification.

## 3. Abstractions

* Words of pixel data have no value: what matters is which framebuffer's which
  segment is read. The bits of a word appear only in `Setup`.
* PlainDma leaves the timer out: its handler is one critical section around a
  timer that stands still. PixelClock has the timer, and leaves out which words
  a transfer has: two transfers are told apart by their parity. The DMA answers a
  request before the rising edge of the same period; that is what the configured
  pixel clock has to be slow enough for.
* `frame_count` wraps modulo `FrameCountSpan` (2^32 in the code); `elapsed`,
  `render_count` and the ghost `frames` stop at a cap (`ElapsedCap`, `RenderCap`,
  `FrameCountSpan`).
* `kick_dma` drops the old transfer and starts a new one; no step can be seen
  between the two.
* The crate is built for single-core Cortex-M: a critical section excludes
  every interrupt, and memory is sequentially consistent apart from the DMA,
  which sees each 32-bit store to a descriptor at once.

## 4. What is checked

| Run | Module | Shows |
|---|---|---|
| `plain_safety` | MCPlainDma | any sequence of swaps, cancelled swaps, dropped handles and repeated `init()`, the handler running also for other channels: `DmaReadsDriverBuffer`, `ExclusiveReturn`, `ReturnAfterSwitch`, `NoLostWakeup`, `NothingLeaks`, `IndInv` (the invariant of the proofs), and `ImplementsDoubleBuffer` |
| `plain_liveness` | MCPlainDma | one `init()`, a vector of its own: `SwapReturns`; `QueuedIsTaken`, a framebuffer that a cancelled swap left queued is taken over all the same; `WholeSegments`, every segment is streamed to its end |
| `plain_shared_cut` | MCPlainDma | on a shared vector `WholeSegments` fails (finding 1) |
| `chain_builders` | MCGpdmaChain | `StreamsTheFrame`: the channel on either chain streams block by block what the plain backend streams of the segments that have repetitions, round after round; `OneInterruptPerFrame`, after the last of these segments; `RefusesOnlyUnreachable` |
| `gpdma_linear` | MCGpdma | two waits, late interrupts, cancellations, repeated `init()`: `ChannelReadsDriverBuffer`, `ItemsFollowBuffer`, `StaleReadIsAwaited`, `ExclusiveReturn`, `NoLostWakeup`, `NothingLeaks` |
| `gpdma_2d` | MCGpdma | repeated blocks, two waits, repeated `init()`: `IndInv` (the invariant of the proofs); `ImplementsHandover` (drained); `SwapReturns`, though interrupts coalesce; `HandedOverIsShown`, even if the swap is cancelled |
| `gpdma_wait0` | MCGpdma | without waiting: `ImplementsHandover` (not drained) |
| `gpdma_tearing` | MCGpdma | `WholeFrames` fails (finding 2) |
| `gpdma_patching` | MCGpdma | `PatchedUndisturbed` fails (finding 3) |
| `setup` | MCSetup | `AcceptsDrivable`, `ErrorAtFirstFault`, `WiringOrder`, `BlankNeverLow` |
| `pixel_clock` | PixelClock | `ClockFromStart`, both levels in a period for every reload value but 0 and 1, and for these never; `ClockedInOrder`, the panel clocks in every word in order and only the last of a transfer more than once, however late the handler comes; `ScanGoesOn`, the transfers go on unless the reload value is 0, and their words arrive unless it is 0 or 1 |
| `display` | MCDisplayTask | `DrawsUnread`, the task draws only what is not read; `RateIsFrames`, the displayed rate is the number of frames although `frame_count` wraps; `RenderWithinRefresh`, no more pictures than frames; `RateIsRenewed` |

`plain_safety` lets the handler run at any time (`SharedVector = TRUE`); the
behaviours of a vector of one's own are among these.

**Why two waits.** `Arm` does not clear an interrupt that is already pending, so
the first of the two counted interrupts may be one that was raised before the
descriptors were patched. The second is then raised at the end of a frame
that began after the patching, when every descriptor has been read anew.
`StaleReadIsAwaited` is this argument as an invariant: while the channel is still at
a descriptor of the displaced framebuffer, at least one wait is left, and one more
if an interrupt is pending. It gives the drained handover of `gpdma_2d`. With one
wait the same stale interrupt ends the wait, and the channel may still stream
the descriptor it holds. `lib.rs:111-115` announces a remainder of up to one
descriptor for `unsafe-swap-wait-1` and of a frame for `unsafe-swap-wait-0`; `gpdma_wait0` shows
that the bound of the one descriptor already *loaded* holds for both, because every
descriptor in memory has been patched before `swap()` waits at all. The run
without waits covers one wait too: a return may be delayed for ever in it.

**A second `init()` with GPDMA.** What holds across it is stated by the
invariants of `gpdma_linear`: while the table is rebuilt the channel reads old and new
descriptors, all of them the driver's. Two things are left over from the first
scan, unlike in the plain backend: `frame_count` goes on (the plain `init_state` sets it
to 0; `gpdma.rs:451` says "since `init()`"), and so do `swap_waits` and an interrupt that is
pending. The latter do no harm, because `Arm` overwrites the one and two waits
outlast the other.

**Findings.**

1. `dma.rs:457`: the handler does not ask whether *its* channel has finished.
   `dma.rs:145-147` requires the call to come from the transfer-complete
   interrupt; on a vector that several channels share, another channel's
   interrupt cuts the running segment short. Ownership stays safe
   (`plain_safety`); the picture does not.
2. `gpdma.rs:490`: with GPDMA, `swap()` takes effect in the middle of a frame, while
   `lib.rs:18-19` promises atomic exchange at frame boundaries for every backend.
3. `gpdma.rs:490`: the descriptors are patched outside any critical section, against
   `gpdma.rs:21-22`. The handler does not touch descriptors, so what is lost is
   only the statement.

### Bounds

* *Memory*: 20 addresses (`Half = 10`), framebuffers at 4, 8, 12 and 16. The last two
  are negative as `isize`, so that some deltas overflow the signed word, and
  some pointers wrap when they are shifted. The proofs have no such bound.
* *Framebuffers*: four in the safety runs. A cancelled swap leaves one with the
  driver for good, so four allow one to be shown, one queued by a cancelled swap, one queued by its
  successor and one with the application. With GPDMA four in `gpdma_linear` and three
  in `gpdma_2d` and `gpdma_wait0`, which with repeated `init()` are a shown one, one being
  patched or built in, and one left behind. Two in the findings and, as in the code,
  in `display`.
* *Segments*: two, streamed once and twice; three slots, so that one stays empty.
  This has a segment that repeats, one that does not, a step inside a segment, a
  step between segments and a frame boundary. The linear chain has three
  descriptors, the 2D chain two.
* *Chains*: all sequences of up to three segments with two lengths and 0 to 3
  repetitions, `MaxReps = 2` and `MaxDescriptors = 6` so that both limits are
  crossed; item sizes 3 and 4 in regions of 32 bytes, the table at eight
  places, some with the last byte of the table being the last of the region.
  Segments of zero repetitions are among them, first, last and in the middle:
  the plain backend streams them once, the linear builder leaves them out, the
  2D builder panics. Every layout has one segment with a repetition.
* *Setup*: groups of three and four pins, all lists of distinct pins on two
  ports. A group of three has a first, a middle and a last pin.
* *PixelClock*: transfers of three words (a first, a middle and a last one), a
  counter of sixteen values, reload values 0 to 7, 10 and 15. From 2 on, that is for
  a pixel clock of at most a third of the timer's, the compare value is inside
  the period; for 0 and 1 it is 0, and nothing in `setup.rs` keeps `Config::frequency`
  from leading there. 15 is the largest of the width, where the product by three
  no longer fits it. The run checks no deadlock: with the reload value 0 the counter
  is blocked and everything stands still. That nothing else does is `ScanGoesOn`.
* *DisplayTask*: `FpsInterval` 1, `ElapsedCap` 2, `RenderCap` 2, `FrameCountSpan` 3, so that
  an interval may see fewer frames than the counter's span, as many, or more;
  `RateIsFrames` speaks of those with fewer. `CounterLimit` 1 for 99999.
* `FrameCountSpan` is 1 to 3 in the runs of the backends: nothing in the driver
  reads the counter.

### Fairness

Weak everywhere. In `FairSpec` of PlainDma and Gpdma the executor polls a task
whose waker has been woken and runs the poll to its next suspension (`SwapQueue`,
`PollLoad`, `PollLock`, `Poll`, `SwapReturn`, in Gpdma also `SwapStart`, `ApplyItemDelta`, `Arm`):
embassy's executor guarantees it as long as other tasks yield. In Gpdma an `init()`
that has been called runs to its end (`BuildItem`, `New`), so that the liveness there
holds with repeated `init()`. The channel finishes what it streams, since the timer
paces it and is never stopped outside the handler (`TransferComplete`, `RepeatBlock`,
`EndItem`, `LoadItem`; that timer, channel and handler keep each other going is `ScanGoesOn`).
A pending interrupt is served (`DmaInterrupt`, `OnInterrupt`). There is none on PlainDma's `New`,
on `CallInit`, `Swap`, `DropHandle`, `SpuriousWake` or `Cancel`: the application need not do anything.
A swap that is cancelled ends in `idle` too; `SwapReturns` says that the task
is never stuck, and the cancellation, having no fairness, cannot be what
gets it there.

`AppSpec` of DisplayTask has fairness on each step of the display task, which is an
endless loop on an executor that polls it, on `Tick` (time passes), and on the channel
and the handler; none on `MainLoop`, since a `swap()` that finishes in its first poll
does not yield to it. `Spec` of PixelClock has fairness on `Hardware`, `Start`, the timer, the
channel, and on serving a pending interrupt: it may come arbitrarily late, but comes.

No run needs fairness for safety; the two GPDMA findings use
`FairSpec` so that their counterexamples are runs of a live system.

## 5. What is proved

Every invariant and every action property that a run checks, and both
refinements, for every value of the constants. Each theorem comes from an
inductive invariant (`IndInv` of its module, with its parts named) and one lemma
per action. TLC has checked each of these invariants on the instances of section 4;
those of PlainDma and Gpdma are properties of `plain_safety` and `gpdma_2d`.

The theorems rest on the named assumptions of the modules, which TLC evaluates in
the runs, and on nothing else. Two have a hypothesis of their own: those
about a drained framebuffer ask for two waits, and `SegmentsAreWhole` for a
vector of one's own and a single `init()`. Without them the statements are false.

### The pointer arithmetic and the plain backend

For every number of framebuffers and segments, every address width and
placement, every layout and repetition count, exclusive and shared vectors, with
and without repeated `init()`.

* `DeltaReaches`: shifting the pointer to segment `i` of one framebuffer by the
  delta to another one gives segment `i` of that one, also when the subtraction
  of the two pointers has overflowed and when the shifted pointer wraps. The
  reduction functions correct at most once; the proof shows that this is enough.
* `Invariance`, and from it `TypeCorrect`, `ScanIsExclusive`, `SwapHasHappened`,
  `WakeupIsKept`, `ReturnIsExclusive`: `TypeOK`, `DmaReadsDriverBuffer`, `ReturnAfterSwitch`,
  `NoLostWakeup`, `ExclusiveReturn`.
* `NoneIsLost`: `NothingLeaks`, from `IndInv` and `OwnersInv`.
* `SegmentsAreWhole`: `WholeSegments` (without `~SharedVector` it is false, see finding 1).
* `Refines`: the plain backend implements `DoubleBuffer`. Its frames are counted in
  transfers: on a shared vector a transfer may have been cut short (finding 1).

*The argument.* That the DMA reads the driver's memory does not follow from
itself: it depends on the cache from which the next transfer starts, the
cache on the delta that is applied to it, the delta on the pointer it was
computed from a frame earlier, and the ownership of the result on how far
`swap()` has come. `IndInv` says what these know of each other:

* `StartInv`: nothing runs before `init()`, and a swap in progress has a framebuffer
  that the application does not own;
* `CacheInv`: the cache holds exactly the segments of *one* framebuffer, the current
  one, which is the driver's, and the position is one of a frame;
* `ChannelInv`: a running transfer is the segment that the cache names;
* `PendingInv`: a queued framebuffer is the driver's and not the current one, and
  the pending delta is still the distance between the two, i.e. whatever
  changes the current pointer also takes the delta away;
* `SwapInv`: the framebuffer of a swap is queued until the takeover and current
  after it, and then the returned one is another one and the driver's. This
  is what a stale `swap_done`, or a cancelled predecessor, would break;
* `NoLostWakeup`.

`TakeOver` and `SwapQueue` are the actions where `DeltaReaches` and
`DisjointAssumption` come in. For `NothingLeaks`, `OwnersInv` adds what is true only while
nothing has been cancelled or dropped: a pending delta belongs to the swap in
progress, so that the takeover displaces a framebuffer that somebody waits for.

For the refinement, each action is mapped to an action of `DoubleBuffer` or to a
stutter: `New` to `Start`, `Swap` to `Give`, `SwapQueue` to `Queue`, `SwapReturn` to `Return`,
`Cancel` to `Abandon` if the takeover has happened and to a stutter otherwise, the
handler to `TakeOver`, `FeedSameFrame` or `FeedNext`. The abstract frame ends where
`shown.rep + 1 = Reps[shown.seg]`, the code compares with `>=`: that the two agree
is the last conjunct of `CacheInv`.

### The descriptor chains

For every sequence of segments (of whole words, one of them with a repetition, others
possibly without), both word sizes, every item size, region and place of the table,
and all limits. Where every segment has repetitions, the two theorems about streaming
say that the frames and their ends are the same; where one has none, they compare the
channel with the plain backend before and after the extra block of that segment.

* `ChainStreamsTheFrame`, `ChainInterruptsPerFrame`, `PanicsWhereUnreachable`:
  `StreamsTheFrame`, `OneInterruptPerFrame`, `RefusesOnlyUnreachable`.

*The argument.* `IndInv` of GpdmaWalk computes the channel's place from the place of
the plain backend's walk: in the 2D chain the item is the segment and the repeat
count the repetition, in the linear chain the item is the one after as many as there
are blocks before this one (`Streamed`: the repetitions of all the segments before, plus
those of this one so far), or the first one if none is left. A segment without
repetitions adds nothing to that sum, which is why the channel may wait during its
extra block (`ExtraBlock`). That the walk and the links keep to this is arithmetic on
the running sums (`TotalUpTo`). What holds of
sums over sequences of every length needs induction: `SetInduction` of
`GpdmaChainProofs` gets it from the well-foundedness of `<`, for membership in a set. With
it `SumsExist` and `TotalUpToSums` show that the recursive definition has the
values that it should have, `TotalMonotone` and `TotalsAcrossUnshown` how they grow (the
latter gives the interrupt of a frame that ends with segments without repetitions), and
`ItemLocated` that each item belongs to exactly one segment. `LinkReaches` is the
arithmetic of regions: where the first and the last byte of the table are in one
region, the offset in a link and the region of the table make up the address.

### The GPDMA backends

For every number of framebuffers and segments, placement, layout and table, linear
and 2D, with zero, one or two waits, with and without repeated `init()`.

* `GpdmaInvariance`, and from it `GpdmaTypeCorrect`, `ChainFollowsSwaps`,
  `GpdmaWakeupIsKept`, `GpdmaReturnIsExclusive`: `TypeOK`, `ItemsFollowBuffer`, `NoLostWakeup`,
  `ExclusiveReturn`.
* `TwoWaitsDrain`, `GpdmaScanIsExclusive`, for two waits: `StaleReadIsAwaited`,
  `ChannelReadsDriverBuffer`.
* `GpdmaNoneIsLost`: `NothingLeaks`, again with an `OwnersInv`.
* `GpdmaRefines`: the backends implement `Handover`, drained if there are two waits.

*The argument.* The table is written one store at a time by `swap()` or `init()` and
read one descriptor at a time by the channel. `IndInv`:

* `StartInv`, `SwapInv`: as in the plain backend, with the displaced framebuffer in `old_ptr`;
* `TableInv`: the table has the length of a chain, and before the first `init()` has
  finished it is a prefix of one followed by zeroed descriptors;
* `ItemsFollowBuffer`: afterwards it is a prefix of one framebuffer's chain, as far as
  the call has come, and the rest of the displaced one's, both the driver's;
* `ChannelInv`: the descriptor in the channel was read from some whole chain, which
  with two waits is still the driver's, and the next one is at an address of the table;
* `WaitInv`: the wait is over exactly when the count has run out;
* `NoLostWakeup`, and with two waits `StaleReadIsAwaited` (section 4).

All chains have the same shape, because the framebuffers have the same layout: the
proof speaks of item `k` of framebuffer `b` (`ItemFor(b, k)`), whichever builder has made it.
`LinksLead` says that its link leads to the next item, `ItemRetargeted` that a store of
`apply_item_delta` makes `ItemFor(c, k)` of `ItemFor(b, k)` - by `DeltaReaches` - and
`BlocksStartAtSegment` that every repetition of its block starts at its segment. The
heart is the end of the last item: it alone raises the interrupt, and the item
loaded next is the first one of a table that has been patched by then.

For the refinement, `CallInit` and `Swap` are `Give`; `BuildItem` and
`ApplyItemDelta` are `Link`, until the store that makes the last descriptor follow:
`Relinked`. `LoadItem` and `EndItem` are `Stream`, and so is a `New` that starts the
channel again; `SwapReturn` is `Return`, because nothing in memory leads to the
displaced framebuffer and, with two waits, `StaleReadIsAwaited` says that the channel
does not read it either. Every other step leaves all that `Handover` speaks of alone.

### The applications

For both framebuffers and every interval, cap and span of the counter:
`AppUsesDriver` (every behaviour of `DisplayTask` is one of `PlainDma`, so that what is proved of
the backend holds in the applications), `AppTypeCorrect`, `DrawingIsUnread`,
`RendersAreShown`, `RateIsCounted`. The invariant `AppInv` stands beside the driver's: `TaskInv`
says from the place of the task who has the framebuffers, `FramesInv` that
`frame_count` is the last reading plus the frames since, with the wrap, and `RenderInv` that
the frame boundary of a swap is counted in `frames` before the swap is in
`render_count`.

### The pixel clock

For every transfer length, counter width and reload value:
`PixelClockTypeCorrect`, `ClockIsComplete`, `WordsInOrder`. `ClockIsComplete` is an equivalence: the
clock toggles exactly where the reload value is neither 0 nor 1. `TimerInv` has the
compare value inside the period and says where it is 0, `ChannelInv` that the channel's place follows from the word on the port and
that the interrupt is pending exactly when the channel is idle, `PanelInv` that a word
that the panel has not seen is the following one, and that no other is asked for
before the edge that clocks it in; where the compare value is 0, the panel has seen
nothing.

### The setup

For every number of ports and both sizes of group: `SetupTypeCorrect`,
`SetupAcceptsDrivable`, `SetupNamesFirstFault`, `BlankStaysHigh`, `WordsReachTheirPins`.
`OrderInv` says that only a group whose pin `k` is bit `k` of the word at the
chosen address is configured; `ConfigureInv` and `BlankInv` follow the loop over the pins. That
the first faulty pin exists uses the well-foundedness of `<` (`SmallestIsFound`).

## 6. Only model-checked

* Liveness (`SwapReturns`, `QueuedIsTaken`, `HandedOverIsShown`, `ScanGoesOn`, `RateIsRenewed`): liveness
  under fairness is out of the prover's reach.
* The statements that do not hold (section 4, findings) have counterexamples, no proofs.

## 7. Not modelled

* What `linked_list` does to a channel that is already running, at a second `init()`
  with GPDMA, is embassy-stm32's and the hardware's: `StartChannel` allows that it is
  started anew or goes on, and that a pending interrupt is cleared or kept.
* A segment with no repetitions at run time: the plain backend streams it once,
  the linear one skips it, the 2D one panics. GpdmaWalk has this as it is; the
  models of the backends assume at least one repetition, since hub75-framebuffer
  makes no segment without. A linear chain without any item, which is started all
  the same, is in no model.
* The feature `invert-oe` does not reach `Setup`: the output register is set high for the
  pin BLANK with or without it. `BlankNeverLow` is about that level, and on a panel whose
  output enable is inverted the level does not blank.
* PixelClock is the plain backend with a vector of its own and a single `init()`; with
  GPDMA the timer is started once and never stopped. Timer registers that the driver
  does not write are left at their reset values.
* `Config`, `Hub75Error`'s formatting, the feature checks (compile errors) and
  `build.rs`; the typed wrappers and bindings of the macros, which are compile-time only.
* In `examples/`: what is drawn, the boards' clock trees, and the builds for GPDMA
  boards, whose display task is the same on another backend.
* `segments_per_group`, which is stored and never read.
* Overflow checks: in a debug build, `swap_inner` panics where the subtraction
  overflows; the models follow the release profile.

## 8. Plan

Done: Framebuffers, Bcm, PlainDma with its abstract specification and their
proofs; the GPDMA backends with repeated `init()`, their chains and their abstract
specification Handover; Setup and PixelClock; the example applications. What is not
modelled (section 7) is compile-time, external or has no state to speak of.

Proved: every safety property that a run checks, and both refinements. What remains
with TLC is liveness.
