--------------------------- MODULE DisplayTaskProofs ---------------------------
(***************************************************************************)
(* The example applications on top of the plain DMA backend, for every     *)
(* memory, interval and counter width: they use the driver as it is meant  *)
(* to be used, and what they count of it is right.                         *)
(***************************************************************************)
EXTENDS DisplayTask, PlainDmaProofs

LEMMA MinOfTwo ==
  ASSUME NEW a \in Int, NEW b \in Int
  PROVE  Min({a, b}) = IF a <= b THEN a ELSE b
<1>1. \E m \in {a, b} : \A x \in {a, b} : m <= x
  OBVIOUS
<1> QED
  BY <1>1 DEF Min

LEMMA MaxOfTwo ==
  ASSUME NEW a \in Int, NEW b \in Int
  PROVE  Max({a, b}) = IF a >= b THEN a ELSE b
<1>1. \E m \in {a, b} : \A x \in {a, b} : m >= x
  OBVIOUS
<1> QED
  BY <1>1 DEF Max

\* A quotient of naturals is no larger than what is divided.
LEMMA QuotientBound ==
  ASSUME NEW n \in Nat, NEW x \in 0 .. n, NEW d \in Nat \ {0}
  PROVE  x \div d \in 0 .. n
OBVIOUS

\* Counting modulo the span, one step and a difference.
LEMMA ModSpan ==
  ASSUME NEW n \in Nat \ {0}, NEW x \in -n .. n
  PROVE  x % n = IF x < 0 THEN x + n ELSE IF x = n THEN 0 ELSE x
OBVIOUS

-------------------------------------------------------------------------------
LEMMA AppInitInv == AppInit => AppInv
<1> SUFFICES ASSUME AppInit PROVE AppInv
  OBVIOUS
<1>1. /\ 0 \in 0 .. RenderCap /\ 0 \in 0 .. FrameCountSpan - 1 /\ 0 \in 0 .. ElapsedCap
      /\ 0 \in 0 .. CounterLimit /\ 0 \in 0 .. FrameCountSpan
  BY DisplayAssumption, PlainDmaAssumption
<1>2. AppTypeOK
  BY <1>1 DEF AppInit, AppTypeOK
<1>3. TaskInv /\ FramesInv /\ RenderInv
  BY DEF AppInit, Init, TaskInv, FramesInv, RenderInv, TakenOver
<1> QED
  BY <1>2, <1>3 DEF AppInv

\* The applications do nothing with the driver that PlainDma does not expect
\* of them: what the task gives to swap() is a framebuffer that it owns.
LEMMA DriverStep == IndInv /\ AppInv /\ [AppNext]_appVars => [Next]_vars
<1> SUFFICES ASSUME IndInv, AppInv, [AppNext]_appVars PROVE [Next]_vars
  OBVIOUS
<1>1. CASE Main
  BY <1>1, DisplayAssumption DEF Main, Next
<1>2. CASE Draw
  <2>1. fb \in Buffers
    BY <1>2 DEF Draw, AppInv, TaskInv, IndInv, TypeOK
  <2> QED
    BY <1>2, <2>1 DEF Draw, Next
<1>3. CASE AwaitSwap \/ TakeBack \/ Stream \/ Interrupt
  BY <1>3 DEF AwaitSwap, TakeBack, Stream, Interrupt, Next
<1>4. CASE \/ StartTask \/ CountRender \/ Measure \/ Restart \/ MainLoop \/ Tick
           \/ UNCHANGED appVars
  BY <1>4 DEF StartTask, CountRender, Measure, Restart, MainLoop, Tick, appVars
<1> QED
  BY <1>1, <1>2, <1>3, <1>4 DEF AppNext

LEMMA AppTypeNext == IndInv /\ AppInv /\ [AppNext]_appVars => AppTypeOK'
<1> SUFFICES ASSUME IndInv, AppInv, [AppNext]_appVars PROVE AppTypeOK'
  OBVIOUS
<1>0. /\ AppTypeOK /\ TypeOK
      /\ FrameCountSpan \in Nat \ {0} /\ RenderCap \in Nat \ {0} /\ ElapsedCap \in Nat
      /\ CounterLimit \in Nat /\ FB1 \in Buffers
      /\ frame_count \in 0 .. FrameCountSpan - 1
      /\ render_count \in 0 .. RenderCap
  BY DisplayAssumption, PlainDmaAssumption DEF AppInv, IndInv, TypeOK, AppTypeOK
<1>1. CASE Main
  BY <1>0, <1>1 DEF Main, AppTypeOK, rateVars, renderVars
<1>2. CASE StartTask
  BY <1>0, <1>2 DEF StartTask, AppTypeOK, renderVars
<1>3. CASE Draw
  BY <1>0, <1>3 DEF Draw, AppTypeOK, rateVars, renderVars
<1>4. CASE AwaitSwap \/ Stream
  BY <1>0, <1>4 DEF AwaitSwap, Stream, AppTypeOK, rateVars, renderVars
<1>5. CASE TakeBack
  <2>1. fb' \in Buffers \cup {None}
    BY <1>5 DEF TakeBack, TheBuffer, Returned, BuffersAt
  <2> QED
    BY <1>0, <1>5, <2>1 DEF TakeBack, AppTypeOK, rateVars, renderVars
<1>6. CASE CountRender
  <2>1. render_count' \in 0 .. RenderCap
    BY <1>0, <1>6, MinOfTwo DEF CountRender
  <2>2. Max({render_count', 1}) \in Nat \ {0}
    BY <1>0, <2>1, MaxOfTwo
  <2>3. RENDER_MS' \in 0 .. ElapsedCap
    BY <1>0, <1>6, <2>2, QuotientBound DEF CountRender, AppTypeOK
  <2> QED
    BY <1>0, <1>6, <2>1, <2>3 DEF CountRender, AppTypeOK, rateVars
<1>7. CASE Measure
  <2>1. /\ frame_count - refresh_count_start \in -FrameCountSpan .. FrameCountSpan
        /\ frame_count - refresh_count_start < FrameCountSpan
    BY <1>0 DEF AppTypeOK
  <2>2. refresh_rate' \in 0 .. FrameCountSpan - 1
    BY <1>0, <1>7, <2>1, ModSpan DEF Measure, FramesBetween
  <2> QED
    BY <1>0, <1>7, <2>2 DEF Measure, AppTypeOK
<1>8. CASE Restart \/ Tick
  BY <1>0, <1>8 DEF Restart, Tick, AppTypeOK, rateVars, renderVars
<1>9. CASE MainLoop
  BY <1>0, <1>9 DEF MainLoop, CounterRestarts, AppTypeOK, rateVars, renderVars
<1>10. CASE Interrupt
  <2>1. frames' \in 0 .. FrameCountSpan
    BY <1>0, <1>10, MinOfTwo DEF Interrupt, AppTypeOK
  <2> QED
    BY <1>0, <1>10, <2>1 DEF Interrupt, AppTypeOK, renderVars
<1>11. CASE UNCHANGED appVars
  BY <1>0, <1>11 DEF appVars, AppTypeOK, rateVars, renderVars
<1> QED
  BY <1>1, <1>2, <1>3, <1>4, <1>5, <1>6, <1>7, <1>8, <1>9, <1>10, <1>11 DEF AppNext

-------------------------------------------------------------------------------
\* What swap() returns is one framebuffer.
LEMMA TakenBack ==
  ASSUME IndInv, SwapReturn
  PROVE  \E b \in Buffers : TheBuffer(Returned) = b /\ app' = app \cup {b}
<1>1. PICK r \in Buffers \ app : returned_fb_ptr = Base[r]
  BY DEF SwapReturn, IndInv, SwapInv, Waiting
<1>2. Returned = {r} /\ app' = app \cup {r}
  BY <1>1, BuffersAtBase DEF SwapReturn, Returned
<1> QED
  BY <1>2 DEF TheBuffer

LEMMA TaskNext == IndInv /\ AppInv /\ [AppNext]_appVars => TaskInv'
<1> SUFFICES ASSUME IndInv, AppInv, [AppNext]_appVars PROVE TaskInv'
  OBVIOUS
<1>0. TaskInv /\ AppTypeOK
  BY DEF AppInv
<1>1. CASE Main
  <2>1. /\ FB1 \in app' /\ initialised' /\ pc' = "idle" /\ ~leaked' /\ fb' = FB1
        /\ task' = "spawned"
    BY <1>0, <1>1, DisplayAssumption DEF Main, New, TaskInv
  <2> QED
    BY <2>1 DEF TaskInv
<1>2. CASE StartTask
  BY <1>0, <1>2 DEF StartTask, TaskInv, vars, coreVars, taskVars
<1>3. CASE Draw
  BY <1>0, <1>3 DEF Draw, Swap, TaskInv, coreVars
<1>4. CASE AwaitSwap
  BY <1>0, <1>4 DEF AwaitSwap, SwapQueue, PollLoad, PollLock, Poll, TaskInv, coreVars
<1>5. CASE TakeBack
  <2>1. fb' \in app'
    BY <1>5, TakenBack DEF TakeBack
  <2>2. task = "swap" /\ initialised' /\ pc' = "idle" /\ ~leaked' /\ task' = "count"
    BY <1>0, <1>5 DEF TakeBack, SwapReturn, TaskInv, coreVars
  <2> QED
    BY <2>1, <2>2 DEF TaskInv
<1>6. CASE CountRender \/ Measure \/ Restart
  BY <1>0, <1>6 DEF CountRender, Measure, Restart, TaskInv, vars, coreVars, taskVars
<1>7. CASE MainLoop \/ Tick \/ UNCHANGED appVars
  BY <1>0, <1>7 DEF MainLoop, Tick, TaskInv, appVars, vars, coreVars, taskVars
<1>8. CASE Stream
  BY <1>0, <1>8 DEF Stream, TransferComplete, TaskInv, coreVars, taskVars
<1>9. CASE Interrupt
  BY <1>0, <1>9 DEF Interrupt, DmaInterrupt, TaskInv
<1> QED
  BY <1>1, <1>2, <1>3, <1>4, <1>5, <1>6, <1>7, <1>8, <1>9 DEF AppNext

\* An interrupt counts a frame boundary in frame_count and in frames alike.
LEMMA InterruptCounts ==
  ASSUME IndInv, AppTypeOK, Interrupt
  PROVE  /\ frame_count' = IF ~FrameBoundary THEN frame_count
                           ELSE IF frame_count + 1 = FrameCountSpan THEN 0 ELSE frame_count + 1
         /\ frames' = IF FrameBoundary /\ frames < FrameCountSpan THEN frames + 1 ELSE frames
         /\ FrameCountSpan \in Nat \ {0}
         /\ frame_count \in 0 .. FrameCountSpan - 1
         /\ frames \in 0 .. FrameCountSpan
<1>1. /\ FrameCountSpan \in Nat \ {0}
      /\ frame_count \in 0 .. FrameCountSpan - 1
      /\ frames \in 0 .. FrameCountSpan
  BY PlainDmaAssumption DEF IndInv, TypeOK, AppTypeOK
<1>2. (frame_count + 1) % FrameCountSpan
        = IF frame_count + 1 = FrameCountSpan THEN 0 ELSE frame_count + 1
  <2>1. frame_count + 1 \in -FrameCountSpan .. FrameCountSpan /\ ~(frame_count + 1 < 0)
    BY <1>1
  <2> QED
    BY <1>1, <2>1, ModSpan
<1>3. Min({frames + 1, FrameCountSpan}) = IF frames < FrameCountSpan THEN frames + 1 ELSE frames
  BY <1>1, MinOfTwo
<1> QED
  BY <1>1, <1>2, <1>3 DEF Interrupt, DmaInterrupt

LEMMA FramesNext == IndInv /\ AppInv /\ [AppNext]_appVars => FramesInv'
<1> SUFFICES ASSUME IndInv, AppInv, [AppNext]_appVars PROVE FramesInv'
  OBVIOUS
<1>0. /\ FramesInv /\ TaskInv /\ AppTypeOK
      /\ FrameCountSpan \in Nat \ {0}
      /\ frame_count \in 0 .. FrameCountSpan - 1
      /\ refresh_count_start \in 0 .. FrameCountSpan - 1
  BY PlainDmaAssumption DEF AppInv, IndInv, TypeOK, AppTypeOK
<1>1. CASE Main
  BY <1>1 DEF Main, FramesInv
<1>2. CASE StartTask \/ Measure
  BY <1>0, <1>2 DEF StartTask, Measure, FramesInv, vars, swapVars
<1>3. CASE \/ Draw \/ AwaitSwap \/ TakeBack \/ CountRender \/ Restart \/ MainLoop \/ Tick
           \/ Stream \/ UNCHANGED appVars
  <2>1. /\ UNCHANGED <<frame_count, refresh_count_start, frames>>
        /\ task' \notin {"main", "spawned"} => task \notin {"main", "spawned"}
    BY <1>0, <1>3 DEF Draw, AwaitSwap, TakeBack, CountRender, Restart, MainLoop, Tick, Stream,
      appVars, vars, swapVars, rateVars, Swap, SwapQueue, PollLoad, PollLock, Poll, SwapReturn,
      TransferComplete, TaskInv
  <2> QED
    BY <1>0, <2>1 DEF FramesInv
<1>4. CASE Interrupt
  <2>1. UNCHANGED <<task, refresh_count_start>>
    BY <1>4 DEF Interrupt
  <2> QED
    BY <1>0, <1>4, <2>1, InterruptCounts DEF FramesInv
<1> QED
  BY <1>1, <1>2, <1>3, <1>4 DEF AppNext

-------------------------------------------------------------------------------
\* A picture counts only after the frame boundary that brought it up.
LEMMA RenderNext == IndInv /\ AppInv /\ [AppNext]_appVars => RenderInv'
<1> SUFFICES ASSUME IndInv, AppInv, [AppNext]_appVars PROVE RenderInv'
  OBVIOUS
<1>0. /\ RenderInv /\ TaskInv /\ AppTypeOK
      /\ RenderCap \in 1 .. FrameCountSpan /\ FrameCountSpan \in Nat
      /\ render_count \in 0 .. RenderCap /\ frames \in 0 .. FrameCountSpan
  BY DisplayAssumption, PlainDmaAssumption DEF AppInv, AppTypeOK
<1>1. CASE Main
  BY <1>0, <1>1 DEF Main, RenderInv, TakenOver, rateVars, renderVars
<1>2. CASE StartTask
  BY <1>0, <1>2 DEF StartTask, RenderInv, TakenOver, renderVars
<1>3. CASE Draw
  BY <1>0, <1>3 DEF Draw, Swap, RenderInv, TakenOver, Waiting, rateVars, renderVars
<1>4. CASE AwaitSwap
  <2>1. task = "swap" /\ task' = task /\ UNCHANGED <<render_count, frames>>
    BY <1>0, <1>4 DEF AwaitSwap, SwapQueue, PollLoad, PollLock, Poll, TaskInv, rateVars, renderVars
  <2>2. CASE SwapQueue
    BY <1>0, <2>1, <2>2 DEF SwapQueue, RenderInv, TakenOver, Waiting
  <2>3. CASE PollLoad \/ PollLock \/ Poll
    <3>1. swap_done' = swap_done /\ pc \in Waiting /\ pc' \in Waiting
      BY <2>3 DEF PollLoad, PollLock, Poll, swapVars, Waiting
    <3> QED
      BY <1>0, <2>1, <3>1 DEF RenderInv, TakenOver
  <2> QED
    BY <1>4, <2>2, <2>3 DEF AwaitSwap
<1>5. CASE TakeBack
  <2>1. task = "swap" /\ pc \in Waiting /\ swap_done
    BY <1>0, <1>5 DEF TakeBack, SwapReturn, TaskInv, IndInv, SwapInv, Waiting
  <2> QED
    BY <1>0, <1>5, <2>1 DEF TakeBack, RenderInv, TakenOver, rateVars, renderVars
<1>6. CASE CountRender
  <2>1. render_count' = IF render_count + 1 <= RenderCap THEN render_count + 1 ELSE RenderCap
    BY <1>0, <1>6, MinOfTwo DEF CountRender
  <2>2. task = "count" /\ task' \in {"measure", "draw"} /\ frames' = frames
    BY <1>6 DEF CountRender, rateVars
  <2> QED
    BY <1>0, <2>1, <2>2 DEF RenderInv, TakenOver
<1>7. CASE Measure
  BY <1>0, <1>7 DEF Measure, RenderInv, TakenOver
<1>8. CASE Restart
  BY <1>0, <1>8 DEF Restart, RenderInv, TakenOver, rateVars, renderVars
<1>9. CASE MainLoop \/ Tick \/ UNCHANGED appVars
  BY <1>0, <1>9 DEF MainLoop, Tick, RenderInv, TakenOver, appVars, vars, swapVars, taskVars,
                    rateVars, renderVars
<1>10. CASE Stream
  BY <1>0, <1>10 DEF Stream, TransferComplete, RenderInv, TakenOver, swapVars, taskVars,
                     rateVars, renderVars
<1>11. CASE Interrupt
  <2>1. UNCHANGED <<task, pc, render_count>>
    BY <1>11 DEF Interrupt, DmaInterrupt, renderVars
  <2>2. frames' = IF FrameBoundary /\ frames < FrameCountSpan THEN frames + 1 ELSE frames
    BY <1>0, <1>11, InterruptCounts
  <2>3. FrameBoundary \/ swap_done' = swap_done
    BY <1>11 DEF Interrupt, DmaInterrupt, TakeOver, KeepShowing
  <2>4. swap_done => swap_done'
    BY <1>11 DEF Interrupt, DmaInterrupt, TakeOver, KeepShowing, SignalSwapDone
  <2> QED
    BY <1>0, <2>1, <2>2, <2>3, <2>4 DEF RenderInv, TakenOver
<1> QED
  BY <1>1, <1>2, <1>3, <1>4, <1>5, <1>6, <1>7, <1>8, <1>9, <1>10, <1>11 DEF AppNext

-------------------------------------------------------------------------------
\* The driver's invariant and the applications' hold together.
THEOREM AppInvariance == AppSpec => [](IndInv /\ AppInv)
<1>1. AppInit => IndInv /\ AppInv
  BY InitIndInv, AppInitInv DEF AppInit
<1>2. IndInv /\ AppInv /\ [AppNext]_appVars => (IndInv /\ AppInv)'
  <2> SUFFICES ASSUME IndInv, AppInv, [AppNext]_appVars PROVE IndInv' /\ AppInv'
    OBVIOUS
  <2>1. IndInv'
    BY DriverStep, NextIndInv
  <2>2. AppInv'
    BY AppTypeNext, TaskNext, FramesNext, RenderNext DEF AppInv
  <2> QED
    BY <2>1, <2>2
<1> QED
  BY <1>1, <1>2, PTL DEF AppSpec

\* The applications use the driver as PlainDma assumes it to be used: whatever
\* is proved of PlainDma holds in them.
THEOREM AppUsesDriver == AppSpec => Spec
<1>1. AppInit => Init
  BY DEF AppInit
<1> QED
  BY <1>1, DriverStep, AppInvariance, PTL DEF AppSpec, Spec

\* The counters of the applications stay within their types, and the division
\* by the number of renders is never one by zero.
THEOREM AppTypeCorrect == AppSpec => []AppTypeOK
<1>1. AppInv => AppTypeOK
  BY DEF AppInv
<1> QED
  BY <1>1, AppInvariance, PTL

\* The task never draws into what is on its way to the panel.
THEOREM DrawingIsUnread == AppSpec => []DrawsUnread
<1>1. IndInv /\ AppInv => DrawsUnread
  <2> SUFFICES ASSUME IndInv, AppInv, fb # None
               PROVE  /\ fb \in app
                      /\ \A i \in Segments : ~(dma.busy /\ dma.ptr = SegmentPtr(fb, i))
                      /\ fb \notin Current \cup Queued
    BY DEF DrawsUnread
  <2>1. fb \in app /\ app \subseteq Buffers /\ initialised
    BY DEF AppInv, TaskInv, IndInv, TypeOK
  <2>2. PICK b \in Buffers \ app :
          /\ current_fb_ptr = Base[b]
          /\ \A k \in Segments : segments[k] = BcmSegment(b, k)
    BY <2>1 DEF IndInv, CacheInv
  <2>3. current_segment \in Segments
    BY <2>1 DEF IndInv, CacheInv
  <2>4. dma.busy => dma.ptr = SegmentPtr(b, current_segment)
    <3>1. segments[current_segment] = BcmSegment(b, current_segment)
      BY <2>2, <2>3
    <3> QED
      BY <3>1 DEF IndInv, ChannelInv, BcmSegment
  <2>5. \A i \in Segments : SegmentPtr(fb, i) # SegmentPtr(b, current_segment)
    BY <2>1, <2>3, DisjointAssumption
  <2>6. Current = {b}
    BY <2>2, BuffersAtBase DEF Current
  <2>7. fb \notin Queued
    BY <2>1, BaseInjective DEF IndInv, PendingInv, Queued, BuffersAt
  <2> QED
    BY <2>1, <2>4, <2>5, <2>6, <2>7
<1> QED
  BY <1>1, AppInvariance, PTL

\* However long a swap takes and however often it is polled, each picture that
\* is counted has had a frame boundary of its own.
THEOREM RendersAreShown == AppSpec => []RenderWithinRefresh
<1>1. AppInv => RenderWithinRefresh
  <2> SUFFICES ASSUME AppInv PROVE render_count <= frames
    BY DEF RenderWithinRefresh
  <2>1. render_count \in 0 .. RenderCap /\ frames \in 0 .. FrameCountSpan /\ RenderCap \in Int
    BY DisplayAssumption DEF AppInv, AppTypeOK
  <2> QED
    BY <2>1 DEF AppInv, RenderInv
<1> QED
  BY <1>1, AppInvariance, PTL

\* The refresh rate is the number of frames of the interval, even where
\* frame_count has wrapped, as long as it has not wrapped all the way round.
THEOREM RateIsCounted == AppSpec => RateIsFrames
<1> DEFINE Rate == Measure /\ frames < FrameCountSpan => refresh_rate' = frames
<1>1. IndInv /\ AppInv => Rate
  <2> SUFFICES ASSUME IndInv, AppInv, Measure, frames < FrameCountSpan
               PROVE  refresh_rate' = frames
    OBVIOUS
  <2>1. /\ FrameCountSpan \in Nat \ {0}
        /\ frames \in 0 .. FrameCountSpan - 1
        /\ frame_count \in 0 .. FrameCountSpan - 1
        /\ refresh_count_start \in 0 .. FrameCountSpan - 1
    BY PlainDmaAssumption DEF AppInv, AppTypeOK, IndInv, TypeOK
  <2>2. LET sum == refresh_count_start + frames
        IN  frame_count = IF sum < FrameCountSpan THEN sum ELSE sum - FrameCountSpan
    BY DEF AppInv, FramesInv, Measure
  <2>3. frame_count - refresh_count_start \in {frames, frames - FrameCountSpan}
    BY <2>1, <2>2
  <2>4. (frame_count - refresh_count_start) % FrameCountSpan = frames
    BY <2>1, <2>3, ModSpan
  <2> QED
    BY <2>4 DEF Measure, FramesBetween
<1>2. (IndInv /\ AppInv) /\ [AppNext]_appVars => [Rate]_appVars
  BY <1>1
<1> QED
  BY <1>2, AppInvariance, PTL DEF AppSpec, RateIsFrames
================================================================================
