------------------------------ MODULE DisplayTask ------------------------------
(***************************************************************************)
(* The two example applications, composed with the plain DMA backend:      *)
(* main() and display_task() of src/examples/gradient/src/main.rs and      *)
(* src/examples/gradient-latched/src/main.rs, which differ only in the     *)
(* pins, the framebuffer type and the pixel clock.                         *)
(*                                                                         *)
(* The display task draws a framebuffer, awaits swap(), and once in a      *)
(* while computes the refresh rate that it draws next from two readings    *)
(* of frame_count, which the handler goes on counting meanwhile.  It       *)
(* shares an executor with main(): each runs until it awaits something.    *)
(***************************************************************************)
EXTENDS PlainDma, FiniteSetsExt

CONSTANTS
  FB0, FB1,      \* the two static framebuffers
  FpsInterval,   \* FPS_INTERVAL
  ElapsedCap,    \* bound: elapsed time is not told apart beyond this
  RenderCap,     \* bound: nor are numbers of renders beyond this
  CounterLimit   \* the value at which SIMPLE_COUNTER starts over (99999)

ASSUME DisplayAssumption ==
  /\ Buffers = {FB0, FB1} /\ FB0 # FB1
  /\ FpsInterval \in Nat
  /\ ElapsedCap \in Nat /\ ElapsedCap > FpsInterval
  /\ RenderCap \in 1 .. FrameCountSpan
  /\ CounterLimit \in Nat

VARIABLES
  task,                 \* where main() and then display_task stand
  fb,                   \* the framebuffer in the hands of display_task
  render_count,         \* its locals
  refresh_count_start,
  refresh_rate,
  elapsed,              \* the time since `start`
  RENDER_MS,            \* the statics
  SIMPLE_COUNTER,
  frames                \* history: frames since the reading in refresh_count_start

rateVars == <<refresh_count_start, refresh_rate, frames>>
renderVars == <<render_count, RENDER_MS>>
appVars == <<vars, task, fb, rateVars, renderVars, elapsed, SIMPLE_COUNTER>>

AppTypeOK ==
  /\ task \in {"main", "spawned", "draw", "swap", "count", "measure", "restart"}
  /\ fb \in Buffers \cup {None}
  /\ render_count \in 0 .. RenderCap
  /\ {refresh_count_start, refresh_rate} \subseteq 0 .. FrameCountSpan - 1
  /\ {elapsed, RENDER_MS} \subseteq 0 .. ElapsedCap
  /\ SIMPLE_COUNTER \in 0 .. CounterLimit
  /\ frames \in 0 .. FrameCountSpan

-------------------------------------------------------------------------------
\* main(): the pins, the framebuffers, init() and the spawning of the task.
Main ==
  /\ task = "main"
  /\ New(FB0)
  /\ fb' = FB1
  /\ task' = "spawned"
  /\ UNCHANGED <<rateVars, renderVars, elapsed, SIMPLE_COUNTER>>

\* display_task up to its loop
StartTask ==
  /\ task = "spawned"
  /\ refresh_count_start' = frame_count
  /\ frames' = 0
  /\ elapsed' = 0
  /\ task' = "draw"
  /\ UNCHANGED <<vars, fb, refresh_rate, renderVars, SIMPLE_COUNTER>>

\* The picture is complete, with the overlays of the moment, and given away.
Draw ==
  /\ task = "draw"
  /\ Swap(fb)
  /\ fb' = None
  /\ task' = "swap"
  /\ UNCHANGED <<rateVars, renderVars, elapsed, SIMPLE_COUNTER>>

\* hub75.swap(fb).await, until it returns.  The task awaits nothing else that
\* could wake it, and nobody drops its future.
AwaitSwap ==
  /\ SwapQueue \/ PollLoad \/ PollLock \/ Poll
  /\ UNCHANGED <<task, fb, rateVars, renderVars, elapsed, SIMPLE_COUNTER>>

\* fb = what swap() returns
TakeBack ==
  /\ SwapReturn
  /\ fb' = TheBuffer(Returned)
  /\ task' = "count"
  /\ UNCHANGED <<rateVars, renderVars, elapsed, SIMPLE_COUNTER>>

\* Faulty variant: the interval starts over with every picture.
CountRenderAfresh ==
  /\ task = "count"
  /\ render_count' = Min({render_count + 1, RenderCap})
  /\ task' = IF elapsed > FpsInterval THEN "measure" ELSE "draw"
  /\ elapsed' = IF elapsed > FpsInterval THEN elapsed ELSE 0
  /\ RENDER_MS' = IF elapsed > FpsInterval THEN elapsed \div Max({render_count', 1})
                  ELSE RENDER_MS
  /\ UNCHANGED <<vars, fb, rateVars, SIMPLE_COUNTER>>

\* The render is counted and, once the interval is over, averaged.
CountRender ==
  /\ task = "count"
  /\ render_count' = Min({render_count + 1, RenderCap})
  /\ task' = IF elapsed > FpsInterval THEN "measure" ELSE "draw"
  /\ RENDER_MS' = IF elapsed > FpsInterval THEN elapsed \div Max({render_count', 1})
                  ELSE RENDER_MS
  /\ UNCHANGED <<vars, fb, rateVars, elapsed, SIMPLE_COUNTER>>

\* Faulty variant: a difference that saturates at zero.
FramesBetweenSaturating(current, start) == IF current >= start THEN current - start ELSE 0

\* current_frame_count.wrapping_sub(refresh_count_start)
FramesBetween(current, start) == (current - start) % FrameCountSpan

\* The refresh rate of the interval, from one reading of frame_count.
Measure ==
  /\ task = "measure"
  /\ refresh_rate' = FramesBetween(frame_count, refresh_count_start)
  /\ refresh_count_start' = frame_count
  /\ render_count' = 0
  /\ frames' = 0
  /\ task' = "restart"
  /\ UNCHANGED <<vars, fb, RENDER_MS, elapsed, SIMPLE_COUNTER>>

\* start = Instant::now()
Restart ==
  /\ task = "restart"
  /\ elapsed' = 0
  /\ task' = "draw"
  /\ UNCHANGED <<vars, fb, rateVars, renderVars, SIMPLE_COUNTER>>

\* Faulty variant: `>` for `>=`.
CounterRestartsLate(old) == old > CounterLimit

\* fetch_add(1) >= 99999, of the value before the addition
CounterRestarts(old) == old >= CounterLimit

\* One round of main()'s loop, while display_task is suspended: no await comes
\* between the fetch_add and the store.
MainLoop ==
  /\ task = "spawned" \/ pc = "pending"
  /\ SIMPLE_COUNTER' = IF CounterRestarts(SIMPLE_COUNTER) THEN 0 ELSE SIMPLE_COUNTER + 1
  /\ UNCHANGED <<vars, task, fb, rateVars, renderVars, elapsed>>

-------------------------------------------------------------------------------
\* Time passes, and the scan goes on.
Tick ==
  /\ elapsed < ElapsedCap
  /\ elapsed' = elapsed + 1
  /\ UNCHANGED <<vars, task, fb, rateVars, renderVars, SIMPLE_COUNTER>>

Stream ==
  /\ TransferComplete
  /\ UNCHANGED <<task, fb, rateVars, renderVars, elapsed, SIMPLE_COUNTER>>

Interrupt ==
  /\ DmaInterrupt
  /\ frames' = IF FrameBoundary THEN Min({frames + 1, FrameCountSpan}) ELSE frames
  /\ UNCHANGED <<task, fb, refresh_count_start, refresh_rate, renderVars, elapsed,
                 SIMPLE_COUNTER>>

AppInit ==
  /\ Init
  /\ task = "main"
  /\ fb = None
  /\ render_count = 0
  /\ refresh_count_start = 0
  /\ refresh_rate = 0
  /\ elapsed = 0
  /\ RENDER_MS = 0
  /\ SIMPLE_COUNTER = 0
  /\ frames = 0

AppNext ==
  \/ Main
  \/ StartTask
  \/ Draw
  \/ AwaitSwap
  \/ TakeBack
  \/ CountRender
  \/ Measure
  \/ Restart
  \/ MainLoop
  \/ Tick
  \/ Stream
  \/ Interrupt

(***************************************************************************)
(* The executor runs the task until it awaits and again once it is woken;  *)
(* time passes; the scan goes on as in PlainDma.                           *)
(***************************************************************************)
AppSpec ==
  /\ AppInit /\ [][AppNext]_appVars
  /\ WF_appVars(Main)
  /\ WF_appVars(StartTask)
  /\ WF_appVars(Draw)
  /\ WF_appVars(AwaitSwap)
  /\ WF_appVars(TakeBack)
  /\ WF_appVars(CountRender)
  /\ WF_appVars(Measure)
  /\ WF_appVars(Restart)
  /\ WF_appVars(Tick)
  /\ WF_appVars(Stream)
  /\ WF_appVars(Interrupt)

-------------------------------------------------------------------------------
(***************************************************************************)
(* Properties.                                                             *)
(***************************************************************************)

\* What the task draws into is not on its way to the panel: the channel reads
\* the other framebuffer, or this one has come back from the driver.
DrawsUnread ==
  fb # None =>
    /\ fb \in app
    /\ \A i \in Segments : ~(dma.busy /\ dma.ptr = SegmentPtr(fb, i))
    /\ fb \notin Current \cup Queued

\* The refresh rate that is drawn is the number of frames since the last
\* reading, also when frame_count has wrapped in between (main.rs:180-182);
\* no frame is left out or counted twice between two intervals.
RateIsFrames ==
  [][ Measure /\ frames < FrameCountSpan => refresh_rate' = frames ]_appVars

\* Each picture of the interval has been on the panel for a frame boundary of
\* its own: pictures are never drawn faster than frames are shown.
RenderWithinRefresh == render_count <= frames

\* The refresh rate on display is renewed again and again.
RateIsRenewed == []<>(task = "restart")

-------------------------------------------------------------------------------
(***************************************************************************)
(* The inductive invariant, beside that of the driver.                     *)
(***************************************************************************)
\* Where the task stands says who has the framebuffers: it holds one of its
\* own unless it has given it to the swap that it awaits.
TaskInv ==
  /\ ~leaked
  /\ task = "main" => ~initialised /\ ~handle /\ app = Buffers
  /\ task # "main" => initialised
  /\ pc # "idle" <=> task = "swap"
  /\ task \notin {"main", "swap"} => fb \in app
  /\ task \in {"main", "swap"} => fb = None

\* frame_count is the last reading and the frames since then, with the wrap.
FramesInv ==
  task \notin {"main", "spawned"} /\ frames < FrameCountSpan =>
    LET sum == refresh_count_start + frames
    IN  frame_count = IF sum < FrameCountSpan THEN sum ELSE sum - FrameCountSpan

\* The swap in progress has been taken over, or has just returned: its frame
\* boundary is not yet in render_count.
TakenOver == task = "count" \/ (task = "swap" /\ pc \in Waiting /\ swap_done)

RenderInv ==
  /\ task \in {"main", "spawned"} => render_count = 0
  /\ IF TakenOver THEN render_count < frames \/ frames >= RenderCap
     ELSE render_count <= frames

AppInv ==
  /\ AppTypeOK
  /\ TaskInv
  /\ FramesInv
  /\ RenderInv
================================================================================
