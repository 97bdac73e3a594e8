------------------------------ MODULE PixelClock ------------------------------
(***************************************************************************)
(* The timer that paces the plain DMA backend: setup::hardware             *)
(* (src/src/setup.rs), the start of the scan and the interrupt handler     *)
(* (src/src/dma.rs) as the panel sees them.                                *)
(*                                                                         *)
(* In each period the timer's update event asks the DMA for a word, then   *)
(* the rising edge of its output clocks the word into the panel.  The      *)
(* timer does not know where a transfer ends: until the handler stops it,  *)
(* and again after it has been restarted, it clocks whatever is on the     *)
(* port (src/src/lib.rs:36-40).                                            *)
(***************************************************************************)
EXTENDS Integers

CONSTANTS
  None,       \* what was on the port before the first word
  Words,      \* number of words of a transfer
  TimerWord,  \* number of values of the timer's counter
  Wide,       \* number of values of a u64
  Reloads     \* the reload values that Config::frequency may lead to

Transfers == {0, 1}

\* Any value of the register may be the reload value: nothing in the code
\* limits Config::frequency.
ASSUME ClockAssumption ==
  /\ Words \in Nat \ {0}
  /\ TimerWord \in Nat \ {0}
  /\ Reloads \subseteq 0 .. TimerWord - 1
  /\ Wide \in Nat
  /\ Wide >= 3 * TimerWord
  /\ None \notin Transfers \X (0 .. Words - 1)

VARIABLES
  timer,       \* its registers, see ResetTimer
  request,     \* its DMA request is pending
  channel,     \* the DMA channel: is it armed, which transfer, which word is next
  tc_pending,  \* its transfer-complete interrupt is pending
  odr,         \* the word on the port, <<transfer, index>>
  seen,        \* the word that the panel has clocked in last
  pc           \* how far init() has come

vars == <<timer, request, channel, tc_pending, odr, seen, pc>>

Word == Transfers \X (0 .. Words - 1)

TypeOK ==
  /\ timer \in [running : BOOLEAN, output : BOOLEAN, update_dma : BOOLEAN,
                cnt : 0 .. TimerWord - 1, arr : 0 .. TimerWord - 1,
                ccr : 0 .. TimerWord - 1, preloaded_ccr : 0 .. TimerWord - 1]
  /\ request \in BOOLEAN
  /\ channel \in [busy : BOOLEAN, transfer : Transfers, next : 0 .. Words - 1]
  /\ tc_pending \in BOOLEAN
  /\ {odr, seen} \subseteq Word \cup {None}
  /\ pc \in {"hardware", "start", "run"}

-------------------------------------------------------------------------------
\* The timer after Timer::new.
ResetTimer ==
  [running |-> FALSE, output |-> FALSE, update_dma |-> FALSE, cnt |-> 0,
   arr |-> TimerWord - 1, ccr |-> 0, preloaded_ccr |-> 0]

\* An update event loads the compare register from its preload register.
UpdateEvent(t) == [t EXCEPT !.cnt = 0, !.ccr = t.preloaded_ccr]

\* PWM mode 2: the output is active from the compare value on.
Level(t) == t.output /\ t.cnt >= t.ccr
RisingEdge == ~Level(timer) /\ Level(timer')

\* Faulty variant: the product is taken in the timer's own width.
CompareNarrow(m) == ((m * 3) % TimerWord) \div 5

\* Faulty variant: the two factors are swapped.
CompareSwapped(m) == ((m * 5) % Wide) \div 3

\* The compare value for a reload value, `u64::from(max) * 3 / 5`.
CompareValue(m) == ((m * 3) % Wide) \div 5

\* The timer as setup::hardware leaves it, one register write after the other.
ConfiguredTimer(reload) ==
  LET frequency == [ResetTimer EXCEPT !.arr = reload]
      compare == [frequency EXCEPT !.preloaded_ccr = CompareValue(frequency.arr)]
      output == [compare EXCEPT !.output = TRUE]
  IN  [UpdateEvent(output) EXCEPT !.update_dma = TRUE]

\* setup::hardware
Hardware ==
  /\ pc = "hardware"
  /\ \E reload \in Reloads : timer' = ConfiguredTimer(reload)
  /\ pc' = "start"
  /\ UNCHANGED <<request, channel, tc_pending, odr, seen>>

\* The critical section of Hub75::new: arm the channel, then start the timer.
Start ==
  /\ pc = "start"
  /\ channel' = [channel EXCEPT !.busy = TRUE]
  /\ timer' = [timer EXCEPT !.running = TRUE]
  /\ pc' = "run"
  /\ UNCHANGED <<request, tc_pending, odr, seen>>

\* The handler's stop(), reset() and start().
TimerRestarted == [timer EXCEPT !.running = TRUE, !.cnt = 0]

\* Faulty variant: the new Transfer is not kept, and its drop stops the channel.
NextTransferDropped == [busy |-> FALSE, transfer |-> 1 - channel.transfer, next |-> 0]

\* kick_dma, for the next transfer
NextTransfer == [busy |-> TRUE, transfer |-> 1 - channel.transfer, next |-> 0]

\* Faulty variant: an update event resets the counter, and asks for a word.
OnInterruptByUpdate ==
  /\ pc = "run"
  /\ tc_pending
  /\ tc_pending' = FALSE
  /\ timer' = UpdateEvent(TimerRestarted)
  /\ channel' = NextTransfer
  /\ request' = TRUE
  /\ UNCHANGED <<odr, seen, pc>>

\* Hub75DmaHandler::on_interrupt, while the timer stands still.  A request of
\* the time when the channel was not armed may be lost or served at once.
OnInterrupt ==
  /\ pc = "run"
  /\ tc_pending
  /\ tc_pending' = FALSE
  /\ timer' = TimerRestarted
  /\ channel' = NextTransfer
  /\ request' \in {FALSE, request}
  /\ UNCHANGED <<odr, seen, pc>>

-------------------------------------------------------------------------------
(***************************************************************************)
(* The hardware (external).  The DMA answers a request before the edge of  *)
(* the same period: that is what the pixel clock has to be slow enough for.*)
(* A counter is blocked while its reload value is 0.                       *)
(***************************************************************************)
Tick ==
  /\ timer.running
  /\ timer.arr # 0
  /\ ~(request /\ channel.busy /\ timer.cnt + 1 = timer.ccr)
  /\ timer' = IF timer.cnt = timer.arr THEN UpdateEvent(timer)
              ELSE [timer EXCEPT !.cnt = @ + 1]
  /\ request' = (request \/ (timer.cnt = timer.arr /\ timer.update_dma))
  /\ seen' = IF RisingEdge THEN odr ELSE seen
  /\ UNCHANGED <<channel, tc_pending, odr, pc>>

WriteWord ==
  /\ request /\ channel.busy
  /\ request' = FALSE
  /\ odr' = <<channel.transfer, channel.next>>
  /\ IF channel.next = Words - 1
     THEN channel' = [channel EXCEPT !.busy = FALSE] /\ tc_pending' = TRUE
     ELSE channel' = [channel EXCEPT !.next = @ + 1] /\ UNCHANGED tc_pending
  /\ UNCHANGED <<timer, seen, pc>>

-------------------------------------------------------------------------------
Init ==
  /\ timer = ResetTimer
  /\ request = FALSE
  /\ channel = [busy |-> FALSE, transfer |-> 0, next |-> 0]
  /\ tc_pending = FALSE
  /\ odr = None
  /\ seen = None
  /\ pc = "hardware"

Next ==
  \/ Hardware
  \/ Start
  \/ OnInterrupt
  \/ Tick
  \/ WriteWord

\* init() is called; the hardware runs; a pending interrupt is served, sooner
\* or later.
Spec ==
  /\ Init /\ [][Next]_vars
  /\ WF_vars(Hardware)
  /\ WF_vars(Start)
  /\ WF_vars(OnInterrupt)
  /\ WF_vars(Tick)
  /\ WF_vars(WriteWord)

-------------------------------------------------------------------------------
(***************************************************************************)
(* Properties.                                                             *)
(***************************************************************************)
FollowingWord(w) ==
  IF w = None THEN <<0, 0>>
  ELSE IF w[2] = Words - 1 THEN <<1 - w[1], 0>> ELSE <<w[1], w[2] + 1>>

\* The panel clocks in every word, in order and once, but for the last word of
\* a transfer, which it may see several times (lib.rs:36-40 "the timer
\* typically still emits a few clock pulses before it is stopped"): however
\* late or early the handler stops and restarts the timer.
ClockedInOrder ==
  [][ Tick /\ RisingEdge =>
        \/ odr = FollowingWord(seen)
        \/ odr = seen /\ (odr # None => odr[2] = Words - 1) ]_vars

\* The clock output has both levels in a period of the timer.
ClockToggles ==
  \E low, high \in 0 .. timer.arr :
    ~Level([timer EXCEPT !.cnt = low]) /\ Level([timer EXCEPT !.cnt = high])

\* From its first period on the timer makes a clock of every reload value but 0
\* and 1.  These two have the compare value 0 (setup.rs:59-63), the output
\* stays high for ever, and no check of Config::frequency excludes them.
ClockFromStart == timer.running => (ClockToggles <=> timer.arr \notin {0, 1})

\* The scan never stops, though the timer, the channel and the handler each
\* wait for another: every transfer is written to its last word unless the
\* reload value is 0, and the panel clocks that word in unless it is 0 or 1.
ScanGoesOn ==
  \A t \in Transfers :
    /\ <>[](timer.arr = 0) \/ []<>(odr = <<t, Words - 1>>)
    /\ <>[](timer.arr \in {0, 1}) \/ []<>(seen = <<t, Words - 1>>)

-------------------------------------------------------------------------------
(***************************************************************************)
(* The inductive invariant.                                                *)
(***************************************************************************)
\* The timer runs from the start of the scan on, with a compare value in the
\* period, which leaves room for the low level if it can.
TimerInv ==
  /\ timer.running <=> pc = "run"
  /\ timer.cnt <= timer.arr
  /\ pc # "hardware" =>
       /\ timer.output /\ timer.update_dma
       /\ timer.preloaded_ccr = timer.ccr
       /\ timer.ccr <= timer.arr
       /\ timer.ccr = 0 <=> timer.arr \in {0, 1}

\* The channel writes one word after the other, to the end of the transfer; it
\* is idle exactly when its interrupt is pending.
ChannelInv ==
  IF pc = "run"
  THEN /\ tc_pending <=> ~channel.busy
       /\ IF channel.busy THEN FollowingWord(odr) = <<channel.transfer, channel.next>>
          ELSE odr = <<channel.transfer, Words - 1>>
  ELSE /\ ~channel.busy /\ ~tc_pending /\ ~request
       /\ channel.transfer = 0 /\ channel.next = 0
       /\ odr = None /\ seen = None

\* Without an edge the panel sees nothing.  Otherwise a word that has been
\* asked for is there in time for the edge.  A word that the panel has not seen
\* yet is the one that follows, and will be clocked in before another is asked
\* for; where it has seen the word on the port, either another is on its way,
\* or the edge of this period is past, or the transfer is at its end.
PanelInv ==
  IF timer.ccr = 0 THEN seen = None
  ELSE /\ request /\ channel.busy => timer.cnt < timer.ccr
       /\ IF seen = odr
          THEN channel.busy /\ channel.next > 0 => request \/ timer.cnt >= timer.ccr
          ELSE odr = FollowingWord(seen) /\ ~request /\ timer.cnt < timer.ccr

IndInv ==
  /\ TypeOK
  /\ TimerInv
  /\ ChannelInv
  /\ PanelInv
===============================================================================
