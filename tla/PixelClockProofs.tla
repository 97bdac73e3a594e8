---------------------------- MODULE PixelClockProofs ----------------------------
(***************************************************************************)
(* The pixel clock, for every reload value, counter width and length of a  *)
(* transfer.                                                               *)
(***************************************************************************)
EXTENDS PixelClock, TLAPS

TimerType ==
  [running : BOOLEAN, output : BOOLEAN, update_dma : BOOLEAN, cnt : 0 .. TimerWord - 1,
   arr : 0 .. TimerWord - 1, ccr : 0 .. TimerWord - 1, preloaded_ccr : 0 .. TimerWord - 1]

ChannelType == [busy : BOOLEAN, transfer : Transfers, next : 0 .. Words - 1]

\* The compare value is inside the period, after its start if the period has
\* three ticks: the product is taken in 64 bits and does not overflow.
LEMMA CompareInside ==
  ASSUME NEW m \in 0 .. TimerWord - 1
  PROVE  /\ CompareValue(m) \in 0 .. m
         /\ CompareValue(m) = 0 <=> m \in {0, 1}
<1>1. m \in Nat /\ m * 3 \in 0 .. Wide - 1 /\ Wide \in Nat \ {0}
  BY ClockAssumption
<1>2. (m * 3) % Wide = m * 3
  BY <1>1
<1>3. (m * 3) \div 5 \in 0 .. m
  BY <1>1
<1>4. (m * 3) \div 5 = 0 <=> m \in {0, 1}
  BY <1>1
<1> QED
  BY <1>2, <1>3, <1>4 DEF CompareValue

LEMMA TimerConfigured ==
  ASSUME NEW reload \in Reloads
  PROVE  /\ ConfiguredTimer(reload) \in TimerType
         /\ ConfiguredTimer(reload).running = FALSE
         /\ ConfiguredTimer(reload).output = TRUE
         /\ ConfiguredTimer(reload).update_dma = TRUE
         /\ ConfiguredTimer(reload).cnt = 0
         /\ ConfiguredTimer(reload).arr = reload
         /\ ConfiguredTimer(reload).ccr = CompareValue(reload)
         /\ ConfiguredTimer(reload).preloaded_ccr = CompareValue(reload)
<1> DEFINE frequency == [ResetTimer EXCEPT !.arr = reload]
           compare == [frequency EXCEPT !.preloaded_ccr = CompareValue(frequency.arr)]
           output == [compare EXCEPT !.output = TRUE]
           event == UpdateEvent(output)
<1>0. reload \in 0 .. TimerWord - 1 /\ 0 \in 0 .. TimerWord - 1 /\ TimerWord - 1 \in 0 .. TimerWord - 1
  BY ClockAssumption
<1>1. /\ frequency \in TimerType /\ frequency.running = FALSE /\ frequency.cnt = 0
      /\ frequency.arr = reload
  <2>1. ResetTimer.running = FALSE /\ ResetTimer.cnt = 0
    BY DEF ResetTimer
  <2>2. ResetTimer \in TimerType
    BY <1>0 DEF ResetTimer, TimerType
  <2> QED
    BY <1>0, <2>1, <2>2 DEF TimerType
<1>2. CompareValue(reload) \in 0 .. TimerWord - 1
  BY <1>0, CompareInside
<1> HIDE DEF frequency
<1>3. /\ compare \in TimerType /\ compare.running = FALSE /\ compare.cnt = 0
      /\ compare.arr = reload /\ compare.preloaded_ccr = CompareValue(reload)
  BY <1>1, <1>2 DEF TimerType
<1> HIDE DEF compare
<1>4. /\ output \in TimerType /\ output.running = FALSE /\ output.output = TRUE
      /\ output.cnt = 0 /\ output.arr = reload /\ output.preloaded_ccr = CompareValue(reload)
  BY <1>3 DEF TimerType
<1> HIDE DEF output
<1>5. /\ event \in TimerType /\ event.running = FALSE /\ event.output = TRUE
      /\ event.cnt = 0 /\ event.arr = reload /\ event.preloaded_ccr = CompareValue(reload)
      /\ event.ccr = CompareValue(reload)
  BY <1>0, <1>2, <1>4 DEF TimerType, UpdateEvent
<1> HIDE DEF event
<1>6. ConfiguredTimer(reload) = [event EXCEPT !.update_dma = TRUE]
  BY DEF ConfiguredTimer, event, output, compare, frequency
<1> QED
  BY <1>5, <1>6 DEF TimerType

\* The words that follow one another are different ones.
LEMMA FollowingType ==
  ASSUME NEW w \in Word \cup {None}
  PROVE  /\ FollowingWord(w) \in Word
         /\ FollowingWord(w) # w
         /\ FollowingWord(w)[2] = 0 => w = None \/ w[2] = Words - 1
<1>1. Words \in Nat \ {0} /\ None \notin Word
  BY ClockAssumption DEF Word
<1>2. CASE w = None
  BY <1>1, <1>2 DEF FollowingWord, Word, Transfers
<1>3. CASE w # None
  <2>1. PICK t \in Transfers, i \in 0 .. Words - 1 : w = <<t, i>>
    BY <1>3 DEF Word
  <2> QED
    BY <1>1, <1>3, <2>1 DEF FollowingWord, Word, Transfers
<1> QED
  BY <1>2, <1>3

LEMMA TypeParts ==
  ASSUME TypeOK
  PROVE  /\ timer \in TimerType /\ request \in BOOLEAN
         /\ channel \in ChannelType /\ tc_pending \in BOOLEAN
         /\ odr \in Word \cup {None} /\ seen \in Word \cup {None}
         /\ pc \in {"hardware", "start", "run"}
BY DEF TypeOK, TimerType, ChannelType

LEMMA TypeAfter ==
  ASSUME timer' \in TimerType, request' \in BOOLEAN,
         channel' \in ChannelType, tc_pending' \in BOOLEAN,
         odr' \in Word \cup {None}, seen' \in Word \cup {None},
         pc' \in {"hardware", "start", "run"}
  PROVE  TypeOK'
BY DEF TypeOK, TimerType, ChannelType

-------------------------------------------------------------------------------
LEMMA InitIndInv == Init => IndInv
<1> SUFFICES ASSUME Init PROVE IndInv
  OBVIOUS
<1>0. /\ 0 \in 0 .. TimerWord - 1 /\ TimerWord - 1 \in 0 .. TimerWord - 1
      /\ 0 \in 0 .. Words - 1 /\ 0 \in Transfers
  <2>1. Words \in Nat \ {0} /\ TimerWord \in Nat \ {0}
    BY ClockAssumption
  <2> QED
    BY <2>1 DEF Transfers
<1>1. timer \in TimerType
  BY <1>0 DEF Init, ResetTimer, TimerType
<1>2. timer.running = FALSE /\ timer.cnt = 0 /\ timer.arr = TimerWord - 1
  BY DEF Init, ResetTimer
<1>3. channel \in ChannelType
  BY <1>0 DEF Init, ChannelType
<1>4. TypeOK
  BY <1>1, <1>3 DEF Init, TypeOK, TimerType, ChannelType
<1> QED
  BY <1>0, <1>2, <1>4 DEF Init, IndInv, TimerInv, ChannelInv, PanelInv

\* setup::hardware leaves a timer with a compare value in its period.
LEMMA HardwareIndInv == ASSUME IndInv, Hardware PROVE IndInv'
<1>1. PICK reload \in Reloads : timer' = ConfiguredTimer(reload)
  BY DEF Hardware
<1>2. /\ CompareValue(reload) \in 0 .. reload /\ reload \in 0 .. TimerWord - 1
      /\ CompareValue(reload) = 0 <=> reload \in {0, 1}
  BY CompareInside, ClockAssumption
<1>3. timer' \in TimerType /\ TimerInv'
  <2>1. /\ timer' \in TimerType /\ ~timer'.running /\ timer'.output /\ timer'.update_dma
        /\ timer'.cnt = 0 /\ timer'.arr = reload /\ timer'.ccr = CompareValue(reload)
        /\ timer'.preloaded_ccr = CompareValue(reload)
    BY <1>1, TimerConfigured
  <2> QED
    BY <1>2, <2>1 DEF TimerInv, Hardware
<1>4. pc = "hardware" /\ pc' = "start" /\ UNCHANGED <<request, channel, tc_pending, odr, seen>>
  BY DEF Hardware
<1>5. TypeOK'
  BY <1>3, <1>4, TypeParts, TypeAfter DEF IndInv
<1>6. ChannelInv' /\ PanelInv'
  BY <1>4 DEF IndInv, ChannelInv, PanelInv
<1> QED
  BY <1>3, <1>5, <1>6 DEF IndInv

LEMMA StartIndInv == ASSUME IndInv, Start PROVE IndInv'
<1>1. timer \in TimerType /\ channel \in ChannelType
  BY TypeParts DEF IndInv
<1>2. /\ timer' \in TimerType /\ timer'.running = TRUE
      /\ timer'.output = timer.output /\ timer'.update_dma = timer.update_dma
      /\ timer'.cnt = timer.cnt /\ timer'.arr = timer.arr /\ timer'.ccr = timer.ccr
      /\ timer'.preloaded_ccr = timer.preloaded_ccr
  BY <1>1 DEF Start, TimerType
<1>3. /\ channel' \in ChannelType /\ channel'.busy = TRUE
      /\ channel'.transfer = 0 /\ channel'.next = 0
  BY <1>1 DEF Start, ChannelType, IndInv, ChannelInv
<1>4. /\ pc = "start" /\ pc' = "run" /\ UNCHANGED <<request, tc_pending, odr, seen>>
      /\ ~tc_pending /\ ~request /\ odr = None /\ seen = None
  BY DEF Start, IndInv, ChannelInv
<1>5. TypeOK'
  <2>1. /\ request' \in BOOLEAN /\ tc_pending' \in BOOLEAN
        /\ odr' \in Word \cup {None} /\ seen' \in Word \cup {None}
    BY <1>4, TypeParts DEF IndInv
  <2> QED
    BY <1>2, <1>3, <1>4, <2>1, TypeAfter
<1>6. TimerInv'
  BY <1>2, <1>4 DEF IndInv, TimerInv
<1>7. ChannelInv' /\ PanelInv'
  <2>1. FollowingWord(odr') = <<channel'.transfer, channel'.next>>
    BY <1>3, <1>4 DEF FollowingWord
  <2>2. ~tc_pending' /\ ~request' /\ seen' = odr'
    BY <1>4
  <2>3. ChannelInv'
    BY <1>3, <1>4, <2>1, <2>2 DEF ChannelInv
  <2> QED
    BY <1>3, <1>4, <2>2, <2>3 DEF PanelInv
<1> QED
  BY <1>5, <1>6, <1>7 DEF IndInv

\* The handler starts the next transfer and a period over: a word that has not
\* been clocked in yet stays on the port.
LEMMA OnInterruptIndInv == ASSUME IndInv, OnInterrupt PROVE IndInv'
<1>1. timer \in TimerType /\ channel \in ChannelType /\ Words \in Nat \ {0} /\ TimerWord \in Nat \ {0}
  BY TypeParts, ClockAssumption DEF IndInv
<1>2. /\ timer' \in TimerType /\ timer'.running = TRUE
      /\ timer'.output = timer.output /\ timer'.update_dma = timer.update_dma
      /\ timer'.cnt = 0 /\ timer'.arr = timer.arr /\ timer'.ccr = timer.ccr
      /\ timer'.preloaded_ccr = timer.preloaded_ccr
  <2>1. timer' = [timer EXCEPT !.running = TRUE, !.cnt = 0] /\ 0 \in 0 .. TimerWord - 1
    BY <1>1 DEF OnInterrupt, TimerRestarted
  <2> QED
    BY <1>1, <2>1 DEF TimerType
<1>3. /\ channel' \in ChannelType /\ channel'.busy = TRUE
      /\ channel'.transfer = 1 - channel.transfer /\ channel'.next = 0
  BY <1>1 DEF OnInterrupt, NextTransfer, ChannelType, Transfers
<1>4. /\ pc = "run" /\ pc' = "run" /\ UNCHANGED <<odr, seen>> /\ ~tc_pending'
      /\ request' \in {FALSE, request}
      /\ odr = <<channel.transfer, Words - 1>>
  BY DEF OnInterrupt, IndInv, ChannelInv
<1>5. TypeOK'
  <2>1. /\ request' \in BOOLEAN /\ tc_pending' \in BOOLEAN
        /\ odr' \in Word \cup {None} /\ seen' \in Word \cup {None}
    <3>1. request \in BOOLEAN /\ request' \in {FALSE, request} /\ tc_pending' = FALSE
      BY TypeParts DEF IndInv, OnInterrupt
    <3>2. request' \in BOOLEAN
      BY <3>1, Zenon
    <3> QED
      BY <1>4, <3>1, <3>2, TypeParts DEF IndInv
  <2> QED
    BY <1>2, <1>3, <1>4, <2>1, TypeAfter
<1>6. TimerInv'
  BY <1>1, <1>2, <1>4 DEF IndInv, TimerInv, TimerType
<1>7. FollowingWord(odr) = <<1 - channel.transfer, 0>>
  <2>1. odr # None
    BY <1>1, <1>4, ClockAssumption DEF ChannelType
  <2> QED
    BY <1>4, <2>1 DEF FollowingWord
<1>8. ChannelInv'
  BY <1>3, <1>4, <1>7 DEF ChannelInv
<1>9. PanelInv'
  <2>1. timer.ccr \in Nat
    BY <1>1 DEF TimerType
  <2>2. request' => request
    BY <1>4, Zenon
  <2>3. IF timer.ccr = 0 THEN seen = None
        ELSE seen # odr => odr = FollowingWord(seen) /\ ~request
    BY DEF IndInv, PanelInv
  <2> QED
    BY <1>2, <1>3, <1>4, <2>1, <2>2, <2>3 DEF PanelInv
<1> QED
  BY <1>5, <1>6, <1>8, <1>9 DEF IndInv

-------------------------------------------------------------------------------
\* One count of the timer: where the edge is, and where the update event.
LEMMA TickTimer ==
  ASSUME IndInv, Tick
  PROVE  /\ timer \in TimerType /\ timer' \in TimerType
         /\ pc = "run"
         /\ timer'.running = timer.running
         /\ timer'.output = timer.output /\ timer'.update_dma = timer.update_dma
         /\ timer'.arr = timer.arr /\ timer'.ccr = timer.ccr
         /\ timer'.preloaded_ccr = timer.preloaded_ccr
         /\ timer'.cnt = IF timer.cnt = timer.arr THEN 0 ELSE timer.cnt + 1
         /\ timer.cnt <= timer.arr /\ timer.ccr <= timer.arr /\ timer.update_dma
         /\ RisingEdge <=> timer.cnt + 1 = timer.ccr
<1>1. timer \in TimerType /\ TimerInv /\ TimerWord \in Nat
  BY TypeParts, ClockAssumption DEF IndInv
<1>2. /\ timer.running /\ pc = "run"
      /\ timer.output /\ timer.update_dma
      /\ timer.preloaded_ccr = timer.ccr /\ timer.ccr <= timer.arr
      /\ timer.cnt <= timer.arr
  BY <1>1 DEF Tick, TimerInv
<1>3. CASE timer.cnt = timer.arr
  <2>1. timer' = UpdateEvent(timer)
    BY <1>3 DEF Tick
  <2>2. timer' = [timer EXCEPT !.cnt = 0, !.ccr = timer.ccr] /\ 0 \in 0 .. TimerWord - 1
    BY <1>1, <1>2, <2>1, ClockAssumption DEF UpdateEvent
  <2>3. /\ timer' \in TimerType
        /\ timer'.running = timer.running
        /\ timer'.output = timer.output /\ timer'.update_dma = timer.update_dma
        /\ timer'.arr = timer.arr /\ timer'.ccr = timer.ccr
        /\ timer'.preloaded_ccr = timer.preloaded_ccr /\ timer'.cnt = 0
    BY <1>1, <2>2 DEF TimerType
  <2> QED
    BY <1>1, <1>2, <1>3, <2>3 DEF RisingEdge, Level, TimerType
<1>4. CASE timer.cnt # timer.arr
  <2>1. timer' = [timer EXCEPT !.cnt = @ + 1]
    BY <1>4 DEF Tick
  <2>2. timer.cnt + 1 \in 0 .. TimerWord - 1
    BY <1>1, <1>2, <1>4 DEF TimerType
  <2>3. /\ timer' \in TimerType
        /\ timer'.running = timer.running
        /\ timer'.output = timer.output /\ timer'.update_dma = timer.update_dma
        /\ timer'.arr = timer.arr /\ timer'.ccr = timer.ccr
        /\ timer'.preloaded_ccr = timer.preloaded_ccr /\ timer'.cnt = timer.cnt + 1
    BY <1>1, <2>1, <2>2 DEF TimerType
  <2> QED
    BY <1>1, <1>2, <1>4, <2>3 DEF RisingEdge, Level, TimerType
<1> QED
  BY <1>3, <1>4

\* At the edge the panel clocks in the word on the port, the one that follows
\* or, where the channel has nothing more to write, the last one again.
LEMMA EdgeInOrder ==
  ASSUME IndInv, Tick, RisingEdge
  PROVE  \/ odr = FollowingWord(seen)
         \/ odr = seen /\ (odr # None => odr[2] = Words - 1)
<1>1. /\ timer.cnt + 1 = timer.ccr /\ pc = "run"
      /\ timer.cnt \in Nat /\ timer.ccr \in Nat
  BY TickTimer DEF TimerType
<1>2. ~(request /\ channel.busy)
  BY <1>1 DEF Tick
<1>3. SUFFICES ASSUME odr = seen, odr # None PROVE odr[2] = Words - 1
  BY <1>1 DEF IndInv, PanelInv
<1>4. CASE ~channel.busy
  BY <1>1, <1>4 DEF IndInv, ChannelInv
<1>5. CASE channel.busy
  <2>1. channel \in ChannelType /\ odr \in Word \cup {None} /\ Words \in Nat
    BY TypeParts, ClockAssumption DEF IndInv
  <2>2. channel.next = 0
    BY <1>1, <1>2, <1>3, <1>5, <2>1 DEF IndInv, PanelInv, ChannelType
  <2>3. FollowingWord(odr)[2] = 0
    BY <1>1, <1>5, <2>2 DEF IndInv, ChannelInv
  <2> QED
    BY <1>3, <2>1, <2>3, FollowingType
<1> QED
  BY <1>4, <1>5

LEMMA TickIndInv == ASSUME IndInv, Tick PROVE IndInv'
<1>1. /\ UNCHANGED <<channel, tc_pending, odr, pc>>
      /\ seen' = IF RisingEdge THEN odr ELSE seen
  BY DEF Tick
<1>2. request' = (request \/ (timer.cnt = timer.arr /\ timer.update_dma))
  BY DEF Tick
<1>3. request' \in BOOLEAN /\ (request => request')
      /\ (timer.cnt = timer.arr => request') /\ (request' => request \/ timer.cnt = timer.arr)
  BY <1>2, TickTimer, Zenon DEF IndInv, TypeOK
<1>4. TypeOK'
  <2>1. timer' \in TimerType
    BY TickTimer
  <2>2. /\ seen' \in Word \cup {None} /\ odr' \in Word \cup {None}
        /\ channel' \in ChannelType /\ tc_pending' \in BOOLEAN
        /\ pc' \in {"hardware", "start", "run"}
    BY <1>1, TypeParts DEF IndInv
  <2> QED
    BY <1>3, <2>1, <2>2, TypeAfter
<1>5. TimerInv'
  BY <1>1, TickTimer DEF IndInv, TimerInv, TimerType
<1>6. ChannelInv'
  BY <1>1, TickTimer DEF IndInv, ChannelInv
<1>7. PanelInv'
  <2>1. /\ timer.cnt \in Nat /\ timer.ccr \in Nat /\ timer.arr \in Nat
        /\ timer'.cnt = IF timer.cnt = timer.arr THEN 0 ELSE timer.cnt + 1
        /\ timer'.ccr = timer.ccr /\ timer.cnt <= timer.arr /\ timer.ccr <= timer.arr
        /\ RisingEdge <=> timer.cnt + 1 = timer.ccr
    BY TickTimer DEF TimerType
  <2>0. CASE timer.ccr = 0
    BY <1>1, <2>0, <2>1 DEF IndInv, PanelInv
  <2> SUFFICES ASSUME timer.ccr # 0 PROVE PanelInv'
    BY <2>0
  <2>2. /\ request /\ channel.busy => timer.cnt < timer.ccr /\ timer.cnt + 1 # timer.ccr
        /\ IF seen = odr
           THEN channel.busy /\ channel.next > 0 => request \/ timer.cnt >= timer.ccr
           ELSE odr = FollowingWord(seen) /\ ~request /\ timer.cnt < timer.ccr
    BY <2>1 DEF Tick, IndInv, PanelInv
  <2>3. request' /\ channel'.busy => timer'.cnt < timer'.ccr
    BY <1>1, <1>3, <2>1, <2>2
  <2>4. CASE RisingEdge
    <3>1. seen' = odr' /\ timer'.cnt >= timer'.ccr
      BY <1>1, <2>1, <2>4
    <3> QED
      BY <2>1, <2>3, <3>1 DEF PanelInv
  <2>5. CASE ~RisingEdge /\ seen = odr
    <3>1. channel.busy /\ channel.next > 0 => request' \/ timer'.cnt >= timer'.ccr
      BY <1>3, <2>1, <2>2, <2>5
    <3> QED
      BY <1>1, <2>1, <2>3, <2>5, <3>1 DEF PanelInv
  <2>6. CASE ~RisingEdge /\ seen # odr
    <3>1. odr = FollowingWord(seen) /\ ~request' /\ timer'.cnt < timer'.ccr
      BY <1>3, <2>1, <2>2, <2>6
    <3> QED
      BY <1>1, <2>1, <2>3, <2>6, <3>1 DEF PanelInv
  <2> QED
    BY <2>4, <2>5, <2>6
<1> QED
  BY <1>4, <1>5, <1>6, <1>7 DEF IndInv

\* The channel writes a word only where the panel has seen the one before.
LEMMA WriteWordIndInv == ASSUME IndInv, WriteWord PROVE IndInv'
<1>1. /\ channel \in ChannelType /\ Words \in Nat \ {0} /\ odr \in Word \cup {None}
      /\ channel.transfer \in Transfers /\ channel.next \in 0 .. Words - 1
  BY TypeParts, ClockAssumption DEF IndInv, ChannelType
<1>2. /\ request /\ channel.busy /\ pc = "run" /\ ~tc_pending
      /\ FollowingWord(odr) = <<channel.transfer, channel.next>>
      /\ IF timer.ccr = 0 THEN seen = None ELSE seen = odr /\ timer.cnt < timer.ccr
  BY DEF WriteWord, IndInv, ChannelInv, PanelInv
<1>3. /\ ~request' /\ request' \in BOOLEAN
      /\ odr' = <<channel.transfer, channel.next>>
      /\ UNCHANGED <<timer, seen, pc>>
  BY DEF WriteWord
<1>4. odr' \in Word /\ (timer.ccr # 0 => odr' = FollowingWord(seen') /\ seen' # odr')
  BY <1>1, <1>2, <1>3, FollowingType
<1>5. /\ channel' \in ChannelType /\ tc_pending' \in BOOLEAN
      /\ tc_pending' <=> ~channel'.busy
      /\ IF channel'.busy THEN FollowingWord(odr') = <<channel'.transfer, channel'.next>>
         ELSE odr' = <<channel'.transfer, Words - 1>>
  <2>1. CASE channel.next = Words - 1
    <3>1. channel' = [channel EXCEPT !.busy = FALSE] /\ tc_pending' = TRUE
      BY <2>1 DEF WriteWord
    <3> QED
      BY <1>1, <1>3, <2>1, <3>1 DEF ChannelType
  <2>2. CASE channel.next # Words - 1
    <3>1. channel' = [channel EXCEPT !.next = @ + 1] /\ tc_pending' = tc_pending
      BY <2>2 DEF WriteWord
    <3>2. odr' # None
      BY <1>4, ClockAssumption DEF Word
    <3>3. FollowingWord(odr') = <<channel.transfer, channel.next + 1>>
      BY <1>3, <2>2, <3>2 DEF FollowingWord
    <3>4. channel.next + 1 \in 0 .. Words - 1
      BY <1>1, <2>2
    <3>5. /\ channel' \in ChannelType /\ channel'.busy
          /\ channel'.transfer = channel.transfer /\ channel'.next = channel.next + 1
      BY <1>1, <1>2, <3>1, <3>4 DEF ChannelType
    <3>6. tc_pending' = FALSE
      BY <1>2, <3>1, TypeParts DEF IndInv
    <3> QED
      BY <3>3, <3>5, <3>6
  <2> QED
    BY <2>1, <2>2
<1>6. TypeOK'
  <2>1. /\ timer' \in TimerType /\ pc' \in {"hardware", "start", "run"}
        /\ odr' \in Word \cup {None} /\ seen' \in Word \cup {None}
    BY <1>3, <1>4, TypeParts DEF IndInv
  <2> QED
    BY <1>3, <1>5, <2>1, TypeAfter
<1>7. TimerInv' /\ ChannelInv'
  BY <1>2, <1>3, <1>5 DEF IndInv, TimerInv, ChannelInv
<1>8. PanelInv'
  BY <1>2, <1>3, <1>4 DEF PanelInv
<1> QED
  BY <1>6, <1>7, <1>8 DEF IndInv

LEMMA NextIndInv == IndInv /\ [Next]_vars => IndInv'
<1> SUFFICES ASSUME IndInv, [Next]_vars PROVE IndInv'
  OBVIOUS
<1>1. CASE Hardware \/ Start \/ OnInterrupt \/ Tick \/ WriteWord
  BY <1>1, HardwareIndInv, StartIndInv, OnInterruptIndInv, TickIndInv, WriteWordIndInv
<1>2. CASE UNCHANGED vars
  BY <1>2 DEF vars, IndInv, TypeOK, TimerInv, ChannelInv, PanelInv
<1> QED
  BY <1>1, <1>2 DEF Next

\* The timer, the channel and the panel stay in step.
THEOREM PixelClockInvariance == Spec => []IndInv
BY InitIndInv, NextIndInv, PTL DEF Spec

\* The registers of the timer keep their width, and the channel its place in
\* the transfer.
THEOREM PixelClockTypeCorrect == Spec => []TypeOK
<1>1. IndInv => TypeOK
  BY DEF IndInv
<1> QED
  BY <1>1, PixelClockInvariance, PTL

\* Whatever the reload value but 0 and 1, the clock has both levels in every
\* period, from the first one on; with these two it has one level only.
THEOREM ClockIsComplete == Spec => []ClockFromStart
<1>1. ASSUME IndInv, timer.running
      PROVE  ClockToggles <=> timer.arr \notin {0, 1}
  <2>1. /\ timer \in TimerType /\ timer.output /\ timer.ccr \in Nat /\ timer.arr \in Nat
        /\ timer.ccr <= timer.arr /\ (timer.ccr = 0 <=> timer.arr \in {0, 1})
        /\ timer.arr \in 0 .. TimerWord - 1
    BY <1>1, TypeParts DEF IndInv, TimerInv, TimerType
  <2>2. ASSUME NEW c \in 0 .. timer.arr
        PROVE  Level([timer EXCEPT !.cnt = c]) <=> c >= timer.ccr
    BY <2>1 DEF Level, TimerType
  <2>3. ClockToggles <=> \E low, high \in 0 .. timer.arr : ~(low >= timer.ccr) /\ high >= timer.ccr
    BY <2>2 DEF ClockToggles
  <2>4. (\E low, high \in 0 .. timer.arr : ~(low >= timer.ccr) /\ high >= timer.ccr)
          <=> timer.ccr # 0
    BY <2>1
  <2> QED
    BY <2>1, <2>3, <2>4
<1>2. IndInv => ClockFromStart
  BY <1>1 DEF ClockFromStart
<1> QED
  BY <1>2, PixelClockInvariance, PTL

\* However late the handler stops the timer, and wherever in a period it
\* restarts it, the panel gets every word once and in order, but for the last
\* one of a transfer, which it may get again.
THEOREM WordsInOrder == Spec => ClockedInOrder
<1> DEFINE InOrder == Tick /\ RisingEdge =>
                        \/ odr = FollowingWord(seen)
                        \/ odr = seen /\ (odr # None => odr[2] = Words - 1)
<1>1. IndInv => InOrder
  BY EdgeInOrder
<1>2. IndInv /\ [Next]_vars => [InOrder]_vars
  BY <1>1
<1> QED
  BY <1>2, PixelClockInvariance, PTL DEF Spec, ClockedInOrder
===============================================================================
