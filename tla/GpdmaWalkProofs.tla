---------------------------- MODULE GpdmaWalkProofs ----------------------------
(***************************************************************************)
(* The channel on either chain keeps in step with the plain backend's walk *)
(* through the segments, for every sequence of segments, item size, region *)
(* and place of the descriptor table.                                      *)
(***************************************************************************)
EXTENDS GpdmaWalk, GpdmaChainProofs

\* Segments that are not streamed add nothing to the sum.
LEMMA TotalsAcrossUnshown ==
  ASSUME NEW s \in SegmentLists, NEW i \in 0 .. Len(s), NEW j \in i .. Len(s),
         \A m \in i + 1 .. j : s[m].reps = 0
  PROVE  TotalUpTo(s)[j] = TotalUpTo(s)[i]
<1> DEFINE T == TotalUpTo(s)
           n == Len(s)
           S == {d \in Nat : i + d <= j => T[i + d] = T[i]}
<1>0. /\ n \in Nat /\ T \in [0 .. n -> Nat]
      /\ \A m \in 1 .. n : T[m] = T[m - 1] + s[m].reps
  BY SegmentListType, TotalUpToSums
<1> HIDE DEF T, n
<1>1. 0 \in S
  BY <1>0
<1>2. \A d \in Nat : d \in S => d + 1 \in S
  <2> SUFFICES ASSUME NEW d \in Nat, T[i + d] = T[i], i + (d + 1) <= j
               PROVE  T[i + (d + 1)] = T[i]
    BY <1>0 DEF n
  <2>1. i + (d + 1) \in i + 1 .. j /\ i + (d + 1) \in 1 .. n /\ i + d \in 0 .. n
    BY <1>0 DEF n
  <2>2. T[i + (d + 1)] = T[i + d] + s[i + (d + 1)].reps /\ (i + (d + 1)) - 1 = i + d
    BY <1>0, <2>1
  <2> QED
    BY <1>0, <2>1, <2>2
<1> HIDE DEF S
<1>3. Nat \subseteq S
  BY <1>1, <1>2, SetInduction
<1>4. j - i \in Nat /\ i + (j - i) = j /\ j <= j
  BY <1>0 DEF n
<1>5. PICK d \in Nat : i + d = j /\ i + d <= j
  BY <1>4
<1>6. d \in S
  BY <1>3
<1>7. T[j] = T[i]
  BY <1>5, <1>6 DEF S
<1> QED
  BY <1>7 DEF T

-------------------------------------------------------------------------------
\* What holds of every input.
LEMMA Inputs ==
  ASSUME IndInv
  PROVE  /\ segs \in SegmentLists /\ table \in Nat
         /\ Len(segs) \in Nat /\ DOMAIN segs = 1 .. Len(segs)
         /\ \A i \in 1 .. Len(segs) :
              /\ segs[i].ptr \in Nat /\ segs[i].len \in Nat /\ segs[i].reps \in Nat
              /\ WordSize = "TwoBytes" => segs[i].len % 2 = 0
         /\ ItemSize \in Nat \ {0}
         /\ \E i \in 1 .. Len(segs) : segs[i].reps > 0
<1>1. segs \in Layouts /\ table \in Nat
  BY WalkAssumption DEF IndInv
<1>2. segs \in SegmentLists
  BY <1>1, WalkAssumption DEF SegmentLists, Segment
<1>3. Len(segs) \in Nat /\ DOMAIN segs = 1 .. Len(segs)
  BY <1>2, SegmentListType
<1>4. \A i \in 1 .. Len(segs) : /\ segs[i].ptr \in Nat
                                /\ segs[i].len \in Nat
                                /\ segs[i].reps \in Nat
  BY <1>2, SegmentListType
<1>5. ItemSize \in Nat \ {0}
  BY ChainAssumption DEF ItemSize
<1> QED
  BY <1>1, <1>2, <1>3, <1>4, <1>5, WalkAssumption

\* The number of items.
Count == IF backend = "linear" THEN TotalReps(segs) ELSE Len(segs)

LEMMA CountType ==
  ASSUME IndInv
  PROVE  Count \in Nat \ {0}
<1>1. TotalReps(segs) \in Nat \ {0} /\ Len(segs) \in Nat \ {0}
  BY Inputs, TotalRepsType, TotalRepsPositive
<1> QED
  BY <1>1 DEF Count

\* What the sums make of the plain backend's place.
LEMMA StreamedType ==
  ASSUME IndInv, InStep
  PROVE  /\ Streamed \in 0 .. TotalReps(segs)
         /\ TotalUpTo(segs)[segment - 1] \in Nat
         /\ TotalUpTo(segs)[segment] = TotalUpTo(segs)[segment - 1] + segs[segment].reps
         /\ TotalUpTo(segs)[segment] <= TotalReps(segs)
         /\ segment \in Shown => Streamed < TotalUpTo(segs)[segment]
         /\ TotalReps(segs) \in Nat \ {0}
<1> DEFINE before == TotalUpTo(segs)[segment - 1]
           after == TotalUpTo(segs)[segment]
           total == TotalReps(segs)
           reps == segs[segment].reps
<1>1. /\ segs \in SegmentLists /\ Len(segs) \in Nat /\ DOMAIN segs = 1 .. Len(segs)
      /\ segment \in 1 .. Len(segs) /\ reps \in Nat
      /\ segment - 1 \in 0 .. Len(segs) /\ segment \in 0 .. Len(segs)
      /\ Len(segs) \in segment .. Len(segs)
  <2>1. /\ segs \in SegmentLists /\ Len(segs) \in Nat /\ DOMAIN segs = 1 .. Len(segs)
        /\ \A i \in 1 .. Len(segs) : segs[i].reps \in Nat
    BY Inputs
  <2>2. segment \in 1 .. Len(segs)
    BY <2>1 DEF InStep
  <2> QED
    BY <2>1, <2>2
<1>2. before \in Nat /\ after = before + reps
  BY <1>1, TotalUpToSums
<1>3. after <= total
  BY <1>1, TotalMonotone DEF TotalReps
<1>4. total \in Nat \ {0}
  BY Inputs, TotalRepsType, TotalRepsPositive
<1>5. Streamed = before + rep /\ rep \in Nat /\ (rep = 0 \/ rep < reps)
  BY DEF Streamed, InStep
<1>6. segment \in Shown <=> reps > 0
  BY <1>1 DEF Shown
<1> HIDE DEF before, after, total, reps
<1>7. Streamed \in 0 .. total /\ (reps > 0 => Streamed < after)
  BY <1>1, <1>2, <1>3, <1>4, <1>5
<1> QED
  BY <1>2, <1>3, <1>4, <1>6, <1>7 DEF before, after, total, reps

\* The item of a block that both stream.
LEMMA ItemAfterStreamed ==
  ASSUME IndInv, InStep, backend = "linear", segment \in Shown
  PROVE  ItemOfBlock = Streamed + 1
<1> DEFINE after == TotalUpTo(segs)[segment]
           total == TotalReps(segs)
<1>1. Streamed \in 0 .. total /\ total \in Nat /\ after <= total /\ Streamed < after
  BY StreamedType
<1>2. after \in Nat
  <2>1. segment \in 0 .. Len(segs) /\ segs \in SegmentLists
    BY Inputs DEF InStep
  <2> QED
    BY <2>1, TotalUpToSums
<1> HIDE DEF after, total
<1>3. Streamed # total
  BY <1>1, <1>2
<1> QED
  BY <1>3 DEF ItemOfBlock, total

\* The item of the block that the plain backend streams is an item of that
\* block's segment.
LEMMA ItemOfBlockFound ==
  ASSUME IndInv, InStep, segment \in Shown
  PROVE  /\ ItemOfBlock \in 1 .. Count
         /\ segment \in 1 .. Len(segs)
         /\ rep \in Nat /\ rep < segs[segment].reps
         /\ DOMAIN items = 1 .. Count
         /\ items[ItemOfBlock].sar = segs[segment].ptr
         /\ items[ItemOfBlock].words = Words(segs[segment].len)
         /\ items[ItemOfBlock].repeat = IF backend = "linear" THEN 0 ELSE segs[segment].reps - 1
         /\ items[ItemOfBlock].back = IF backend = "linear" THEN 0 ELSE -segs[segment].len
         /\ items[ItemOfBlock].tc = IsLast(ItemOfBlock, Count)
         /\ items[ItemOfBlock].link =
              ItemOffset(table, ItemSize,
                         IF IsLast(ItemOfBlock, Count) THEN 1 ELSE ItemOfBlock + 1)
<1>1. /\ segment \in 1 .. Len(segs) /\ segs[segment].reps \in Nat /\ segs[segment].reps > 0
      /\ rep \in Nat /\ rep < segs[segment].reps /\ rep <= segs[segment].reps - 1
      /\ Len(segs) \in Nat /\ DOMAIN segs = 1 .. Len(segs)
      /\ segs \in SegmentLists
  <2>1. segment \in 1 .. Len(segs) /\ segs[segment].reps \in Nat /\ segs[segment].reps > 0
    BY Inputs DEF Shown
  <2> QED
    BY <2>1, Inputs DEF InStep
<1>2. CASE backend = "linear"
  <2> DEFINE T == TotalUpTo(segs)
             k == ItemOfBlock
  <2>1. k = T[segment - 1] + rep + 1 /\ Count = TotalReps(segs)
    BY <1>1, <1>2, StreamedType, ItemAfterStreamed DEF Count, Streamed
  <2>2. k \in 1 .. TotalReps(segs) /\ T[segment - 1] < k /\ k <= T[segment]
    <3> DEFINE before == T[segment - 1]
               after == T[segment]
               total == TotalReps(segs)
    <3>1. /\ before \in Nat /\ after \in Nat /\ total \in Nat /\ rep \in Nat
          /\ k = before + rep + 1 /\ before + rep < after /\ after <= total
      BY <1>1, <2>1, StreamedType DEF Streamed
    <3> HIDE DEF T, k, before, after, total
    <3>2. k \in 1 .. total /\ before < k /\ k <= after
      BY <3>1
    <3> QED
      BY <3>2 DEF before, after, total
  <2>3. SegmentOfItem(segs, k) = segment
    BY <1>1, <2>2, ItemLocatedOnce
  <2>4. items = LinearItems(segs, table) /\ ItemSize = LinearItemSize
    BY <1>2 DEF InStep, Items, ItemSize
  <2> HIDE DEF k, T
  <2>5. DOMAIN items = 1 .. Count
        /\ items[k] = MkItem(segs[segment], 0, 0, table, LinearItemSize, k, Count)
    BY <2>1, <2>2, <2>3, <2>4 DEF LinearItems
  <2> QED
    BY <1>1, <1>2, <2>1, <2>2, <2>4, <2>5 DEF MkItem, k
<1>3. CASE backend # "linear"
  <2>1. items = TwoDItems(segs, table) /\ ItemSize = TwoDItemSize
        /\ ItemOfBlock = segment /\ Count = Len(segs)
    BY <1>3 DEF InStep, Items, ItemSize, ItemOfBlock, Count
  <2>2. DOMAIN items = 1 .. Count
        /\ items[segment] = MkItem(segs[segment], segs[segment].reps - 1, -segs[segment].len,
                                   table, TwoDItemSize, segment, Count)
    BY <1>1, <2>1 DEF TwoDItems
  <2> QED
    BY <1>1, <1>3, <2>1, <2>2 DEF MkItem
<1> QED
  BY <1>2, <1>3

\* Only one item is at an address.
LEMMA OneItemAt ==
  ASSUME IndInv, NEW k \in 1 .. Count, NEW l \in 1 .. Count,
         ItemAddress(table, ItemSize, k) = ItemAddress(table, ItemSize, l)
  PROVE  k = l
<1>1. k \in Nat \ {0} /\ l \in Nat \ {0} /\ table \in Nat /\ ItemSize \in Nat \ {0}
  BY Inputs, CountType
<1> QED
  BY <1>1, ItemIndex

\* A link of the chain leads to the item that it is for.
LEMMA LinksReach ==
  ASSUME IndInv, Fits, NEW k \in 1 .. Count
  PROVE  (table \div Region) * Region + ItemOffset(table, ItemSize, k)
           = ItemAddress(table, ItemSize, k)
<1>1. InOneRegion(table, ItemSize, Count)
  BY DEF Fits, LinearFits, TwoDFits, ItemSize, Count
<1> QED
  BY <1>1, Inputs, CountType, LinkReaches

-------------------------------------------------------------------------------
LEMMA InitIndInv == Init => IndInv
BY DEF Init, IndInv

\* The channel starts on the item of the first block.
LEMMA BuildIndInv ==
  ASSUME IndInv, Build
  PROVE  IndInv'
<1>1. /\ backend' = backend /\ segs' = segs /\ table' = table /\ ItemSize' = ItemSize
      /\ Fits /\ items' = Items /\ at' = table /\ again' = 0 /\ rep' = 0
      /\ segment' = 1 /\ phase' = "running"
  BY DEF Build, inputs, ItemSize
<1>2. /\ segs \in SegmentLists /\ Len(segs) \in Nat /\ DOMAIN segs = 1 .. Len(segs)
      /\ 1 \in 1 .. Len(segs) /\ TotalReps(segs) \in Nat \ {0}
  BY Inputs, TotalRepsType, TotalRepsPositive
<1>3. Streamed' = 0
  <2>1. TotalUpTo(segs)[0] = 0
    BY <1>2, TotalUpToSums
  <2> QED
    BY <1>1, <2>1 DEF Streamed
<1>4. ItemOfBlock' = 1
  BY <1>1, <1>2, <1>3 DEF ItemOfBlock
<1>5. ItemAddress(table, ItemSize, 1) = table
  BY Inputs DEF ItemAddress
<1>6. InStep'
  <2>1. Fits' /\ items' = Items'
    BY <1>1 DEF Fits, Items
  <2> QED
    BY <1>1, <1>2, <1>4, <1>5, <2>1 DEF InStep
<1> QED
  BY <1>1, <1>6 DEF IndInv

-------------------------------------------------------------------------------
\* The frame ends with the last item of the chain, and with no other.
LEMMA FrameEnds ==
  ASSUME IndInv, InStep, segment \in Shown
  PROVE  IsLast(ItemOfBlock, Count) /\ (backend = "linear" \/ RepsDone)
           <=> RepsDone /\ \A i \in segment + 1 .. Len(segs) : i \notin Shown
<1>0. (\A i \in segment + 1 .. Len(segs) : i \notin Shown) <=> \A i \in Shown : i <= segment
  <2> DEFINE n == Len(segs)
  <2>1. n \in Nat /\ segment \in 1 .. n /\ Shown \subseteq 1 .. n
    BY Inputs DEF Shown
  <2> HIDE DEF n
  <2>2. \A i \in 1 .. n : i \in segment + 1 .. n <=> ~(i <= segment)
    BY <2>1
  <2>3. segment + 1 .. n \subseteq 1 .. n
    BY <2>1
  <2> HIDE DEF Shown
  <2> QED
    BY <2>1, <2>2, <2>3 DEF n
<1>1. /\ segs \in SegmentLists /\ Len(segs) \in Nat /\ DOMAIN segs = 1 .. Len(segs)
      /\ segment \in 1 .. Len(segs) /\ rep \in Nat /\ rep < segs[segment].reps
      /\ \A m \in 1 .. Len(segs) : segs[m].reps \in Nat
  BY Inputs, ItemOfBlockFound
<1>2. CASE backend = "linear"
  <2> DEFINE T == TotalUpTo(segs)
  <2>1. ItemOfBlock = T[segment - 1] + rep + 1 /\ Count = T[Len(segs)]
    BY <1>1, <1>2, StreamedType, ItemAfterStreamed DEF Count, TotalReps, Streamed
  <2>2. /\ \A i \in 0 .. Len(segs) : T[i] \in Nat
        /\ \A i \in 1 .. Len(segs) : T[i] = T[i - 1] + segs[i].reps
    BY <1>1, TotalUpToSums
  <2>3. \A i \in 0 .. Len(segs) : \A j \in i .. Len(segs) : T[i] <= T[j]
    BY <1>1, TotalMonotone
  <2>4. ASSUME RepsDone, \A i \in Shown : i <= segment
        PROVE  IsLast(ItemOfBlock, Count)
    <3>1. \A m \in segment + 1 .. Len(segs) : segs[m].reps = 0
      BY <1>1, <2>4 DEF Shown
    <3>2. segment \in 0 .. Len(segs) /\ Len(segs) \in segment .. Len(segs)
      BY <1>1
    <3>3. T[Len(segs)] = T[segment]
      BY <1>1, <3>1, <3>2, TotalsAcrossUnshown
    <3> DEFINE before == T[segment - 1]
               reps == segs[segment].reps
    <3>4. T[Len(segs)] = before + reps
      BY <1>1, <2>2, <3>3
    <3>5. before \in Nat /\ reps \in Nat
      <4>1. segment - 1 \in 0 .. Len(segs)
        BY <1>1
      <4> QED
        BY <1>1, <2>2, <4>1
    <3>6. rep \in Nat /\ rep < reps /\ rep + 1 >= reps
      BY <1>1, <2>4 DEF RepsDone
    <3> HIDE DEF T, before, reps
    <3>7. before + rep + 1 = before + reps
      BY <3>5, <3>6
    <3> QED
      BY <2>1, <3>4, <3>7 DEF IsLast, before
  <2>5. ASSUME IsLast(ItemOfBlock, Count) PROVE RepsDone
    <3> HIDE DEF T
    <3>1. /\ T[segment] = T[segment - 1] + segs[segment].reps /\ T[segment] <= T[Len(segs)]
          /\ T[segment - 1] \in Nat
      BY <1>1, <2>2, <2>3
    <3> QED
      BY <1>1, <2>1, <2>5, <3>1 DEF IsLast, RepsDone
  <2>6. ASSUME IsLast(ItemOfBlock, Count), NEW i \in Shown, ~(i <= segment) PROVE FALSE
    <3>1. i \in 1 .. Len(segs) /\ segs[i].reps > 0 /\ i - 1 \in segment .. Len(segs)
          /\ i - 1 \in 0 .. Len(segs) /\ segment - 1 \in 0 .. Len(segs)
          /\ segment \in 0 .. Len(segs) /\ Len(segs) \in i .. Len(segs) /\ i \in 0 .. Len(segs)
      BY <1>1, <2>6 DEF Shown
    <3> HIDE DEF T
    <3>2. /\ T[segment] <= T[i - 1] /\ T[i] = T[i - 1] + segs[i].reps /\ T[i] <= T[Len(segs)]
          /\ T[segment] = T[segment - 1] + segs[segment].reps
          /\ T[segment - 1] \in Nat /\ T[i - 1] \in Nat /\ T[Len(segs)] \in Nat
          /\ T[segment] \in Nat
      <4>1. T[segment] <= T[i - 1] /\ T[i] <= T[Len(segs)]
        BY <2>3, <3>1
      <4>2. T[i] = T[i - 1] + segs[i].reps /\ T[segment] = T[segment - 1] + segs[segment].reps
        BY <1>1, <2>2, <3>1
      <4>3. /\ T[segment - 1] \in Nat /\ T[i - 1] \in Nat /\ T[segment] \in Nat
            /\ T[Len(segs)] \in Nat
        <5>1. Len(segs) \in 0 .. Len(segs)
          BY <1>1
        <5> QED
          BY <2>2, <3>1, <5>1
      <4> QED
        BY <4>1, <4>2, <4>3
    <3> DEFINE before == T[segment - 1]
               total == T[Len(segs)]
               between == T[i - 1]
               reps == segs[segment].reps
               more == segs[i].reps
    <3>3. before + rep + 1 = total
      BY <2>1, <2>6 DEF IsLast
    <3>4. before + reps <= between /\ between + more <= total
      BY <3>2
    <3>5. /\ reps \in Nat /\ more \in Nat /\ before \in Nat /\ between \in Nat
          /\ total \in Nat /\ rep \in Nat /\ rep < reps /\ more > 0
      BY <1>1, <3>1, <3>2
    <3> HIDE DEF before, total, between, reps, more
    <3> QED
      BY <3>3, <3>4, <3>5
  <2> QED
    BY <1>0, <1>2, <2>4, <2>5, <2>6
<1>3. CASE backend # "linear"
  <2>1. Shown = 1 .. Len(segs)
    BY <1>1, <1>3 DEF InStep, Fits, TwoDFits, Shown
  <2>2. (\A i \in Shown : i <= segment) <=> segment = Len(segs)
    <3> DEFINE n == Len(segs)
    <3>1. n \in Nat /\ segment \in 1 .. n
      BY <1>1, <2>1
    <3> HIDE DEF n
    <3>2. (\A i \in 1 .. n : i <= segment) <=> segment = n
      BY ONLY <3>1
    <3> QED
      BY <2>1, <3>2 DEF n
  <2>3. ItemOfBlock = segment /\ Count = Len(segs)
    BY <1>3 DEF ItemOfBlock, Count
  <2> QED
    BY <1>0, <1>3, <2>2, <2>3 DEF IsLast
<1> QED
  BY <1>2, <1>3

-------------------------------------------------------------------------------
\* How advance() goes on from the sums.
LEMMA StreamedAdvances ==
  ASSUME IndInv, InStep, Advance, segs' = segs
  PROVE  LET shown == IF segment \in Shown THEN 1 ELSE 0
         IN  /\ Streamed + shown \in 0 .. TotalReps(segs)
             /\ IF FrameBoundary THEN Streamed' = 0 /\ Streamed + shown = TotalReps(segs)
                ELSE Streamed' = Streamed + shown
<1> DEFINE shown == IF segment \in Shown THEN 1 ELSE 0
           before == TotalUpTo(segs)[segment - 1]
           after == TotalUpTo(segs)[segment]
           total == TotalReps(segs)
           reps == segs[segment].reps
<1>1. /\ segs \in SegmentLists /\ Len(segs) \in Nat /\ segment \in 1 .. Len(segs)
      /\ reps \in Nat /\ (segment \in Shown <=> reps > 0)
      /\ rep \in Nat /\ (rep = 0 \/ rep < reps)
  BY Inputs DEF InStep, Shown
<1>2. /\ before \in Nat /\ after = before + reps /\ after <= total /\ total \in Nat
      /\ Streamed = before + rep
  BY StreamedType DEF Streamed
<1>3. segment = Len(segs) => after = total
  BY DEF TotalReps
<1>4. TotalUpTo(segs)[0] = 0
  BY <1>1, TotalUpToSums
<1>5. RepsDone <=> rep + 1 >= reps
  BY DEF RepsDone
<1>6. shown \in {0, 1} /\ (shown = 1 <=> reps > 0)
  BY <1>1
<1>7. FrameBoundary => segment = Len(segs) /\ RepsDone /\ segment' = 1 /\ rep' = 0
  BY <1>1 DEF FrameBoundary, Advance
<1>8. RepsDone /\ ~FrameBoundary => segment' = segment + 1 /\ rep' = 0
  BY DEF Advance
<1>9. ~RepsDone => ~FrameBoundary /\ segment' = segment /\ rep' = rep + 1
  BY DEF Advance, FrameBoundary
<1>10. Streamed' = TotalUpTo(segs)[segment' - 1] + rep'
  BY DEF Streamed
<1>11. FrameBoundary => Streamed' = 0
  BY <1>4, <1>7, <1>10
<1>12. RepsDone /\ ~FrameBoundary => Streamed' = after
  <2>1. (segment + 1) - 1 = segment
    BY <1>1
  <2>2. SUFFICES ASSUME RepsDone, ~FrameBoundary PROVE Streamed' = after
    OBVIOUS
  <2>3. segment' - 1 = segment /\ rep' = 0
    BY <1>8, <2>1, <2>2
  <2>4. Streamed' = TotalUpTo(segs)[segment] + 0
    BY <1>10, <2>3
  <2>5. after \in Nat
    BY <1>1, <1>2
  <2> QED
    BY <2>4, <2>5
<1>13. ~RepsDone => Streamed' = before + (rep + 1)
  BY <1>9, <1>10
<1> HIDE DEF shown, before, after, total, reps
<1>14. RepsDone => before + rep + shown = after
  BY <1>1, <1>2, <1>5, <1>6
<1>15. ~RepsDone => shown = 1 /\ before + rep + shown <= after
  BY <1>1, <1>2, <1>5, <1>6
<1>16. Streamed + shown \in 0 .. total
  BY <1>1, <1>2, <1>6, <1>14, <1>15
<1>17. FrameBoundary => Streamed' = 0 /\ Streamed + shown = total
  BY <1>2, <1>3, <1>7, <1>11, <1>14
<1>18. ~FrameBoundary => Streamed' = Streamed + shown
  BY <1>1, <1>2, <1>9, <1>12, <1>13, <1>14, <1>15
<1> QED
  BY <1>16, <1>17, <1>18 DEF shown, total

\* The plain backend's place is one in the segments.
LEMMA PlaceAfter ==
  ASSUME IndInv, InStep, Advance, segs' = segs
  PROVE  segment' \in DOMAIN segs' /\ rep' \in Nat /\ (rep' = 0 \/ rep' < segs'[segment'].reps)
<1>1. /\ Len(segs) \in Nat /\ DOMAIN segs = 1 .. Len(segs)
      /\ segment \in 1 .. Len(segs) /\ segs[segment].reps \in Nat /\ rep \in Nat
  BY Inputs DEF InStep
<1>2. segment' \in 1 .. Len(segs)
  BY <1>1 DEF Advance, FrameBoundary
<1>3. CASE RepsDone
  BY <1>1, <1>2, <1>3 DEF Advance
<1>4. CASE ~RepsDone
  BY <1>1, <1>2, <1>4 DEF Advance, RepsDone, FrameBoundary
<1> QED
  BY <1>3, <1>4

\* Whether the block is repeated, its descriptor is duplicated or the segment
\* has been streamed its last time, the two go on in step.
LEMMA NextBlockIndInv ==
  ASSUME IndInv, NextBlock
  PROVE  IndInv'
<1>1. /\ backend' = backend /\ segs' = segs /\ table' = table /\ ItemSize' = ItemSize
      /\ items' = items /\ phase = "running" /\ phase' = "running" /\ InStep /\ Fits
      /\ segment \in Shown /\ Advance
  BY DEF NextBlock, inputs, ItemSize, IndInv, InStep
<1> DEFINE b == ItemOfBlock
           next == IF IsLast(b, Count) THEN 1 ELSE b + 1
<1>2. /\ b \in 1 .. Count /\ Count \in Nat \ {0} /\ DOMAIN items = 1 .. Count
      /\ segment \in 1 .. Len(segs) /\ rep \in Nat /\ rep < segs[segment].reps
      /\ segs[segment].reps \in Nat
      /\ items[b].repeat = IF backend = "linear" THEN 0 ELSE segs[segment].reps - 1
      /\ items[b].link = ItemOffset(table, ItemSize, next)
      /\ at = ItemAddress(table, ItemSize, b)
      /\ again = IF backend = "linear" THEN 0 ELSE rep
  BY <1>1, CountType, ItemOfBlockFound, Inputs DEF InStep
<1>3. ChannelAdvances(b)
  <2>1. PICK k \in 1 .. Count : ChannelAdvances(k)
    BY <1>2 DEF NextBlock
  <2>2. ItemAddress(table, ItemSize, k) = ItemAddress(table, ItemSize, b)
    BY <1>2, <2>1 DEF ChannelAdvances
  <2>3. k = b
    BY <1>2, <2>2, OneItemAt
  <2> QED
    BY <2>1, <2>3
<1>4. LinkTarget(table, items[b]) = ItemAddress(table, ItemSize, next)
  <2>1. next \in 1 .. Count
    BY <1>2 DEF IsLast
  <2> HIDE DEF next
  <2> QED
    BY <1>1, <1>2, <2>1, LinksReach DEF LinkTarget
<1>5. /\ at' = ItemAddress(table, ItemSize, ItemOfBlock')
      /\ again' = IF backend = "linear" THEN 0 ELSE rep'
  <2>1. CASE backend = "linear"
    <3>1. b = Streamed + 1 /\ Count = TotalReps(segs) /\ TotalReps(segs) \in Nat \ {0}
          /\ Streamed \in Nat
      BY <1>1, <2>1, ItemAfterStreamed, StreamedType DEF Count
    <3>2. IF FrameBoundary THEN Streamed' = 0 /\ b = Count ELSE Streamed' = b
      BY <1>1, <3>1, StreamedAdvances
    <3>3. ItemOfBlock' = IF Streamed' = Count THEN 1 ELSE Streamed' + 1
      BY <1>1, <2>1, <3>1 DEF ItemOfBlock
    <3>4. ItemOfBlock' = next
      BY <3>1, <3>2, <3>3 DEF IsLast
    <3> HIDE DEF b, next
    <3>5. at' = ItemAddress(table, ItemSize, next) /\ again' = 0
      BY <1>2, <1>3, <1>4, <2>1 DEF ChannelAdvances
    <3> QED
      BY <2>1, <3>4, <3>5
  <2>2. CASE backend # "linear"
    <3>1. b = segment /\ Count = Len(segs) /\ ItemOfBlock' = segment'
      BY <1>1, <2>2 DEF ItemOfBlock, Count
    <3>2. CASE RepsDone
      <4>1. segment' = next /\ rep' = 0
        BY <1>1, <1>2, <3>1, <3>2 DEF Advance, FrameBoundary, IsLast
      <4> HIDE DEF b, next
      <4>2. ~(again < items[b].repeat)
        BY <1>2, <2>2, <3>2 DEF RepsDone
      <4>3. at' = ItemAddress(table, ItemSize, next) /\ again' = 0
        BY <1>3, <1>4, <4>2 DEF ChannelAdvances
      <4> QED
        BY <2>2, <3>1, <4>1, <4>3
    <3>3. CASE ~RepsDone
      <4>1. segment' = segment /\ rep' = rep + 1 /\ rep + 1 < segs[segment].reps
        BY <1>1, <1>2, <3>3 DEF Advance, FrameBoundary, RepsDone
      <4> HIDE DEF b, next
      <4>2. again < items[b].repeat
        BY <1>2, <2>2, <4>1
      <4>3. at' = at /\ again' = rep + 1
        BY <1>2, <1>3, <2>2, <4>2 DEF ChannelAdvances
      <4> QED
        BY <1>2, <2>2, <3>1, <4>1, <4>3
    <3> QED
      BY <3>2, <3>3
  <2> QED
    BY <2>1, <2>2
<1>6. InStep'
  <2>1. Fits' /\ items' = Items'
    BY <1>1 DEF Fits, Items, InStep
  <2> QED
    BY <1>1, <1>5, <2>1, PlaceAfter DEF InStep
<1> QED
  BY <1>1, <1>6 DEF IndInv

\* A segment without repetitions is between two items, or between the last one
\* and the first one.
LEMMA ExtraBlockIndInv ==
  ASSUME IndInv, ExtraBlock
  PROVE  IndInv'
<1>1. /\ backend' = backend /\ segs' = segs /\ table' = table /\ ItemSize' = ItemSize
      /\ items' = items /\ at' = at /\ again' = again
      /\ phase = "running" /\ phase' = "running" /\ InStep /\ Fits
      /\ segment \notin Shown /\ Advance
  BY DEF ExtraBlock, inputs, ItemSize, IndInv, InStep
<1>2. backend = "linear"
  <2>1. segment \in DOMAIN segs /\ ~(segs[segment].reps > 0)
    BY <1>1 DEF InStep, Shown
  <2> QED
    BY <1>1, <2>1 DEF Fits, TwoDFits
<1>3. ItemOfBlock' = ItemOfBlock
  <2>1. Streamed \in Nat /\ TotalReps(segs) \in Nat \ {0}
    BY <1>1, StreamedType
  <2>2. IF FrameBoundary THEN Streamed' = 0 /\ Streamed = TotalReps(segs)
        ELSE Streamed' = Streamed
    BY <1>1, <2>1, StreamedAdvances
  <2> QED
    BY <1>1, <1>2, <2>1, <2>2 DEF ItemOfBlock
<1>4. InStep'
  <2>1. Fits' /\ items' = Items'
    BY <1>1 DEF Fits, Items, InStep
  <2>2. at' = ItemAddress(table', ItemSize', ItemOfBlock') /\ again' = 0
    BY <1>1, <1>2, <1>3 DEF InStep
  <2> QED
    BY <1>1, <1>2, <2>1, <2>2, PlaceAfter DEF InStep
<1> QED
  BY <1>1, <1>4 DEF IndInv

LEMMA NextIndInv == IndInv /\ [Next]_vars => IndInv'
<1> SUFFICES ASSUME IndInv, [Next]_vars PROVE IndInv'
  OBVIOUS
<1>1. CASE Build
  BY <1>1, BuildIndInv
<1>2. CASE Panic
  BY <1>2 DEF Panic, IndInv, inputs, Fits
<1>3. CASE NextBlock
  BY <1>3, NextBlockIndInv
<1>4. CASE ExtraBlock
  BY <1>4, ExtraBlockIndInv
<1>5. CASE UNCHANGED vars
  BY <1>5 DEF vars, inputs, IndInv, InStep, Fits, Items, ItemSize, ItemOfBlock, Streamed
<1> QED
  BY <1>1, <1>2, <1>3, <1>4, <1>5 DEF Next

-------------------------------------------------------------------------------
\* The channel's place in the chain follows from the plain backend's place in
\* the segments, in every round.
THEOREM WalksInStep == Spec => []IndInv
BY InitIndInv, NextIndInv, PTL DEF Spec

\* Block after block, either chain streams what the plain backend streams of
\* the segments that have repetitions.
THEOREM ChainStreamsTheFrame == Spec => []StreamsTheFrame
<1>1. ASSUME IndInv, InStep, segment \in Shown
      PROVE  \E k \in DOMAIN items :
               /\ at = ItemAddress(table, ItemSize, k)
               /\ BlockStart(items[k], again) = segs[segment].ptr
               /\ items[k].words = Words(segs[segment].len)
  <2> DEFINE item == items[ItemOfBlock]
             len == segs[segment].len
             ptr == segs[segment].ptr
  <2>1. /\ ItemOfBlock \in DOMAIN items /\ segment \in 1 .. Len(segs) /\ rep \in Nat
        /\ item.sar = ptr /\ item.words = Words(len)
        /\ item.back = IF backend = "linear" THEN 0 ELSE -len
        /\ again = IF backend = "linear" THEN 0 ELSE rep
        /\ at = ItemAddress(table, ItemSize, ItemOfBlock)
    BY <1>1, ItemOfBlockFound DEF InStep
  <2>2. ptr \in Nat /\ len \in Nat /\ (WordSize = "TwoBytes" => len % 2 = 0)
    BY <1>1, <2>1, Inputs
  <2>3. Words(len) * WordBytes = len
    BY <2>2, WordsCoverBytes
  <2>4. BlockStart(item, again) = ptr + again * (len + item.back)
    BY <2>1, <2>3 DEF BlockStart
  <2> HIDE DEF item, len, ptr
  <2>5. ptr + again * (len + item.back) = ptr
    <3>1. CASE backend = "linear"
      <4>1. again = 0 /\ item.back = 0
        BY <2>1, <3>1
      <4> QED
        BY <2>2, <4>1
    <3>2. CASE backend # "linear"
      <4>1. again \in Nat /\ len + item.back = 0
        BY <2>1, <2>2, <3>2
      <4> QED
        BY <2>2, <4>1
    <3> QED
      BY <3>1, <3>2
  <2> QED
    BY <2>1, <2>4, <2>5 DEF item, len, ptr
<1>2. IndInv => StreamsTheFrame
  BY <1>1 DEF StreamsTheFrame, IndInv
<1> QED
  BY <1>2, WalksInStep, PTL

\* The channel interrupts where the plain backend's frame ends, but for
\* segments without repetitions, and only there.
THEOREM ChainInterruptsPerFrame == Spec => []OneInterruptPerFrame
<1>1. ASSUME IndInv, InStep, segment \in Shown,
             NEW k \in DOMAIN items, at = ItemAddress(table, ItemSize, k)
      PROVE  items[k].tc /\ again = items[k].repeat
               <=> RepsDone /\ \A i \in segment + 1 .. Len(segs) : i \notin Shown
  <2>1. /\ ItemOfBlock \in 1 .. Count /\ DOMAIN items = 1 .. Count
        /\ at = ItemAddress(table, ItemSize, ItemOfBlock)
        /\ rep \in Nat /\ rep < segs[segment].reps
        /\ again = IF backend = "linear" THEN 0 ELSE rep
        /\ items[ItemOfBlock].repeat = IF backend = "linear" THEN 0 ELSE segs[segment].reps - 1
        /\ segs[segment].reps \in Nat
    BY <1>1, ItemOfBlockFound, Inputs DEF InStep
  <2>2. k = ItemOfBlock
    BY <1>1, <2>1, OneItemAt
  <2>3. items[ItemOfBlock].tc = IsLast(ItemOfBlock, Count)
    BY <1>1, ItemOfBlockFound
  <2>4. again = items[ItemOfBlock].repeat <=> backend = "linear" \/ RepsDone
    BY <2>1 DEF RepsDone
  <2> QED
    BY <1>1, <2>2, <2>3, <2>4, FrameEnds
<1>2. IndInv => OneInterruptPerFrame
  BY <1>1 DEF OneInterruptPerFrame, IndInv
<1> QED
  BY <1>2, WalksInStep, PTL

\* A builder that panics had too much to describe, or a table that no channel
\* could walk.
THEOREM PanicsWhereUnreachable == Spec => []RefusesOnlyUnreachable
<1> DEFINE n == Count
<1>1. ASSUME IndInv, ~Fits,
             Len(segs) <= MaxSegments,
             backend = "linear" => n <= MaxDescriptors,
             backend = "2D" => \A i \in DOMAIN segs : segs[i].reps \in 1 .. MaxReps,
             \A k \in 1 .. n : \A byte \in 0 .. ItemSize - 1 :
               (ItemAddress(table, ItemSize, k) + byte) \div Region = table \div Region
      PROVE  FALSE
  <2>1. n \in Nat \ {0} /\ ItemSize \in Nat \ {0} /\ table \in Nat
    BY <1>1, CountType, Inputs
  <2>2. (ItemAddress(table, ItemSize, n) + (ItemSize - 1)) \div Region = table \div Region
    BY <1>1, <2>1
  <2>3. ItemAddress(table, ItemSize, n) + (ItemSize - 1) = table + ItemSize * n - 1
    BY <2>1 DEF ItemAddress
  <2>4. InOneRegion(table, ItemSize, n)
    BY <2>2, <2>3 DEF InOneRegion
  <2>5. Len(segs) \in 1 .. MaxSegments /\ backend \in Backends
    <3>1. Len(segs) \in Nat \ {0}
      BY <1>1, Inputs
    <3> QED
      BY <1>1, <3>1 DEF IndInv
  <2> QED
    BY <1>1, <2>4, <2>5 DEF Fits, LinearFits, TwoDFits, ItemSize, Count, Backends
<1>2. ASSUME IndInv, phase = "panic" PROVE RefusesOnlyUnreachable
  <2>1. n \in Nat /\ Len(segs) \in Nat
    BY <1>2, CountType, Inputs
  <2> QED
    BY <1>1, <1>2, <2>1, ChainAssumption, CapacityAssumption
    DEF RefusesOnlyUnreachable, IndInv, Count
<1>3. IndInv => RefusesOnlyUnreachable
  BY <1>2 DEF RefusesOnlyUnreachable
<1> QED
  BY <1>3, WalksInStep, PTL

===============================================================================
