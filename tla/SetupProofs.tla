------------------------------ MODULE SetupProofs ------------------------------
(***************************************************************************)
(* Validation and configuration of the pins, for every number of ports and *)
(* both kinds of group at every size.                                      *)
(***************************************************************************)
EXTENDS Setup, WellFoundedInduction, TLAPS

LEMMA SmallestIsFound ==
  ASSUME NEW S, S \subseteq Nat, S # {}
  PROVE  Min(S) \in S /\ \A x \in S : Min(S) <= x
<1> DEFINE R == OpToRel(<, Nat)
<1>1. IsWellFoundedOn(R, Nat)
  BY NatLessThanWellFounded, Zenon
<1>2. PICK m \in S : \A x \in S : ~(<<x, m>> \in R)
  BY <1>1, WFMin, Zenon
<1>3. ASSUME NEW x \in S, ~(m <= x) PROVE FALSE
  <2>1. x \in Nat /\ m \in Nat /\ x < m
    BY <1>3
  <2> QED
    BY <1>2, <2>1 DEF OpToRel
<1> HIDE DEF R
<1>4. \E y \in S : \A x \in S : y <= x
  BY <1>3
<1> QED
  BY <1>4 DEF Min

-------------------------------------------------------------------------------
\* The kind of group, its size and its port.
LEMMA KindParts ==
  ASSUME NEW k \in Kinds
  PROVE  /\ GroupSize[k] \in Nat \ {0}
         /\ PortSize(k) \in {GroupSize[k], 2 * GroupSize[k]}
         /\ k = "Hub75Pins8" => PortSize(k) = 2 * GroupSize[k]
         /\ k # "Hub75Pins8" => PortSize(k) = GroupSize[k]
BY SetupAssumption DEF PortSize

\* A list of pins, pin by pin.
LEMMA PinParts ==
  ASSUME TypeOK
  PROVE  /\ kind \in Kinds
         /\ 0 \in Indices(kind)
         /\ \A i \in Indices(kind) :
              /\ i \in Nat /\ pins[i] \in AnyPin(kind)
              /\ pins[i].port \in Ports /\ pins[i].pin \in Nat /\ pins[i].pin < PortSize(kind)
              /\ pins[i] = [port |-> pins[i].port, pin |-> pins[i].pin]
<1>1. kind \in Kinds /\ GroupSize[kind] \in Nat \ {0} /\ PortSize(kind) \in Nat
  BY KindParts DEF TypeOK
<1>2. \A i \in Indices(kind) : i \in Nat /\ pins[i] \in AnyPin(kind)
  BY <1>1 DEF TypeOK, Indices
<1> QED
  BY <1>1, <1>2 DEF Indices, AnyPin

\* The first n pins can be driven if they follow one another from a place
\* where the group may start, and not otherwise.
LEMMA InOrderIsDrivable ==
  ASSUME TypeOK, pins[0].pin \in FirstPins, NEW n \in 0 .. GroupSize[kind],
         \A i \in 0 .. n - 1 : ~OffPort(i) /\ ~OutOfOrder(i)
  PROVE  /\ Drivable(n)
         /\ \A i \in 0 .. n - 1 : pins[i] = PinAt(OdrOffset, i)
<1>1. /\ kind \in Kinds /\ GroupSize[kind] \in Nat \ {0}
      /\ pins[0].pin \in Nat /\ pins[0].pin < PortSize(kind)
  BY PinParts, KindParts DEF TypeOK
<1>2. /\ OdrOffset \in 0 .. 1
      /\ OdrOffset * GroupSize[kind] = pins[0].pin
  BY <1>1 DEF FirstPins, OdrOffset
<1>3. ASSUME NEW i \in 0 .. n - 1 PROVE pins[i] = PinAt(OdrOffset, i)
  <2>1. i \in Indices(kind)
    BY <1>1 DEF Indices
  <2>2. pins[i].port = pins[0].port /\ pins[i].pin = pins[0].pin + i
    BY <1>3 DEF OffPort, OutOfOrder
  <2> QED
    BY <1>2, <2>1, <2>2, PinParts DEF PinAt
<1>4. OdrOffset * GroupSize[kind] < PortSize(kind)
  BY <1>1, <1>2
<1> QED
  BY <1>2, <1>3, <1>4 DEF Drivable

LEMMA DrivableIsInOrder ==
  ASSUME TypeOK, NEW n \in 1 .. GroupSize[kind], Drivable(n)
  PROVE  /\ pins[0].pin \in FirstPins
         /\ \A i \in 0 .. n - 1 : ~OffPort(i) /\ ~OutOfOrder(i)
<1>1. kind \in Kinds /\ GroupSize[kind] \in Nat \ {0}
  BY PinParts, KindParts
<1>2. PICK o \in 0 .. 1 : \A k \in 0 .. n - 1 :
        o * GroupSize[kind] < PortSize(kind) /\ pins[k] = PinAt(o, k)
  BY DEF Drivable
<1>3. ASSUME NEW k \in 0 .. n - 1
      PROVE  pins[k].port = pins[0].port /\ pins[k].pin = o * GroupSize[kind] + k
  <2> DEFINE number == o * GroupSize[kind] + k
  <2>1. pins[k] = [port |-> pins[0].port, pin |-> number]
    BY <1>2 DEF PinAt
  <2> HIDE DEF number
  <2>2. pins[k].port = pins[0].port /\ pins[k].pin = number
    BY <2>1
  <2> QED
    BY <2>2 DEF number
<1>4. 0 \in 0 .. n - 1 /\ o * GroupSize[kind] < PortSize(kind)
  BY <1>2
<1>5. pins[0].pin = o * GroupSize[kind]
  BY <1>1, <1>3, <1>4
<1>6. pins[0].pin \in FirstPins
  BY <1>1, <1>4, <1>5, KindParts DEF FirstPins, Kinds
<1> QED
  BY <1>1, <1>3, <1>5, <1>6 DEF OffPort, OutOfOrder

-------------------------------------------------------------------------------
LEMMA InitIndInv == Init => IndInv
<1> SUFFICES ASSUME Init PROVE IndInv
  OBVIOUS
<1>1. pins \in [Indices(kind) -> AnyPin(kind)] /\ GroupSize[kind] \in Nat \ {0}
  BY SetupAssumption DEF Init, PinLists
<1>2. TypeOK
  BY <1>1 DEF Init, TypeOK, NoResult, Group
<1>3. OrderInv
  BY DEF Init, OrderInv
<1>4. ConfigureInv /\ BlankInv
  BY <1>1, SetupAssumption DEF Init, ConfigureInv, BlankInv, BlankIndex
<1>5. AcceptsDrivable /\ ErrorAtFirstFault
  BY DEF Init, AcceptsDrivable, ErrorAtFirstFault, NoResult
<1> QED
  BY <1>2, <1>3, <1>4, <1>5 DEF IndInv, Init

-------------------------------------------------------------------------------
\* What an accepted group has in common with its validation.
LEMMA AcceptIndInv ==
  ASSUME IndInv, New, Accept
  PROVE  IndInv'
<1>1. /\ TypeOK /\ kind' = kind /\ pins' = pins /\ next' = next
      /\ outputs' = outputs /\ high' = high
      /\ pc = "new" /\ pc' = "level" /\ result' = Okay
      /\ next = 0 /\ outputs = {pins[i] : i \in 0 .. next - 1}
  BY DEF IndInv, New, Accept, ConfigureInv
<1>2. kind \in Kinds /\ GroupSize[kind] \in Nat \ {0}
  BY <1>1, PinParts, KindParts
<1>3. Okay # NoResult /\ Okay.tag = "Ok"
  BY DEF Okay, NoResult
<1>4. Drivable(GroupSize[kind]) /\ \A i \in Indices(kind) : pins[i] = PinAt(OdrOffset, i)
  <2>1. \A i \in 0 .. GroupSize[kind] - 1 : ~OffPort(i) /\ ~OutOfOrder(i)
    BY DEF Accept, FaultyPins, Indices
  <2>2. GroupSize[kind] \in 0 .. GroupSize[kind]
    BY <1>2
  <2> QED
    BY <1>1, <2>1, <2>2, InOrderIsDrivable DEF Accept, Indices
<1>5. TypeOK'
  BY <1>1, <1>3 DEF TypeOK, Group
<1>6. OrderInv'
  BY <1>1, <1>3, <1>4 DEF OrderInv, PinAt, OdrOffset
<1>7. ConfigureInv'
  BY <1>1, <1>2 DEF ConfigureInv
<1>8. BlankInv'
  <2>1. BlankIndex \in Nat
    BY SetupAssumption DEF BlankIndex, Kinds
  <2> QED
    BY <1>1, <2>1 DEF BlankInv
<1>9. AcceptsDrivable' /\ ErrorAtFirstFault'
  <2>1. Drivable(GroupSize[kind])'
    BY <1>1, <1>4 DEF Drivable, PinAt
  <2> QED
    BY <1>1, <1>3, <2>1 DEF AcceptsDrivable, ErrorAtFirstFault
<1> QED
  BY <1>1, <1>5, <1>6, <1>7, <1>8, <1>9 DEF IndInv

\* A rejection leaves everything but the answer as it was.
LEMMA RejectIndInv ==
  ASSUME IndInv, New, pc' = "rejected",
         result'.tag \in {"PinNotOnSamePort", "PinsNotConsecutive"},
         ~Drivable(GroupSize[kind]), ErrorAtFirstFault'
  PROVE  IndInv'
<1>1. /\ TypeOK /\ kind' = kind /\ pins' = pins /\ next' = next
      /\ outputs' = outputs /\ high' = high /\ pc = "new"
      /\ next = 0 /\ outputs = {pins[i] : i \in 0 .. next - 1}
  BY DEF IndInv, New, ConfigureInv
<1>2. result' # NoResult /\ result' # Okay
  BY DEF NoResult, Okay
<1>3. TypeOK'
  BY <1>1 DEF TypeOK, Group
<1>4. OrderInv' /\ ConfigureInv'
  BY <1>1, <1>2 DEF OrderInv, ConfigureInv
<1>5. BlankInv'
  <2>1. BlankIndex \in Nat
    BY SetupAssumption DEF BlankIndex, Kinds
  <2> QED
    BY <1>1, <2>1 DEF BlankInv
<1>6. AcceptsDrivable'
  <2>1. ~Drivable(GroupSize[kind])'
    BY <1>1 DEF Drivable, PinAt
  <2> QED
    BY <1>1, <1>2, <2>1 DEF AcceptsDrivable
<1> QED
  BY <1>1, <1>3, <1>4, <1>5, <1>6 DEF IndInv

LEMMA RejectStartIndInv ==
  ASSUME IndInv, New, RejectStart
  PROVE  IndInv'
<1>1. /\ TypeOK /\ kind' = kind /\ pins' = pins /\ pc' = "rejected"
      /\ result' = PinsNotConsecutive(0, 0, pins[0].pin)
  BY DEF IndInv, New, RejectStart
<1>2. kind \in Kinds /\ GroupSize[kind] \in Nat \ {0} /\ 0 \in Indices(kind)
  BY <1>1, PinParts, KindParts
<1>3. \A n \in 1 .. GroupSize[kind] : ~Drivable(n)
  BY <1>1, DrivableIsInOrder DEF RejectStart
<1>4. /\ result'.tag = "PinsNotConsecutive" /\ result'.index = 0
      /\ result'.expected = 0 /\ result'.actual = pins[0].pin
  BY <1>1 DEF PinsNotConsecutive
<1>5. ErrorAtFirstFault'
  <2>1. Drivable(0)'
    BY DEF Drivable
  <2>2. ~Drivable(0 + 1)'
    BY <1>1, <1>2, <1>3 DEF Drivable, PinAt
  <2>3. pins[0].pin # 0
    BY <1>2 DEF RejectStart, FirstPins
  <2> QED
    BY <1>1, <1>4, <2>1, <2>2, <2>3 DEF ErrorAtFirstFault
<1> QED
  BY <1>1, <1>2, <1>3, <1>4, <1>5, RejectIndInv

LEMMA RejectPinIndInv ==
  ASSUME IndInv, New, RejectPin
  PROVE  IndInv'
<1> PICK i : /\ i = Min(FaultyPins)
             /\ result' = IF OffPort(i) THEN PinNotOnSamePort(i)
                          ELSE PinsNotConsecutive(i, pins[0].pin + i, pins[i].pin)
  BY DEF RejectPin
<1>1. /\ TypeOK /\ kind' = kind /\ pins' = pins /\ pc' = "rejected"
      /\ pins[0].pin \in FirstPins
  BY DEF IndInv, New, RejectPin
<1>2. kind \in Kinds /\ GroupSize[kind] \in Nat \ {0} /\ 0 \in Indices(kind)
  BY <1>1, PinParts, KindParts
<1>3. i \in FaultyPins /\ \A j \in FaultyPins : i <= j
  <2>1. FaultyPins \subseteq Nat /\ FaultyPins # {}
    BY <1>2 DEF RejectPin, FaultyPins, Indices
  <2> QED
    BY <2>1, SmallestIsFound, Zenon
<1>4. i \in 0 .. GroupSize[kind] - 1 /\ (OffPort(i) \/ OutOfOrder(i))
  BY <1>3 DEF FaultyPins, Indices
<1>5. \A j \in 0 .. i - 1 : ~OffPort(j) /\ ~OutOfOrder(j)
  BY <1>2, <1>3, <1>4 DEF FaultyPins, Indices
<1>6. \A n \in i + 1 .. GroupSize[kind] : ~Drivable(n)
  <2> SUFFICES ASSUME NEW n \in i + 1 .. GroupSize[kind], Drivable(n) PROVE FALSE
    OBVIOUS
  <2>1. n \in 1 .. GroupSize[kind] /\ i \in 0 .. n - 1
    BY <1>2, <1>4
  <2> QED
    BY <1>1, <1>4, <2>1, DrivableIsInOrder
<1>7. Drivable(i)
  BY <1>1, <1>2, <1>4, <1>5, InOrderIsDrivable
<1>8. /\ result'.tag \in {"PinNotOnSamePort", "PinsNotConsecutive"} /\ result'.index = i
      /\ result'.tag = "PinNotOnSamePort" <=> OffPort(i)
      /\ ~OffPort(i) => result'.expected = pins[0].pin + i /\ result'.actual = pins[i].pin
  BY DEF PinNotOnSamePort, PinsNotConsecutive
<1>9. ErrorAtFirstFault'
  <2>1. Drivable(i)' /\ ~Drivable(i + 1)'
    BY <1>1, <1>2, <1>4, <1>6, <1>7 DEF Drivable, PinAt
  <2>2. IF result'.tag = "PinNotOnSamePort" THEN pins[i].port # pins[0].port
        ELSE pins[i].port = pins[0].port /\ pins[i].pin = result'.actual
             /\ pins[i].pin # result'.expected
    BY <1>4, <1>8 DEF OffPort, OutOfOrder
  <2> QED
    BY <1>1, <1>8, <2>1, <2>2 DEF ErrorAtFirstFault
<1>10. ~Drivable(GroupSize[kind])
  BY <1>2, <1>4, <1>6
<1> QED
  BY <1>1, <1>8, <1>9, <1>10, RejectIndInv

-------------------------------------------------------------------------------
\* Validation is over: the answer and the order of the pins stay as they are.
LEMMA AnswerStays ==
  ASSUME IndInv, kind' = kind, pins' = pins, result' = result,
         pc \notin {"new", "rejected"}, pc' \notin {"new", "rejected"}
  PROVE  OrderInv' /\ AcceptsDrivable' /\ ErrorAtFirstFault'
<1>1. OrderInv'
  BY DEF IndInv, OrderInv, PinAt, OdrOffset
<1>2. AcceptsDrivable'
  BY DEF IndInv, AcceptsDrivable, Drivable, PinAt
<1>3. ErrorAtFirstFault'
  <2>1. result' = Okay
    BY DEF IndInv, OrderInv
  <2> QED
    BY <2>1 DEF ErrorAtFirstFault, Okay
<1> QED
  BY <1>1, <1>2, <1>3

LEMMA SetLevelIndInv ==
  ASSUME IndInv, SetLevel
  PROVE  IndInv'
<1>1. /\ TypeOK /\ kind' = kind /\ pins' = pins /\ result' = result
      /\ next' = next /\ outputs' = outputs
      /\ pc = "level" /\ pc' = "output" /\ next < GroupSize[kind]
      /\ next \in Nat /\ outputs = {pins[i] : i \in 0 .. next - 1}
  BY DEF IndInv, SetLevel, ConfigureInv, TypeOK
<1>2. kind \in Kinds /\ GroupSize[kind] \in Nat \ {0}
  BY <1>1, PinParts, KindParts
<1>3. pins[next] \in AnyPin(kind)
  <2>1. next \in Indices(kind)
    BY <1>1, <1>2 DEF Indices
  <2> QED
    BY <1>1, <2>1, PinParts
<1>4. high \subseteq high' /\ high' \subseteq AnyPin(kind)
  BY <1>1, <1>3 DEF SetLevel, TypeOK
<1>5. IsBlank(next) => pins[next] \in high'
  BY DEF SetLevel
<1>6. TypeOK'
  BY <1>1, <1>4 DEF TypeOK, Group
<1>7. ConfigureInv'
  BY <1>1 DEF ConfigureInv
<1>8. BlankInv'
  BY <1>1, <1>4, <1>5 DEF IndInv, BlankInv, IsBlank
<1> QED
  BY <1>1, <1>6, <1>7, <1>8, AnswerStays DEF IndInv

LEMMA SetAsOutputIndInv ==
  ASSUME IndInv, SetAsOutput
  PROVE  IndInv'
<1>1. /\ TypeOK /\ kind' = kind /\ pins' = pins /\ result' = result /\ high' = high
      /\ next' = next + 1 /\ outputs' = outputs \cup {pins[next]}
      /\ pc = "output" /\ next < GroupSize[kind]
      /\ next \in Nat /\ outputs = {pins[i] : i \in 0 .. next - 1}
      /\ pc' = IF next + 1 = GroupSize[kind] THEN "configured" ELSE "level"
  BY DEF IndInv, SetAsOutput, ConfigureInv, TypeOK
<1>2. kind \in Kinds /\ GroupSize[kind] \in Nat \ {0}
  BY <1>1, PinParts, KindParts
<1>3. outputs' = {pins[i] : i \in 0 .. next' - 1}
  <2>1. 0 .. next' - 1 = (0 .. next - 1) \cup {next}
    BY <1>1
  <2> QED
    BY <1>1, <2>1
<1>4. next' \in 0 .. GroupSize[kind] /\ (pc' = "level" => next' < GroupSize[kind])
  BY <1>1, <1>2
<1>5. TypeOK'
  <2>1. \A i \in 0 .. next' - 1 : i \in Indices(kind)
    BY <1>1, <1>2 DEF Indices
  <2>2. outputs' \subseteq Group
    BY <1>3, <2>1 DEF Group
  <2> QED
    BY <1>1, <1>4, <2>2 DEF TypeOK, Group
<1>6. ConfigureInv'
  BY <1>1, <1>3, <1>4 DEF ConfigureInv
<1>7. BlankInv'
  <2>1. BlankIndex \in Nat
    BY SetupAssumption DEF BlankIndex, Kinds
  <2> QED
    BY <1>1, <2>1 DEF IndInv, BlankInv
<1> QED
  BY <1>1, <1>5, <1>6, <1>7, AnswerStays DEF IndInv

\* The bits of a word at the address of a configured group are its pins.
LEMMA BitsArePins ==
  ASSUME IndInv, pc \notin {"new", "rejected"}, NEW word, word \subseteq Indices(kind)
  PROVE  {PinAt(OdrOffset, k) : k \in word} = {pins[k] : k \in word}
BY DEF IndInv, OrderInv

LEMMA DmaWriteIndInv ==
  ASSUME IndInv, NEW word \in SUBSET Indices(kind), DmaWrite(word)
  PROVE  IndInv'
<1>1. /\ TypeOK /\ kind' = kind /\ pins' = pins /\ result' = result
      /\ next' = next /\ outputs' = outputs
      /\ pc \in {"configured", "run"} /\ pc' = "run"
      /\ outputs = {pins[i] : i \in 0 .. next - 1}
  BY DEF IndInv, DmaWrite, ConfigureInv
<1>2. {PinAt(OdrOffset, k) : k \in word} \subseteq AnyPin(kind)
  <2>1. \A k \in word : pins[k] \in AnyPin(kind)
    BY <1>1, PinParts
  <2>2. {PinAt(OdrOffset, k) : k \in word} = {pins[k] : k \in word}
    BY <1>1, BitsArePins
  <2> QED
    BY <2>1, <2>2
<1>3. TypeOK'
  BY <1>1, <1>2 DEF TypeOK, Group, DmaWrite
<1>4. ConfigureInv' /\ BlankInv'
  BY <1>1 DEF ConfigureInv, BlankInv
<1> QED
  BY <1>1, <1>3, <1>4, AnswerStays DEF IndInv

LEMMA NextIndInv == IndInv /\ [Next]_vars => IndInv'
<1> SUFFICES ASSUME IndInv, [Next]_vars PROVE IndInv'
  OBVIOUS
<1>1. CASE New
  BY <1>1, AcceptIndInv, RejectStartIndInv, RejectPinIndInv DEF New
<1>2. CASE SetLevel
  BY <1>2, SetLevelIndInv
<1>3. CASE SetAsOutput
  BY <1>3, SetAsOutputIndInv
<1>4. CASE \E word \in SUBSET Indices(kind) : DmaWrite(word)
  BY <1>4, DmaWriteIndInv
<1>5. CASE UNCHANGED vars
  BY <1>5 DEF vars, IndInv, TypeOK, Group, OrderInv, ConfigureInv, BlankInv,
              AcceptsDrivable, ErrorAtFirstFault, Drivable, PinAt, OdrOffset
<1> QED
  BY <1>1, <1>2, <1>3, <1>4, <1>5 DEF Next

-------------------------------------------------------------------------------
\* Only a group in the order of the wiring is configured, its pins one after
\* the other, and BLANK is high from before it is an output.
THEOREM SetupInvariance == Spec => []IndInv
BY InitIndInv, NextIndInv, PTL DEF Spec

\* Every variable of the setup keeps its type.
THEOREM SetupTypeCorrect == Spec => []TypeOK
<1>1. IndInv => TypeOK
  BY DEF IndInv
<1> QED
  BY <1>1, SetupInvariance, PTL

\* The constructors accept exactly the groups that one word of an output
\* register drives in order.
THEOREM SetupAcceptsDrivable == Spec => []AcceptsDrivable
<1>1. IndInv => AcceptsDrivable
  BY DEF IndInv
<1> QED
  BY <1>1, SetupInvariance, PTL

\* An error names the first pin that is wrong, and what is wrong with it.
THEOREM SetupNamesFirstFault == Spec => []ErrorAtFirstFault
<1>1. IndInv => ErrorAtFirstFault
  BY DEF IndInv
<1> QED
  BY <1>1, SetupInvariance, PTL

\* BLANK is never driven low before the first word.
THEOREM BlankStaysHigh == Spec => []BlankNeverLow
<1>1. ASSUME IndInv, kind = "Hub75Pins8", pins[BlankIndex] \in outputs, pc # "run"
      PROVE  pins[BlankIndex] \in high
  <2>1. /\ pins \in PinLists(kind) /\ outputs = {pins[i] : i \in 0 .. next - 1}
        /\ next \in Nat /\ next <= GroupSize[kind] /\ GroupSize[kind] \in Nat \ {0}
        /\ BlankIndex = GroupSize[kind] - 1
    BY <1>1, SetupAssumption DEF IndInv, ConfigureInv, TypeOK, Kinds, BlankIndex
  <2>2. PICK i \in 0 .. next - 1 : pins[i] = pins[BlankIndex]
    BY <1>1, <2>1
  <2>3. i \in Indices(kind) /\ BlankIndex \in Indices(kind)
    BY <2>1 DEF Indices
  <2>4. i = BlankIndex
    BY <2>1, <2>2, <2>3 DEF PinLists
  <2>5. next > BlankIndex
    BY <2>1, <2>4
  <2> QED
    BY <1>1, <2>5 DEF IndInv, BlankInv
<1>2. IndInv => BlankNeverLow
  BY <1>1 DEF BlankNeverLow
<1> QED
  BY <1>2, SetupInvariance, PTL

\* Each word shows on the pins of the group in order and on no other pin.
THEOREM WordsReachTheirPins == Spec => WiringOrder
<1>1. ASSUME IndInv, NEW word \in SUBSET Indices(kind), DmaWrite(word)
      PROVE  high' \cap Group = {pins[k] : k \in word} /\ high' \ Group = high \ Group
  <2>1. pc \notin {"new", "rejected"}
    BY <1>1 DEF DmaWrite
  <2>2. /\ {PinAt(OdrOffset, k) : k \in word} = {pins[k] : k \in word}
        /\ {PinAt(OdrOffset, k) : k \in Indices(kind)} = Group
    BY <1>1, <2>1, BitsArePins DEF Group
  <2>3. high' = (high \ Group) \cup {pins[k] : k \in word}
    BY <1>1, <2>2 DEF DmaWrite
  <2>4. {pins[k] : k \in word} \subseteq Group
    BY DEF Group
  <2> QED
    BY <2>3, <2>4
<1>2. IndInv => [DrivesOwnPins]_vars
  BY <1>1 DEF DrivesOwnPins
<1> QED
  BY <1>2, SetupInvariance, PTL DEF WiringOrder

===============================================================================
