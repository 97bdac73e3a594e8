--------------------------------- MODULE Setup ---------------------------------
(***************************************************************************)
(* From the application's pins to the words on them: Hub75Pins8::new and   *)
(* Hub75Pins16::new with configure_and_get_odr (src/src/lib.rs).           *)
(*                                                                         *)
(* The DMA later writes words of the pin group's width to one address of   *)
(* the port's output register, bit k of a word for pin k of the group.     *)
(* Validation and address together must make this true.  Group sizes are   *)
(* parameters (8 and 16 in the code): a Hub75Pins8 fills one half of a     *)
(* port, a Hub75Pins16 all of it.                                          *)
(***************************************************************************)
EXTENDS Integers, FiniteSetsExt

CONSTANTS
  Ports,          \* the GPIO ports
  GroupSize       \* number of pins of each kind of group

Kinds == {"Hub75Pins8", "Hub75Pins16"}

ASSUME SetupAssumption == GroupSize \in [Kinds -> Nat \ {0}]

VARIABLES
  kind,      \* which of the two groups the application builds
  pins,      \* its pins, in the order of the constructor's arguments
  pc,        \* how far the application has come
  result,    \* what the constructor has returned
  next,      \* the pin that configure_and_get_odr is at
  outputs,   \* the pins that are outputs
  high       \* the pins whose bit in the output register is set

vars == <<kind, pins, pc, result, next, outputs, high>>

PortSize(k) == IF k = "Hub75Pins8" THEN 2 * GroupSize[k] ELSE GroupSize[k]
AnyPin(k) == [port : Ports, pin : 0 .. PortSize(k) - 1]
Indices(k) == 0 .. GroupSize[k] - 1
BlankIndex == GroupSize["Hub75Pins8"] - 1

\* An AnyPin is owned: no pin is given twice.
PinLists(k) == {p \in [Indices(k) -> AnyPin(k)] : \A i, j \in Indices(k) : i # j => p[i] # p[j]}

NoResult == [tag |-> "None"]
Okay == [tag |-> "Ok"]
PinNotOnSamePort(i) == [tag |-> "PinNotOnSamePort", index |-> i]
PinsNotConsecutive(i, e, a) ==
  [tag |-> "PinsNotConsecutive", index |-> i, expected |-> e, actual |-> a]

-------------------------------------------------------------------------------
\* The pin numbers at which a group may start.
FirstPins == IF kind = "Hub75Pins8" THEN {0, GroupSize[kind]} ELSE {0}

OffPort(i) == pins[i].port # pins[0].port
OutOfOrder(i) == pins[i].pin # pins[0].pin + i

\* Faulty variant: the pins have to be on one port, in any order.
FaultyPinsUnordered == {i \in Indices(kind) : OffPort(i)}

\* The pins at which the loop of the constructor would stop.
FaultyPins == {i \in Indices(kind) : OffPort(i) \/ OutOfOrder(i)}

Accept ==
  /\ pins[0].pin \in FirstPins
  /\ FaultyPins = {}
  /\ result' = Okay
  /\ pc' = "level"

RejectStart ==
  /\ pins[0].pin \notin FirstPins
  /\ result' = PinsNotConsecutive(0, 0, pins[0].pin)
  /\ pc' = "rejected"

\* Faulty variant: the last of several faults is reported.
RejectPinLast ==
  /\ pins[0].pin \in FirstPins
  /\ FaultyPins # {}
  /\ LET i == Max(FaultyPins)
     IN  result' = IF OffPort(i) THEN PinNotOnSamePort(i)
                   ELSE PinsNotConsecutive(i, pins[0].pin + i, pins[i].pin)
  /\ pc' = "rejected"

RejectPin ==
  /\ pins[0].pin \in FirstPins
  /\ FaultyPins # {}
  /\ LET i == Min(FaultyPins)
     IN  result' = IF OffPort(i) THEN PinNotOnSamePort(i)
                   ELSE PinsNotConsecutive(i, pins[0].pin + i, pins[i].pin)
  /\ pc' = "rejected"

\* Hub75Pins8::new, Hub75Pins16::new
New ==
  /\ pc = "new"
  /\ Accept \/ RejectStart \/ RejectPin
  /\ UNCHANGED <<kind, pins, next, outputs, high>>

-------------------------------------------------------------------------------
(***************************************************************************)
(* configure_and_get_odr takes the pins one after the other: it sets the   *)
(* level of the last pin of a Hub75Pins8, BLANK, then makes it an output.  *)
(***************************************************************************)
IsBlank(i) == kind = "Hub75Pins8" /\ i = BlankIndex

\* Faulty variant: the pin becomes an output before its level is set.
SetLevelSwapped ==
  /\ pc = "level"
  /\ IF pins[next] \notin outputs
     THEN outputs' = outputs \cup {pins[next]} /\ UNCHANGED <<high, pc>>
     ELSE /\ high' = IF IsBlank(next) THEN high \cup {pins[next]} ELSE high
          /\ pc' = "output"
          /\ UNCHANGED outputs
  /\ UNCHANGED <<kind, pins, result, next>>

SetLevel ==
  /\ pc = "level"
  /\ high' = IF IsBlank(next) THEN high \cup {pins[next]} ELSE high
  /\ pc' = "output"
  /\ UNCHANGED <<kind, pins, result, next, outputs>>

SetAsOutput ==
  /\ pc = "output"
  /\ outputs' = outputs \cup {pins[next]}
  /\ next' = next + 1
  /\ pc' = IF next + 1 = GroupSize[kind] THEN "configured" ELSE "level"
  /\ UNCHANGED <<kind, pins, result, high>>

\* Faulty variant: always the low half of the register.
OdrOffsetLow == 0

\* Faulty variant: the offset is the number of the first pin.
OdrOffsetPin == pins[0].pin

\* The address for the DMA, counted in words from the start of the register.
OdrOffset == IF kind = "Hub75Pins8" /\ pins[0].pin # 0 THEN 1 ELSE 0

\* The pin whose bit in the register is bit k of a word at offset o.
PinAt(o, k) == [port |-> pins[0].port, pin |-> o * GroupSize[kind] + k]

\* The DMA writes a word, given as the set of its bits that are 1.
DmaWrite(word) ==
  /\ pc \in {"configured", "run"}
  /\ pc' = "run"
  /\ high' = (high \ {PinAt(OdrOffset, k) : k \in Indices(kind)})
               \cup {PinAt(OdrOffset, k) : k \in word}
  /\ UNCHANGED <<kind, pins, result, next, outputs>>

-------------------------------------------------------------------------------
\* The application's pins and what the rest of the program drives: nothing,
\* or every pin that is not the group's.
Init ==
  /\ kind \in Kinds
  /\ pins \in PinLists(kind)
  /\ pc = "new"
  /\ result = NoResult
  /\ next = 0
  /\ outputs = {}
  /\ high \in {{}, AnyPin(kind) \ {pins[i] : i \in Indices(kind)}}

Next ==
  \/ New
  \/ SetLevel
  \/ SetAsOutput
  \/ \E word \in SUBSET Indices(kind) : DmaWrite(word)

Spec == Init /\ [][Next]_vars

-------------------------------------------------------------------------------
(***************************************************************************)
(* Properties.                                                             *)
(***************************************************************************)
Group == {pins[i] : i \in Indices(kind)}

TypeOK ==
  /\ kind \in Kinds
  /\ pins \in [Indices(kind) -> AnyPin(kind)]
  /\ pc \in {"new", "level", "output", "configured", "run", "rejected"}
  /\ result.tag \in {"None", "Ok", "PinNotOnSamePort", "PinsNotConsecutive"}
  /\ next \in 0 .. GroupSize[kind]
  /\ outputs \subseteq Group
  /\ high \subseteq AnyPin(kind)

\* The first n pins are where bits 0 .. n - 1 of one word of the register are.
Drivable(n) == \E o \in 0 .. 1 : \A k \in 0 .. n - 1 :
  o * GroupSize[kind] < PortSize(kind) /\ pins[k] = PinAt(o, k)

\* A constructor accepts exactly the groups that one word of an output
\* register drives in the order of the wiring (lib.rs:225-238).
AcceptsDrivable == result # NoResult => (result = Okay <=> Drivable(GroupSize[kind]))

\* An error names the first pin that is wrong and says what is wrong with it:
\* the pins before it could be driven, with it they cannot (lib.rs:424-438).
ErrorAtFirstFault ==
  result.tag \in {"PinNotOnSamePort", "PinsNotConsecutive"} =>
    LET pin == pins[result.index]
    IN  /\ Drivable(result.index)
        /\ ~Drivable(result.index + 1)
        /\ IF result.tag = "PinNotOnSamePort" THEN pin.port # pins[0].port
           ELSE pin.port = pins[0].port /\ pin.pin = result.actual /\ pin.pin # result.expected

\* Each word of the DMA shows on the pins of the group, bit k on pin k, and
\* touches no other pin of the port (lib.rs:316-322, "bit 0: R1" ...).
DrivesOwnPins ==
  \A word \in SUBSET Indices(kind) : DmaWrite(word) =>
    /\ high' \cap Group = {pins[k] : k \in word}
    /\ high' \ Group = high \ Group

WiringOrder == [][DrivesOwnPins]_vars

\* While the driver is being set up, BLANK is never driven low: no row is lit
\* before the first word (lib.rs:328-331).  The feature invert-oe changes the
\* framebuffer's words and not this level: a panel whose output enable is
\* inverted is not blanked by it.
BlankNeverLow ==
  kind = "Hub75Pins8" /\ pins[BlankIndex] \in outputs /\ pc # "run" =>
    pins[BlankIndex] \in high

-------------------------------------------------------------------------------
(***************************************************************************)
(* The inductive invariant.                                                *)
(***************************************************************************)
\* Only a group that the DMA can drive at the address that it will get is
\* configured.
OrderInv ==
  /\ pc = "new" <=> result = NoResult
  /\ pc \notin {"new", "rejected"} =>
       result = Okay /\ \A k \in Indices(kind) : pins[k] = PinAt(OdrOffset, k)

\* The pins are configured one after the other.
ConfigureInv ==
  /\ pc = "new" => next = 0
  /\ pc \in {"level", "output"} => next < GroupSize[kind]
  /\ outputs = {pins[i] : i \in 0 .. next - 1}

\* From the step in which its level is set to the first word, BLANK is high.
BlankInv ==
  kind = "Hub75Pins8" /\ pc # "run" =>
    (next > BlankIndex \/ (next = BlankIndex /\ pc = "output") => pins[BlankIndex] \in high)

IndInv ==
  /\ TypeOK
  /\ pins \in PinLists(kind)
  /\ OrderInv
  /\ ConfigureInv
  /\ BlankInv
  /\ AcceptsDrivable
  /\ ErrorAtFirstFault
================================================================================
