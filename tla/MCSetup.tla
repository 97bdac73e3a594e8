-------------------------------- MODULE MCSetup --------------------------------
(***************************************************************************)
(* Setup for TLC: groups of three and of four pins, every list of distinct *)
(* pins on two ports.                                                      *)
(***************************************************************************)
EXTENDS Setup

CONSTANTS A, B

MCGroupSize == [k \in Kinds |-> IF k = "Hub75Pins8" THEN 3 ELSE 4]

================================================================================
