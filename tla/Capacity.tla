------------------------------ MODULE Capacity ------------------------------
(***************************************************************************)
(* The capacity that every backend is compiled with (MAX_SEGMENTS).        *)
(***************************************************************************)
EXTENDS Naturals

CONSTANT MaxSegments  \* MAX_SEGMENTS, of the cache and of the 2D table

ASSUME CapacityAssumption == MaxSegments \in Nat \ {0}
=============================================================================
