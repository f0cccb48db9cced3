-------------------------- MODULE MCAccommodation --------------------------
(* Instances of Accommodation for TLC: a room for one, a room for two and  *)
(* a room under repair.                                                    *)
EXTENDS Accommodation, TLC

CONSTANTS single, double, repaired

RoomsMC == {single, double, repaired}
CapacityMC == [r \in RoomsMC |-> IF r = single THEN 1 ELSE 2]

Symmetry == Permutations(Students) \cup Permutations(RelocationIds) \cup Permutations(Workers)
=============================================================================
