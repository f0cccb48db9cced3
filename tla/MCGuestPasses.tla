--------------------------- MODULE MCGuestPasses ---------------------------
(* Instances of GuestPasses for TLC.                                       *)
EXTENDS GuestPasses, TLC

Symmetry == Permutations(Students) \cup Permutations(PassIds) \cup Permutations(LogIds)
              \cup Permutations(Workers)
=============================================================================
