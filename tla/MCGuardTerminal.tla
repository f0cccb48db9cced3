-------------------------- MODULE MCGuardTerminal --------------------------
(* Instances of GuardTerminal for TLC.                                     *)
EXTENDS GuardTerminal, TLC

Symmetry == Permutations(PassIds) \cup Permutations(LogIds) \cup Permutations(Workers)
=============================================================================
