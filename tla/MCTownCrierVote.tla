-------------------------- MODULE MCTownCrierVote --------------------------
(***************************************************************************)
(* Instances of TownCrierVote for TLC.                                     *)
(***************************************************************************)
EXTENDS TownCrierVote, TLC

Symmetry == Permutations(Enclaves) \cup Permutations(Responses)
=============================================================================
