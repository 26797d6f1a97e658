------------------------- MODULE MCAccountResources -------------------------
(***************************************************************************)
(* Instances of AccountResources for TLC.                                  *)
(***************************************************************************)
EXTENDS AccountResources, TLC

Alike == Permutations(Sids) \cup Permutations(Phones) \cup Permutations(Domains)
=============================================================================
