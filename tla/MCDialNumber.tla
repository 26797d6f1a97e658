---------------------------- MODULE MCDialNumber ----------------------------
(***************************************************************************)
(* Instances of DialNumber for TLC.                                        *)
(***************************************************************************)
EXTENDS DialNumber, TLC

NoLegs == {}

\* Nothing tells the legs apart when all of them have a document.
LegSymmetry == Permutations(Legs)
=============================================================================
