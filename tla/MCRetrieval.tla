---------------------------- MODULE MCRetrieval ----------------------------
(***************************************************************************)
(* Instances of Retrieval for TLC.                                         *)
(***************************************************************************)
EXTENDS Retrieval, TLC

Symmetric == Permutations(Items \ Refused) \cup Permutations(Writers) \cup Permutations(Turns)
=============================================================================
