-------------------------- MODULE MCKnowledgeIndex --------------------------
(***************************************************************************)
(* Instances of KnowledgeIndex for TLC.                                    *)
(***************************************************************************)
EXTENDS KnowledgeIndex, TLC

Symmetric == Permutations(Items) \cup Permutations(Writers)
=============================================================================
