----------------------------- MODULE MCIntake -----------------------------
(***************************************************************************)
(* Instances of Intake for TLC.                                            *)
(***************************************************************************)
EXTENDS Intake, TLC

Symmetric == Permutations(Handlers) \cup Permutations(Writers) \cup Permutations(Tabs)
                 \cup Permutations(Texts) \cup Permutations(Convs)
=============================================================================
