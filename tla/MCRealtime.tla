---------------------------- MODULE MCRealtime ----------------------------
(***************************************************************************)
(* Instances of Realtime for TLC.                                          *)
(***************************************************************************)
EXTENDS Realtime, TLC

Symmetric == Permutations(Messages) \cup Permutations(Sockets) \cup Permutations(Instances)
=============================================================================
