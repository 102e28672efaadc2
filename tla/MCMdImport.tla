----------------------------- MODULE MCMdImport -----------------------------
(***************************************************************************)
(* An instance of MdImport for TLC.                                        *)
(***************************************************************************)
EXTENDS MdImport

TwoLevels == [h1 |-> 1, h2 |-> 2]
=============================================================================
