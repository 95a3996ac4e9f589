----------------------------- MODULE MCFatTree -----------------------------
(***************************************************************************)
(* The smallest fat tree, and the one of the project's experiments.        *)
(***************************************************************************)
EXTENDS FatTree

MCKs == {2, 4}
=============================================================================
