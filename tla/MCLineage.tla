----------------------------- MODULE MCLineage -----------------------------
(***************************************************************************)
(* Lineage for TLC.  Decisions and requests are interchangeable.           *)
(***************************************************************************)
EXTENDS Lineage, TLC

Symmetry == Permutations(Decision) \cup Permutations(Request)
=============================================================================
