-------------------------- MODULE MCCaseBoxRecords --------------------------
(* CaseBoxRecords with interchangeable matters.                             *)
EXTENDS CaseBoxRecords, TLC

Symmetry == Permutations(Matters)
=============================================================================
