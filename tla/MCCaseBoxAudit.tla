--------------------------- MODULE MCCaseBoxAudit ---------------------------
(* Instance of CaseBoxAudit for TLC.                                       *)
EXTENDS CaseBoxAudit, TLC

Symmetry == Permutations(Records) \cup Permutations(Details)
=============================================================================
