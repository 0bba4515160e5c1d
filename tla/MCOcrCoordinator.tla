-------------------------- MODULE MCOcrCoordinator --------------------------
(* Instance of OcrCoordinator for TLC.                                     *)
EXTENDS OcrCoordinator, TLC

Symmetry == Permutations(Workers) \cup Permutations(Pages)
=============================================================================
