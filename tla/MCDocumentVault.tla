-------------------------- MODULE MCDocumentVault --------------------------
(* DocumentVault with interchangeable documents.                           *)
EXTENDS DocumentVault, TLC

Symmetry == Permutations(Docs)
=============================================================================
