-------------------------- MODULE MCCitationLinks --------------------------
(* CitationLinks with interchangeable matters, documents and links.        *)
EXTENDS CitationLinks, TLC

Symmetry == Permutations(Matters) \cup Permutations(Docs) \cup Permutations(Links)
=============================================================================
