---------------------------- MODULE MCDocketDesk ----------------------------
(* Instance for model checking: entries and calls are interchangeable.     *)
EXTENDS DocketDesk, TLC

Symmetry == Permutations(Entries) \cup Permutations(Calls)

=============================================================================
