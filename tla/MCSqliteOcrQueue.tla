-------------------------- MODULE MCSqliteOcrQueue --------------------------
(* Instance of SqliteOcrQueue for TLC.                                     *)
EXTENDS SqliteOcrQueue, TLC

Symmetry == Permutations(TransportIds) \cup Permutations(JobIds)
              \cup Permutations(Submissions) \cup Permutations(Receipts)
=============================================================================
