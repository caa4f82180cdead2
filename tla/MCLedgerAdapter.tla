--------------------------- MODULE MCLedgerAdapter ---------------------------
(* Instances of LedgerAdapter for TLC.                                     *)
EXTENDS LedgerAdapter, TLC

\* Sessions, jobs and workers are only ever compared for equality.
Symmetry == Permutations(Sessions) \cup Permutations(Jobs) \cup Permutations(Workers)
=============================================================================
