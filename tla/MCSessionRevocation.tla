------------------------- MODULE MCSessionRevocation -------------------------
(* Instances of SessionRevocation for TLC.                                 *)
EXTENDS SessionRevocationToLifecycle, TLC

\* Sessions, requests, jobs and workers are only ever compared for equality.
Symmetry == Permutations(Sessions) \cup Permutations(Requests)
            \cup Permutations(Jobs) \cup Permutations(Workers)

\* For liveness, which TLC does not check under symmetry: job identifiers and
\* requests are numbers, and are used in their order.
InOrder ==
    /\ \A j \in issued' : 1..j \subseteq issued'
    /\ \A r \in Requests : a_revokes'[r].pc # "idle" =>
            \A q \in 1..r : a_revokes'[q].pc # "idle"

MCFairSpec == Init /\ [][Next /\ InOrder]_vars /\ Fairness
=============================================================================
