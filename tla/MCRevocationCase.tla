-------------------------- MODULE MCRevocationCase --------------------------
(* Instances of RevocationCase for TLC.                                    *)
EXTENDS RevocationCase, TLC

\* Job identifiers are numbers, and are used in their order.
InOrder == \A j \in issued' : 1..j \subseteq issued'

MCFairSpec == CaseInit /\ [][CaseNext /\ InOrder]_allVars /\ CaseFairness
=============================================================================
