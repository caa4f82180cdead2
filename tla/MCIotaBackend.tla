---------------------------- MODULE MCIotaBackend ----------------------------
(* Instances of IotaBackend for TLC.                                       *)
EXTENDS IotaBackend, TLC

\* Job identifiers are numbers, and are used in their order.
InOrder == \A j \in issued' : 1..j \subseteq issued'

MCFairSpec == Init /\ [][Next /\ InOrder]_vars /\ Fairness
=============================================================================
