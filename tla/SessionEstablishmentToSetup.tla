--------------------- MODULE SessionEstablishmentToSetup ---------------------
(***************************************************************************)
(* SessionEstablishment implements SessionSetup: a half is read off the    *)
(* gateway's session and what could still make it, the commitment off the  *)
(* messages to and from the ledger.                                        *)
(***************************************************************************)
EXTENDS SessionEstablishment

\* Gateway B is, or may still be, provisioned with an authorization of s.
MayAccept(s) ==
    \/ sac_runs[s].pc = "idle"
    \/ \E action \in Actions : Provision(s, action) \in messages
    \/ authorizations[s] # None

HalfAtB(s) ==
    IF b_sessions[s] # None THEN "held"
    ELSE IF MayAccept(s) THEN "open"
    ELSE IF Established(s) \in messages THEN "vouched"
    ELSE "over"

\* The /sessions request of s is yet to come or yet to be decided.
Undecided(s) == a_runs[s].pc \in {"idle"} \cup Waiting

HalfAtA(s) ==
    IF a_sessions[s] # None THEN "held"
    ELSE IF Undecided(s) THEN "open"
    ELSE "over"

\* The ledger's answer is on its way or has arrived.
KnownQueued(s) ==
    \/ Queued(s) \in messages
    \/ a_sessions[s] \in [key: Kem, queued: {TRUE}]

CommitmentOf(s) ==
    IF KnownQueued(s) THEN "queued"
    ELSE IF Commitment(s) \in messages THEN "posted"
    ELSE "none"

Setup == INSTANCE SessionSetup
    WITH atB        <- [s \in Sessions |-> HalfAtB(s)],
         atA        <- [s \in Sessions |-> HalfAtA(s)],
         commitment <- [s \in Sessions |-> CommitmentOf(s)]

\* However calls are lost, late or given up and services restart, a session is
\* accepted at most once at Gateway B and then held at most once at Gateway A,
\* which posts its commitment in that step and never again; a gateway that lost
\* or gave up a session does not get it back, even when its peer holds it.
ImplementsSetup == Setup!Spec
=============================================================================
