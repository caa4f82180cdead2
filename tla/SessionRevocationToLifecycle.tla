--------------------- MODULE SessionRevocationToLifecycle ---------------------
(***************************************************************************)
(* SessionRevocation implements SessionLifecycle: the stage of a session   *)
(* is read off Gateway B's session, what B's monitor was last told, and    *)
(* the adapter's records.                                                  *)
(***************************************************************************)
EXTENDS SessionRevocation

\* The revocations of s the adapter remembers, by status.
Revocations(s, statuses) ==
    {j \in Jobs : /\ revocation_records[j].session = s
                  /\ revocation_records[j].status \in statuses}

CommitmentConfirmed(s) ==
    \E c \in Jobs : /\ commitment_jobs_by_session[s] = c
                    /\ records[c].status = "confirmed"

\* The monitor is about to enforce a revocation it was told is confirmed.
MonitorTold(s) == b_monitor.session = s /\ b_monitor.job # None

\* How far the ledger's records and the monitor's knowledge of them carry s.
LedgerStage(s) ==
    IF MonitorTold(s) \/ Revocations(s, {"confirmed"}) # {} THEN "confirmed"
    ELSE IF Revocations(s, {"queued"} \cup Ledger!InProgress) # {} THEN "requested"
    ELSE IF CommitmentConfirmed(s) THEN "anchored"
    ELSE "established"

StageOf(s) ==
    CASE b_sessions[s] = None -> "absent"
      [] Revoked(s) -> "revoked"
      [] OTHER -> LedgerStage(s)

Lifecycle == INSTANCE SessionLifecycle
    WITH stage <- [s \in Sessions |-> StageOf(s)],
         told  <- {s \in Sessions : MonitorTold(s) /\ Revocations(s, {"confirmed"}) = {}}

\* However the calls, the monitor, the workers and a restart of the adapter
\* interleave, a step of the system is one step of one session's life, a restart
\* of the adapter or neither: no stage is skipped or repeated, a step about one
\* session moves no other, a revoked session stays revoked, and only a restart
\* makes the system forget an anchor or a confirmed revocation.
ImplementsLifecycle == Lifecycle!Spec
=============================================================================
