-------------------------- MODULE SessionRevocation --------------------------
(***************************************************************************)
(* The life of an established session across Gateway A, the ledger adapter *)
(* and Gateway B: A queues its commitment and, when asked, its revocation; *)
(* the adapter settles both; B's revocation_monitor polls the adapter and  *)
(* revokes the session.  How a session is established is the subject of    *)
(* SessionEstablishment and one step per gateway here.                     *)
(*                                                                         *)
(* A call is sent, served (the adapter's handler runs, atomically) and     *)
(* returns; a caller that gives up first does not unsend it.  What the     *)
(* adapter answered may be out of date when the caller acts on it.         *)
(***************************************************************************)
EXTENDS Naturals, Sequences

CONSTANTS
    Sessions,     \* established sessions
    Requests,     \* POST /sessions/{id}/revoke requests to Gateway A
    Jobs, Workers, LedgerMode, MaxRestarts, None  \* see LedgerAdapter

ASSUME NoneAssumption == None \notin Jobs \cup Sessions
ASSUME ModeAssumption == LedgerMode \in {"simulated", "iota"}
ASSUME RestartAssumption == MaxRestarts \in Nat

VARIABLES
    queue, records, commitment_jobs_by_session, commitment_workers,
    revocation_queue, revocation_records, revocation_jobs_by_session,
    revocation_workers, issued, chain, restarts,  \* see LedgerAdapter
    a_sessions,  \* Gateway A: established_sessions
    a_commits,   \* Gateway A: the POST /commitments call of each session
    a_revokes,   \* Gateway A: the coroutine of each revoke request
    b_sessions,  \* Gateway B: established_sessions
    b_monitor,   \* Gateway B: the revocation_monitor task
    expired      \* sessions whose expires_at_ns has passed

Ledger == INSTANCE LedgerAdapter

ledgerVars == <<queue, records, commitment_jobs_by_session, commitment_workers,
                revocation_queue, revocation_records, revocation_jobs_by_session,
                revocation_workers, issued, chain, restarts>>
aVars == <<a_sessions, a_commits, a_revokes>>
bVars == <<b_sessions, b_monitor>>
vars == <<ledgerVars, aVars, bVars, expired>>

-----------------------------------------------------------------------------
OptionalJob == Jobs \cup {None}

\* EstablishedSessionRecord and EstablishedSession.
ASession == [ledger_job: OptionalJob, revocation_job: OptionalJob]
BSession == [revoked: BOOLEAN, revocation_job: OptionalJob]
ASSUME SessionAssumption == None \notin ASession \cup BSession

Call == {"unsent", "sent", "served"}
Commit == [pc: {"idle", "waiting", "done"}, call: Call, job: OptionalJob]
Revoke == [pc: {"idle", "looking-up", "posting", "done", "failed"},
           session: Sessions \cup {None}, call: Call,
           anchor: OptionalJob, job: OptionalJob]

\* The monitor: the sessions its scan has yet to visit, the one it asks about,
\* and what the adapter answered: the latest revocation if it is confirmed
\* (job and session_anchor), and the identifier of the confirmed commitment.
Monitor == [pc: {"sleeping", "scanning", "asking-revocation", "asking-commitment"},
            todo: SUBSET Sessions, session: Sessions \cup {None},
            call: Call, job: OptionalJob, session_anchor: OptionalJob,
            identifier: OptionalJob]
Scanning(todo) == [pc |-> "scanning", todo |-> todo, session |-> None, call |-> "unsent",
                   job |-> None, session_anchor |-> None, identifier |-> None]

TypeOK ==
    /\ Ledger!TypeOK
    /\ a_sessions \in [Sessions -> ASession \cup {None}]
    /\ a_commits \in [Sessions -> Commit]
    /\ a_revokes \in [Requests -> Revoke]
    /\ b_sessions \in [Sessions -> BSession \cup {None}]
    /\ b_monitor \in Monitor
    /\ expired \subseteq Sessions

Init ==
    /\ Ledger!Init
    /\ a_sessions = [s \in Sessions |-> None]
    /\ a_commits = [s \in Sessions |-> [pc |-> "idle", call |-> "unsent", job |-> None]]
    /\ a_revokes = [r \in Requests |-> [pc |-> "idle", session |-> None,
                        call |-> "unsent", anchor |-> None, job |-> None]]
    /\ b_sessions = [s \in Sessions |-> None]
    /\ b_monitor = [Scanning({}) EXCEPT !.pc = "sleeping"]
    /\ expired = {}

-----------------------------------------------------------------------------
(* Establishment, its commitment, and time.                                *)

\* Gateway B accepts TagA ...
EstablishB(s) ==
    /\ b_sessions[s] = None
    /\ b_sessions' = [b_sessions EXCEPT ![s] = [revoked |-> FALSE, revocation_job |-> None]]
    /\ UNCHANGED <<ledgerVars, aVars, b_monitor, expired>>

\* ... and Gateway A learns of it, stores the session and posts its commitment.
EstablishA(s) ==
    /\ b_sessions[s] # None
    /\ a_commits[s].pc = "idle"
    /\ a_sessions' = [a_sessions EXCEPT ![s] = [ledger_job |-> None, revocation_job |-> None]]
    /\ a_commits' = [a_commits EXCEPT ![s] = [pc |-> "waiting", call |-> "sent", job |-> None]]
    /\ UNCHANGED <<ledgerVars, a_revokes, bVars, expired>>

ServeCommitment(s, j) ==
    /\ a_commits[s].call = "sent"
    /\ Ledger!SubmitCommitment(s, j)
    /\ a_commits' = [a_commits EXCEPT ![s] = [@ EXCEPT !.call = "served", !.job = j]]
    /\ UNCHANGED <<a_sessions, a_revokes, bVars, expired>>

CommitmentQueued(s) ==
    /\ a_commits[s].pc = "waiting"
    /\ a_commits[s].call = "served"
    /\ a_sessions' = [a_sessions EXCEPT ![s].ledger_job = a_commits[s].job]
    /\ a_commits' = [a_commits EXCEPT ![s].pc = "done"]
    /\ UNCHANGED <<ledgerVars, a_revokes, bVars, expired>>

CommitmentNotQueued(s) ==
    /\ a_commits[s].pc = "waiting"
    /\ a_commits' = [a_commits EXCEPT ![s].pc = "done"]
    /\ UNCHANGED <<ledgerVars, a_sessions, a_revokes, bVars, expired>>

Expire(s) ==
    /\ b_sessions[s] # None
    /\ s \notin expired
    /\ expired' = expired \cup {s}
    /\ UNCHANGED <<ledgerVars, aVars, bVars>>

-----------------------------------------------------------------------------
(* Gateway A: revoke_session                                               *)

\* IF   the session is known, no revocation of it is recorded and its
\*      commitment was queued
\* THEN look up its anchor; the checks are not repeated after the awaits
StartRevoke(r, s) ==
    /\ a_revokes[r].pc = "idle"
    /\ a_sessions[s] \in [ledger_job: Jobs, revocation_job: {None}]
    /\ a_revokes' = [a_revokes EXCEPT ![r] =
            [@ EXCEPT !.pc = "looking-up", !.session = s, !.call = "sent"]]
    /\ UNCHANGED <<ledgerVars, a_sessions, a_commits, bVars, expired>>

\* Mutant: any identifier is taken for an anchor.
ServeLookupUnconfirmed(r) ==
    LET record == records[a_sessions[a_revokes[r].session].ledger_job]
    IN  /\ a_revokes[r].pc = "looking-up"
        /\ a_revokes[r].call = "sent"
        /\ a_revokes' = [a_revokes EXCEPT ![r] =
                [@ EXCEPT !.call = "served", !.anchor = record.ledger_identifier]]
        /\ UNCHANGED <<ledgerVars, a_sessions, a_commits, bVars, expired>>

\* GET /commitments/{job}: the identifier of a confirmed record, or an answer
\* that makes the request fail.
ServeLookup(r) ==
    LET record == records[a_sessions[a_revokes[r].session].ledger_job]
    IN  /\ a_revokes[r].pc = "looking-up"
        /\ a_revokes[r].call = "sent"
        /\ a_revokes' = [a_revokes EXCEPT ![r] =
                [@ EXCEPT !.call = "served",
                          !.anchor = IF record.status = "confirmed"
                                     THEN record.ledger_identifier ELSE None]]
        /\ UNCHANGED <<ledgerVars, a_sessions, a_commits, bVars, expired>>

PostRevocation(r) ==
    /\ a_revokes[r].pc = "looking-up"
    /\ a_revokes[r].anchor # None
    /\ a_revokes' = [a_revokes EXCEPT ![r] = [@ EXCEPT !.pc = "posting", !.call = "sent"]]
    /\ UNCHANGED <<ledgerVars, a_sessions, a_commits, bVars, expired>>

\* POST /revocations, even if Gateway A no longer waits for its answer.
Posted(r) == a_revokes[r].anchor # None /\ a_revokes[r].call = "sent"

ServeRevocation(r, j) ==
    /\ Posted(r)
    /\ Ledger!SubmitRevocation(a_revokes[r].session, a_revokes[r].anchor, j)
    /\ a_revokes' = [a_revokes EXCEPT ![r] = [@ EXCEPT !.call = "served", !.job = j]]
    /\ UNCHANGED <<a_sessions, a_commits, bVars, expired>>

\* Mutant: the job is written to the wrong field.
RevocationRequestedMisfiled(r) ==
    /\ a_revokes[r].pc = "posting"
    /\ a_revokes[r].call = "served"
    /\ a_sessions' = [a_sessions EXCEPT
            ![a_revokes[r].session].ledger_job = a_revokes[r].job]
    /\ a_revokes' = [a_revokes EXCEPT ![r].pc = "done"]
    /\ UNCHANGED <<ledgerVars, a_commits, bVars, expired>>

\* Mutant: the anchor is recorded instead of the job.
RevocationRequestedAnchor(r) ==
    /\ a_revokes[r].pc = "posting"
    /\ a_revokes[r].call = "served"
    /\ a_sessions' = [a_sessions EXCEPT
            ![a_revokes[r].session].revocation_job = a_revokes[r].anchor]
    /\ a_revokes' = [a_revokes EXCEPT ![r].pc = "done"]
    /\ UNCHANGED <<ledgerVars, a_commits, bVars, expired>>

RevocationRequested(r) ==
    /\ a_revokes[r].pc = "posting"
    /\ a_revokes[r].call = "served"
    /\ a_sessions' = [a_sessions EXCEPT
            ![a_revokes[r].session].revocation_job = a_revokes[r].job]
    /\ a_revokes' = [a_revokes EXCEPT ![r].pc = "done"]
    /\ UNCHANGED <<ledgerVars, a_commits, bVars, expired>>

\* A 409 or 502 to the client.
RevokeFails(r) ==
    /\ a_revokes[r].pc \in {"looking-up", "posting"}
    /\ a_revokes' = [a_revokes EXCEPT ![r].pc = "failed"]
    /\ UNCHANGED <<ledgerVars, a_sessions, a_commits, bVars, expired>>

-----------------------------------------------------------------------------
(* Gateway B: revocation_monitor                                           *)

MonitorUnchanged == UNCHANGED <<ledgerVars, aVars, b_sessions, expired>>

MonitorWakes ==
    /\ b_monitor.pc = "sleeping"
    /\ b_monitor' = Scanning({s \in Sessions : b_sessions[s] # None})
    /\ MonitorUnchanged

MonitorSleeps ==
    /\ b_monitor = Scanning({})
    /\ b_monitor' = [b_monitor EXCEPT !.pc = "sleeping"]
    /\ MonitorUnchanged

MonitorSkips(s) ==
    /\ b_monitor.pc = "scanning"
    /\ s \in b_monitor.todo
    /\ b_sessions[s].revoked \/ s \in expired
    /\ b_monitor' = Scanning(b_monitor.todo \ {s})
    /\ MonitorUnchanged

MonitorAsks(s) ==
    /\ b_monitor.pc = "scanning"
    /\ s \in b_monitor.todo
    /\ ~b_sessions[s].revoked
    /\ s \notin expired
    /\ b_monitor' = [Scanning(b_monitor.todo \ {s}) EXCEPT
            !.pc = "asking-revocation", !.session = s, !.call = "sent"]
    /\ MonitorUnchanged

\* Mutant: the revocation need not be confirmed.
ServeSessionRevocationUnconfirmed ==
    LET j == revocation_jobs_by_session[b_monitor.session]
    IN  /\ b_monitor.pc = "asking-revocation"
        /\ b_monitor.call = "sent"
        /\ b_monitor' = [b_monitor EXCEPT !.call = "served", !.job = j,
                !.session_anchor =
                    IF j # None THEN revocation_records[j].session_anchor ELSE None]
        /\ MonitorUnchanged

\* GET /session-revocations/{id}
ServeSessionRevocation ==
    LET j == revocation_jobs_by_session[b_monitor.session]
        confirmed == j # None /\ revocation_records[j].status = "confirmed"
    IN  /\ b_monitor.pc = "asking-revocation"
        /\ b_monitor.call = "sent"
        /\ b_monitor' = [b_monitor EXCEPT !.call = "served",
                !.job = IF confirmed THEN j ELSE None,
                !.session_anchor =
                    IF confirmed THEN revocation_records[j].session_anchor ELSE None]
        /\ MonitorUnchanged

MonitorAsksCommitment ==
    /\ b_monitor.pc = "asking-revocation"
    /\ b_monitor.job # None
    /\ b_monitor' = [b_monitor EXCEPT !.pc = "asking-commitment", !.call = "sent"]
    /\ MonitorUnchanged

\* GET /session-commitments/{id}
ServeSessionCommitment ==
    LET j == commitment_jobs_by_session[b_monitor.session]
        confirmed == j # None /\ records[j].status = "confirmed"
    IN  /\ b_monitor.pc = "asking-commitment"
        /\ b_monitor.call = "sent"
        /\ b_monitor' = [b_monitor EXCEPT !.call = "served",
                !.identifier = IF confirmed THEN records[j].ledger_identifier ELSE None]
        /\ MonitorUnchanged

\* The confirmed commitment has the anchor the revocation names.
Enforceable == b_monitor.identifier # None /\ b_monitor.session_anchor = b_monitor.identifier

\* Mutants: the session is recorded where its revocation job belongs; every
\* session is revoked.
MonitorEnforcesMisfiled ==
    /\ b_monitor.pc = "asking-commitment"
    /\ b_monitor.call = "served"
    /\ Enforceable
    /\ b_sessions' = [b_sessions EXCEPT ![b_monitor.session] =
            [revoked |-> TRUE, revocation_job |-> b_monitor.session]]
    /\ b_monitor' = Scanning(b_monitor.todo)
    /\ UNCHANGED <<ledgerVars, aVars, expired>>

MonitorEnforcesOnAll ==
    /\ b_monitor.pc = "asking-commitment"
    /\ b_monitor.call = "served"
    /\ Enforceable
    /\ b_sessions' = [s \in Sessions |-> IF b_sessions[s] = None THEN None
            ELSE [revoked |-> TRUE, revocation_job |-> b_monitor.job]]
    /\ b_monitor' = Scanning(b_monitor.todo)
    /\ UNCHANGED <<ledgerVars, aVars, expired>>

MonitorEnforces ==
    /\ b_monitor.pc = "asking-commitment"
    /\ b_monitor.call = "served"
    /\ Enforceable
    /\ b_sessions' = [b_sessions EXCEPT ![b_monitor.session] =
            [revoked |-> TRUE, revocation_job |-> b_monitor.job]]
    /\ b_monitor' = Scanning(b_monitor.todo)
    /\ UNCHANGED <<ledgerVars, aVars, expired>>

\* The answer gives no reason to revoke the session.
MonitorContinues ==
    /\ b_monitor.call = "served"
    /\ \/ b_monitor.pc = "asking-revocation" /\ b_monitor.job = None
       \/ b_monitor.pc = "asking-commitment" /\ ~Enforceable
    /\ b_monitor' = Scanning(b_monitor.todo)
    /\ MonitorUnchanged

\* Mutant: the exception ends the task.
MonitorCallKills ==
    /\ b_monitor.call = "sent"
    /\ b_monitor' = [b_monitor EXCEPT !.pc = "ended", !.call = "unsent"]
    /\ MonitorUnchanged

\* httpx.HTTPError: try again on the next scan.
MonitorCallFails ==
    /\ b_monitor.call = "sent"
    /\ b_monitor' = Scanning(b_monitor.todo)
    /\ MonitorUnchanged

MonitorStep ==
    \/ MonitorWakes
    \/ MonitorSleeps
    \/ \E s \in Sessions : MonitorSkips(s) \/ MonitorAsks(s)
    \/ MonitorAsksCommitment
    \/ MonitorEnforces
    \/ MonitorContinues
    \/ MonitorCallFails

-----------------------------------------------------------------------------
LedgerStep ==
    /\ \/ Ledger!WorkerStep
       \/ \E j \in Jobs : Ledger!Chain(j)
       \/ Ledger!Restart
    /\ UNCHANGED <<aVars, bVars, expired>>

Next ==
    \/ \E s \in Sessions :
        \/ EstablishB(s) \/ EstablishA(s)
        \/ \E j \in Jobs : ServeCommitment(s, j)
        \/ CommitmentQueued(s) \/ CommitmentNotQueued(s)
        \/ Expire(s)
    \/ \E r \in Requests :
        \/ \E s \in Sessions : StartRevoke(r, s)
        \/ ServeLookup(r)
        \/ PostRevocation(r)
        \/ \E j \in Jobs : ServeRevocation(r, j)
        \/ RevocationRequested(r)
        \/ RevokeFails(r)
    \/ MonitorStep
    \/ ServeSessionRevocation
    \/ ServeSessionCommitment
    \/ LedgerStep

Spec == Init /\ [][Next]_vars

\* The adapter's and the monitor's tasks keep running.  Of the network: a call
\* the monitor repeats on every scan does not fail every time.
Fairness ==
    /\ Ledger!Fairness
    /\ WF_vars(MonitorStep)
    /\ \A s \in Sessions :
        /\ SF_vars(b_monitor.session = s /\ ServeSessionRevocation)
        /\ SF_vars(b_monitor.session = s /\ ServeSessionCommitment)

FairSpec == Spec /\ Fairness

-----------------------------------------------------------------------------
(* Properties.                                                             *)

Revoked(s) == b_sessions[s] # None /\ b_sessions[s].revoked

\* A session is revoked at Gateway B only by a revocation of this session that
\* is confirmed (on the chain, in iota mode, across restarts of the adapter) and
\* anchored in the session's own confirmed commitment.
EnforcedOnlyIfConfirmed ==
    \A s \in Sessions : Revoked(s) =>
        LET j == b_sessions[s].revocation_job
            c == commitment_jobs_by_session[s]
        IN  /\ j # None
            /\ LedgerMode = "iota" => chain[j] = "final"
            /\ restarts = 0 =>
                /\ c # None
                /\ records[c].status = "confirmed"
                /\ revocation_records[j] =
                        [status |-> "confirmed", session |-> s,
                         session_anchor |-> records[c].ledger_identifier,
                         ledger_identifier |->
                            IF LedgerMode = "iota" THEN j ELSE None]

\* A session nobody asked Gateway A to revoke is never revoked, whatever happens
\* to the sessions next to it in the queues and in the monitor's scan.
RevokedOnlyOnRequest ==
    \A s \in Sessions : Revoked(s) =>
        \E r \in Requests : a_revokes[r].session = s /\ a_revokes[r].call = "served"

\* The anchor Gateway A read stays good for as long as the request that quotes
\* it is under way: unless the adapter restarts, the revocation is accepted,
\* also when it is served after A gave up on it.
PostedIsAccepted ==
    \A r \in Requests : Posted(r) /\ restarts = 0 =>
        Ledger!RevocationAccepted(a_revokes[r].session, a_revokes[r].anchor)

\* Gateway A, the adapter and the chain name one commitment per session: the
\* job A remembers is the job the adapter reports to Gateway B.
GatewaysAgreeOnCommitment ==
    \A s \in Sessions :
        a_sessions[s] # None /\ restarts = 0 =>
            a_sessions[s].ledger_job \in {None, commitment_jobs_by_session[s]}

\* Of two requests that passed the check for a recorded revocation, the answers
\* may overtake each other: Gateway A still records a revocation the adapter
\* accepted for that very session, so its later answer already_requested is true.
RecordedRevocationAccepted ==
    \A s \in Sessions :
        a_sessions[s] # None /\ restarts = 0 =>
            LET j == a_sessions[s].revocation_job
            IN  j # None => revocation_records[j].session = s

\* An accepted revocation takes effect at Gateway B, unless the session expires
\* first or the session's latest revocation job fails or is lost in a restart.
RevocationTakesEffect ==
    \A s \in Sessions :
        revocation_jobs_by_session[s] # None ~>
            \/ Revoked(s)
            \/ s \in expired
            \/ revocation_jobs_by_session[s] = None
            \/ revocation_records[revocation_jobs_by_session[s]].status = "failed"

\* Whatever the gateways, their calls and the monitor do, the adapter settles
\* every job they give it.
JobsSettle == Ledger!JobsSettle
=============================================================================
