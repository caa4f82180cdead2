---------------------------- MODULE LedgerAdapter ----------------------------
(***************************************************************************)
(* The ledger adapter (src/services/ledger-adapter/app/main.py) with its   *)
(* IOTA backend (backends.py).                                             *)
(*                                                                         *)
(* The adapter is one asyncio process.  Its HTTP handlers contain no await *)
(* and so are atomic; a worker task runs atomically from one await to the  *)
(* next, and each such stretch is one action here.  All its state is in    *)
(* memory: a restart of the container loses it, the chain keeps what the   *)
(* chain received.                                                         *)
(*                                                                         *)
(* A transaction digest (or "simulated:<job>") is identified with the job  *)
(* whose worker submitted it: a job submits at most one transaction.       *)
(***************************************************************************)
EXTENDS Naturals, Sequences

CONSTANTS
    Sessions,     \* session identifiers the clients use
    Jobs,         \* supply of uuid4 job identifiers
    Workers,      \* range(WORKER_COUNT), for each of the two kinds of worker
    LedgerMode,   \* LEDGER_MODE
    MaxRestarts,  \* bound on the restarts of the container
    None          \* Python's None

ASSUME NoneAssumption == None \notin Jobs \cup Sessions
ASSUME ModeAssumption == LedgerMode \in {"simulated", "iota"}
ASSUME RestartAssumption == MaxRestarts \in Nat

VARIABLES
    queue,                       \* commitment jobs waiting for a worker
    records,                     \* commitment job -> status record
    commitment_jobs_by_session,  \* session -> its latest commitment job
    commitment_workers,          \* worker -> what it is doing
    revocation_queue,
    revocation_records,
    revocation_jobs_by_session,
    revocation_workers,
    issued,                      \* job identifiers ever drawn from uuid4
    chain,                       \* job -> state of its transaction on the chain
    restarts

commitmentVars == <<queue, records, commitment_jobs_by_session, commitment_workers>>
revocationVars == <<revocation_queue, revocation_records,
                    revocation_jobs_by_session, revocation_workers>>
vars == <<commitmentVars, revocationVars, issued, chain, restarts>>

-----------------------------------------------------------------------------
(* The state of one job, one worker, one transaction.                      *)

InProgress == {"submitting", "confirming"}
Status == {"absent", "queued", "confirmed", "failed"} \cup InProgress

CommitmentRecord ==
    [status: Status, session: Sessions \cup {None},
     ledger_identifier: Jobs \cup {None}]

RevocationRecord ==
    [status: Status, session: Sessions \cup {None},
     ledger_identifier: Jobs \cup {None}, session_anchor: Jobs \cup {None}]

NoCommitment == [status |-> "absent", session |-> None, ledger_identifier |-> None]
NoRevocation == [status |-> "absent", session |-> None,
                 ledger_identifier |-> None, session_anchor |-> None]

\* A record r with its status and identifier assigned.
CommitmentNow(r, status, identifier) ==
    [status |-> status, session |-> r.session, ledger_identifier |-> identifier]
RevocationNow(r, status, identifier) ==
    [status |-> status, session |-> r.session, ledger_identifier |-> identifier,
     session_anchor |-> r.session_anchor]

\* Where a worker is suspended: queue.get(), the simulated sleep, the running
\* CLI command, or the confirmation lookup loop.
Worker == [phase: {"idle"}, job: {None}]
          \cup [phase: {"sleeping", "command", "lookup"}, job: Jobs]
IdleWorker == [phase |-> "idle", job |-> None]

\* "sent": on its way or received, not yet executed; "success": executed, no
\* checkpoint yet; "failure": executed and aborted; "final": success in a checkpoint.
TxState == {"none", "sent", "success", "failure", "final"}

-----------------------------------------------------------------------------
TypeOK ==
    /\ queue \in Seq(Jobs)
    /\ records \in [Jobs -> CommitmentRecord]
    /\ commitment_jobs_by_session \in [Sessions -> Jobs \cup {None}]
    /\ commitment_workers \in [Workers -> Worker]
    /\ revocation_queue \in Seq(Jobs)
    /\ revocation_records \in [Jobs -> RevocationRecord]
    /\ revocation_jobs_by_session \in [Sessions -> Jobs \cup {None}]
    /\ revocation_workers \in [Workers -> Worker]
    /\ issued \subseteq Jobs
    /\ chain \in [Jobs -> TxState]
    /\ restarts \in 0..MaxRestarts

\* The memory of a process that has just started its workers.
NoCommitments == [j \in Jobs |-> NoCommitment]
NoRevocations == [j \in Jobs |-> NoRevocation]
NoJobs == [s \in Sessions |-> None]
IdleWorkers == [w \in Workers |-> IdleWorker]

Init ==
    /\ queue = << >>
    /\ records = NoCommitments
    /\ commitment_jobs_by_session = NoJobs
    /\ commitment_workers = IdleWorkers
    /\ revocation_queue = << >>
    /\ revocation_records = NoRevocations
    /\ revocation_jobs_by_session = NoJobs
    /\ revocation_workers = IdleWorkers
    /\ issued = {}
    /\ chain = [j \in Jobs |-> "none"]
    /\ restarts = 0

-----------------------------------------------------------------------------
(* The POST handlers.  A request whose guard is false is answered 409.     *)

\* Mutants: only a confirmed commitment stands in the way of another one; a
\* confirmed commitment does not.
CommitmentAcceptedUnlessConfirmed(s) ==
    \A existing \in Jobs :
        commitment_jobs_by_session[s] = existing => records[existing].status # "confirmed"

CommitmentAcceptedOnceSettled(s) ==
    \A existing \in Jobs :
        commitment_jobs_by_session[s] = existing =>
            records[existing].status \in {"absent", "failed", "confirmed"}

\* IF   the session has no commitment job, or its latest one failed
\* THEN queue a new job and make it the session's job
CommitmentAccepted(s) ==
    \A existing \in Jobs :
        commitment_jobs_by_session[s] = existing =>
            records[existing].status \in {"absent", "failed"}

SubmitCommitment(s, j) ==
    /\ CommitmentAccepted(s)
    /\ j \notin issued
    /\ issued' = issued \cup {j}
    /\ records' = [records EXCEPT ![j] =
            [status |-> "queued", session |-> s, ledger_identifier |-> None]]
    /\ commitment_jobs_by_session' = [commitment_jobs_by_session EXCEPT ![s] = j]
    /\ queue' = Append(queue, j)
    /\ UNCHANGED <<commitment_workers, revocationVars, chain, restarts>>

\* Mutant: an anchor will do that is not confirmed yet.
RevocationAcceptedUnconfirmed(s, anchor) ==
    LET commitment_job == commitment_jobs_by_session[s]
    IN  /\ commitment_job # None
        /\ records[commitment_job].ledger_identifier # None
        /\ anchor = records[commitment_job].ledger_identifier

\* IF   the session's commitment is confirmed and the request quotes its anchor
\* THEN queue a revocation job; nothing looks at earlier revocations
RevocationAccepted(s, anchor) ==
    LET commitment_job == commitment_jobs_by_session[s]
    IN  /\ commitment_job # None
        /\ records[commitment_job].status = "confirmed"
        /\ records[commitment_job].ledger_identifier # None
        /\ anchor = records[commitment_job].ledger_identifier

SubmitRevocation(s, anchor, j) ==
    /\ RevocationAccepted(s, anchor)
    /\ j \notin issued
    /\ issued' = issued \cup {j}
    /\ revocation_records' = [revocation_records EXCEPT ![j] =
            [status |-> "queued", session |-> s,
             ledger_identifier |-> None, session_anchor |-> anchor]]
    /\ revocation_jobs_by_session' = [revocation_jobs_by_session EXCEPT ![s] = j]
    /\ revocation_queue' = Append(revocation_queue, j)
    /\ UNCHANGED <<commitmentVars, revocation_workers, chain, restarts>>

-----------------------------------------------------------------------------
(* A commitment worker.                                                    *)

FirstPhase == IF LedgerMode = "simulated" THEN "sleeping" ELSE "command"

\* Mutant: the job is looked at but left in the queue.
CommitmentPeek(w) ==
    /\ commitment_workers[w].phase = "idle"
    /\ queue # << >>
    /\ records' = [records EXCEPT ![Head(queue)] =
            CommitmentNow(@, "submitting", @.ledger_identifier)]
    /\ commitment_workers' = [commitment_workers EXCEPT ![w] =
            [phase |-> FirstPhase, job |-> Head(queue)]]
    /\ UNCHANGED <<queue, commitment_jobs_by_session, revocationVars, issued, chain, restarts>>

CommitmentGet(w) ==
    /\ commitment_workers[w].phase = "idle"
    /\ queue # << >>
    /\ queue' = Tail(queue)
    /\ records' = [records EXCEPT ![Head(queue)] =
            CommitmentNow(@, "submitting", @.ledger_identifier)]
    /\ commitment_workers' = [commitment_workers EXCEPT ![w] =
            [phase |-> FirstPhase, job |-> Head(queue)]]
    /\ UNCHANGED <<commitment_jobs_by_session, revocationVars, issued, chain, restarts>>

\* The record takes its final status and the worker returns to queue.get().
CommitmentEnds(w, status, identifier) ==
    LET j == commitment_workers[w].job
    IN  /\ records' = [records EXCEPT ![j] = CommitmentNow(@, status, identifier)]
        /\ commitment_workers' = [commitment_workers EXCEPT ![w] = IdleWorker]
        /\ UNCHANGED <<queue, commitment_jobs_by_session, revocationVars,
                       issued, chain, restarts>>

\* Mutant: the record of a simulated commitment is left as it was.
CommitmentSimulatedFinalityUnmarked(w) ==
    /\ commitment_workers[w].phase = "sleeping"
    /\ CommitmentEnds(w, "submitting", commitment_workers[w].job)

CommitmentSimulatedFinality(w) ==
    /\ commitment_workers[w].phase = "sleeping"
    /\ CommitmentEnds(w, "confirmed", commitment_workers[w].job)

\* The CLI printed a digest: the on_submitted callback runs.
CommitmentSubmitted(w) ==
    LET j == commitment_workers[w].job
    IN  /\ commitment_workers[w].phase = "command"
        /\ chain[j] # "none"
        /\ records' = [records EXCEPT ![j] = CommitmentNow(@, "confirming", j)]
        /\ commitment_workers' = [commitment_workers EXCEPT ![w].phase = "lookup"]
        /\ UNCHANGED <<queue, commitment_jobs_by_session, revocationVars,
                       issued, chain, restarts>>

\* Mutant: a command that failed leaves a status the record does not provide for.
CommitmentCommandTimedOut(w) ==
    /\ commitment_workers[w].phase = "command"
    /\ CommitmentEnds(w, "timeout", records[commitment_workers[w].job].ledger_identifier)

\* The CLI timed out, exited with an error or printed no digest, whether or not
\* its transaction reached the chain.
CommitmentCommandFails(w) ==
    /\ commitment_workers[w].phase = "command"
    /\ CommitmentEnds(w, "failed", records[commitment_workers[w].job].ledger_identifier)

\* Mutant: success is taken for finality.
CommitmentConfirmedEarly(w) ==
    /\ commitment_workers[w].phase = "lookup"
    /\ chain[commitment_workers[w].job] \in {"success", "final"}
    /\ CommitmentEnds(w, "confirmed", commitment_workers[w].job)

CommitmentConfirmed(w) ==
    /\ commitment_workers[w].phase = "lookup"
    /\ chain[commitment_workers[w].job] = "final"
    /\ CommitmentEnds(w, "confirmed", commitment_workers[w].job)

\* The lookup saw a failed execution, an RPC error, or the deadline, which may
\* pass before the loop looks at a transaction that is already final.
CommitmentLookupFails(w) ==
    /\ commitment_workers[w].phase = "lookup"
    /\ CommitmentEnds(w, "failed", records[commitment_workers[w].job].ledger_identifier)

CommitmentWorker(w) ==
    \/ CommitmentGet(w)
    \/ CommitmentSimulatedFinality(w)
    \/ CommitmentSubmitted(w)
    \/ CommitmentCommandFails(w)
    \/ CommitmentConfirmed(w)
    \/ CommitmentLookupFails(w)

-----------------------------------------------------------------------------
(* A revocation worker: the same loop over the revocation state, except    *)
(* that a simulated revocation is given no ledger identifier.              *)

RevocationGet(w) ==
    /\ revocation_workers[w].phase = "idle"
    /\ revocation_queue # << >>
    /\ revocation_queue' = Tail(revocation_queue)
    /\ revocation_records' =
            [revocation_records EXCEPT ![Head(revocation_queue)] =
                RevocationNow(@, "submitting", @.ledger_identifier)]
    /\ revocation_workers' = [revocation_workers EXCEPT ![w] =
            [phase |-> FirstPhase, job |-> Head(revocation_queue)]]
    /\ UNCHANGED <<revocation_jobs_by_session, commitmentVars, issued, chain, restarts>>

RevocationEnds(w, status, identifier) ==
    LET j == revocation_workers[w].job
    IN  /\ revocation_records' = [revocation_records EXCEPT
                ![j] = RevocationNow(@, status, identifier)]
        /\ revocation_workers' = [revocation_workers EXCEPT ![w] = IdleWorker]
        /\ UNCHANGED <<revocation_queue, revocation_jobs_by_session, commitmentVars,
                       issued, chain, restarts>>

RevocationSimulatedFinality(w) ==
    /\ revocation_workers[w].phase = "sleeping"
    /\ RevocationEnds(w, "confirmed", None)

RevocationSubmitted(w) ==
    LET j == revocation_workers[w].job
    IN  /\ revocation_workers[w].phase = "command"
        /\ chain[j] # "none"
        /\ revocation_records' = [revocation_records EXCEPT
                ![j] = RevocationNow(@, "confirming", j)]
        /\ revocation_workers' = [revocation_workers EXCEPT ![w].phase = "lookup"]
        /\ UNCHANGED <<revocation_queue, revocation_jobs_by_session, commitmentVars,
                       issued, chain, restarts>>

\* Mutant: the exception ends the worker task.
RevocationCommandKills(w) ==
    LET j == revocation_workers[w].job
    IN  /\ revocation_workers[w].phase = "command"
        /\ revocation_records' = [revocation_records EXCEPT ![j] =
                RevocationNow(@, "failed", @.ledger_identifier)]
        /\ revocation_workers' = [revocation_workers EXCEPT ![w] =
                [phase |-> "ended", job |-> None]]
        /\ UNCHANGED <<revocation_queue, revocation_jobs_by_session, commitmentVars,
                       issued, chain, restarts>>

RevocationCommandFails(w) ==
    /\ revocation_workers[w].phase = "command"
    /\ RevocationEnds(w, "failed",
                      revocation_records[revocation_workers[w].job].ledger_identifier)

RevocationConfirmed(w) ==
    /\ revocation_workers[w].phase = "lookup"
    /\ chain[revocation_workers[w].job] = "final"
    /\ RevocationEnds(w, "confirmed", revocation_workers[w].job)

RevocationLookupFails(w) ==
    /\ revocation_workers[w].phase = "lookup"
    /\ RevocationEnds(w, "failed",
                      revocation_records[revocation_workers[w].job].ledger_identifier)

RevocationWorker(w) ==
    \/ RevocationGet(w)
    \/ RevocationSimulatedFinality(w)
    \/ RevocationSubmitted(w)
    \/ RevocationCommandFails(w)
    \/ RevocationConfirmed(w)
    \/ RevocationLookupFails(w)

-----------------------------------------------------------------------------
(* The environment: the chain and the container's restart policy.          *)

CommandRunning(j) ==
    \E w \in Workers : \/ commitment_workers[w] = [phase |-> "command", job |-> j]
                       \/ revocation_workers[w] = [phase |-> "command", job |-> j]

ChainStep(j, from, to) ==
    /\ chain[j] = from
    /\ chain' = [chain EXCEPT ![j] = to]
    /\ UNCHANGED <<commitmentVars, revocationVars, issued, restarts>>

ChainReceive(j) == CommandRunning(j) /\ ChainStep(j, "none", "sent")
ChainExecute(j) == ChainStep(j, "sent", "success") \/ ChainStep(j, "sent", "failure")
ChainCheckpoint(j) == ChainStep(j, "success", "final")
Chain(j) == ChainReceive(j) \/ ChainExecute(j) \/ ChainCheckpoint(j)

Restart ==
    /\ restarts < MaxRestarts
    /\ restarts' = restarts + 1
    /\ queue' = << >>
    /\ records' = NoCommitments
    /\ commitment_jobs_by_session' = NoJobs
    /\ commitment_workers' = IdleWorkers
    /\ revocation_queue' = << >>
    /\ revocation_records' = NoRevocations
    /\ revocation_jobs_by_session' = NoJobs
    /\ revocation_workers' = IdleWorkers
    /\ UNCHANGED <<issued, chain>>

-----------------------------------------------------------------------------
WorkerStep == \E w \in Workers : CommitmentWorker(w) \/ RevocationWorker(w)

ClientRequest ==
    \E s \in Sessions, j \in Jobs :
        \/ SubmitCommitment(s, j)
        \/ \E anchor \in Jobs : SubmitRevocation(s, anchor, j)

Next ==
    \/ ClientRequest
    \/ WorkerStep
    \/ \E j \in Jobs : Chain(j)
    \/ Restart

Spec == Init /\ [][Next]_vars

\* The event loop keeps running every worker task, the simulated sleep ends, a
\* command is killed at its timeout and the lookup loop ends at its deadline.
\* Nothing is assumed of the chain.
Fairness ==
    \A w \in Workers : WF_vars(CommitmentWorker(w)) /\ WF_vars(RevocationWorker(w))

FairSpec == Spec /\ Fairness

-----------------------------------------------------------------------------
(* Properties.                                                             *)

\* Every job is where its record says: queued jobs are in the queue once, and a
\* job being submitted or confirmed is held by exactly one worker.  So no
\* accepted job is lost and none is submitted twice.
Held(workers, j) == {w \in Workers : workers[w].job = j}

Owned(q, recs, workers) ==
    /\ \A i, k \in 1..Len(q) : q[i] = q[k] => i = k
    /\ \A j \in Jobs :
        /\ recs[j].status = "queued" <=> \E i \in 1..Len(q) : q[i] = j
        /\ recs[j].status \in InProgress <=> Held(workers, j) # {}
        /\ \A v, w \in Held(workers, j) : v = w

CommitmentJobsOwned == Owned(queue, records, commitment_workers)
RevocationJobsOwned == Owned(revocation_queue, revocation_records, revocation_workers)
JobsOwned == CommitmentJobsOwned /\ RevocationJobsOwned

\* A session has at most one commitment that has not failed, and it is the one
\* GET /session-commitments returns: a late failure never overtakes a retry.
OneLiveCommitment ==
    \A j \in Jobs :
        records[j].status \notin {"absent", "failed"} =>
            commitment_jobs_by_session[records[j].session] = j

\* Every revocation ever accepted names the anchor of the commitment that is
\* still its session's confirmed commitment, however the retries, workers and
\* revocation requests interleave: Gateway B's anchor comparison agrees.
RevocationsAnchored ==
    \A r \in Jobs :
        revocation_records[r].status # "absent" =>
            LET c == commitment_jobs_by_session[revocation_records[r].session]
            IN  /\ c # None
                /\ records[c].status = "confirmed"
                /\ revocation_records[r].session_anchor = records[c].ledger_identifier

\* In iota mode, "confirmed" is reported only of a transaction that executed
\* successfully and is in a checkpoint.
ConfirmedIsFinal ==
    LedgerMode = "iota" =>
        \A j \in Jobs :
            (records[j].status = "confirmed" \/ revocation_records[j].status = "confirmed")
                => chain[j] = "final"

\* While the process lives, a settled record is settled for good and a
\* session's confirmed commitment is never replaced.
SettledStep ==
    /\ \A j \in Jobs :
        /\ records[j].status \in {"confirmed", "failed"} => records'[j] = records[j]
        /\ revocation_records[j].status \in {"confirmed", "failed"} =>
               revocation_records'[j] = revocation_records[j]
    /\ \A s \in Sessions :
        LET c == commitment_jobs_by_session[s]
        IN  (c # None /\ records[c].status = "confirmed") =>
                commitment_jobs_by_session'[s] = c

SettledForGood == [][restarts' = restarts => SettledStep]_vars

\* Every accepted job is settled, or lost in a restart: a failing job does not
\* stop its worker and none waits in the queue for ever.
Settled(j) ==
    {records[j].status, revocation_records[j].status} \subseteq
        {"absent", "confirmed", "failed"}

JobsSettle == \A j \in Jobs : []<>Settled(j)

\* In simulated mode nothing fails, so a session is committed only once: of any
\* number of requests, before or after finality, the adapter accepts one.
SimulatedCommitsOnce ==
    LedgerMode = "simulated" =>
        \A j, k \in Jobs :
            /\ records[j].status # "absent"
            /\ records[k].status # "absent"
            /\ records[j].session = records[k].session
            => j = k

\* In simulated mode every accepted job is confirmed, or lost in a restart.
SimulatedConfirms ==
    LedgerMode = "simulated" =>
        \A j \in Jobs :
            /\ records[j].status = "queued" ~>
                   records[j].status \in {"confirmed", "absent"}
            /\ revocation_records[j].status = "queued" ~>
                   revocation_records[j].status \in {"confirmed", "absent"}

\* docs/experiments-b-c.md on the live backend: one worker, because concurrent
\* transactions of one address contend for one gas coin.  No two submission
\* commands run at the same time.
OneSubmissionAtATime ==
    \A j, k \in Jobs : CommandRunning(j) /\ CommandRunning(k) => j = k

-----------------------------------------------------------------------------
(* The inductive invariant behind the safety properties.                   *)

\* An identifier uuid4 has not drawn is nowhere in the records.
UnissuedAbsent ==
    \A j \in Jobs \ issued :
        records[j].status = "absent" /\ revocation_records[j].status = "absent"

\* A record that exists has a session.
RecordsNameSessions ==
    \A j \in Jobs :
        /\ records[j].status # "absent" => records[j].session \in Sessions
        /\ revocation_records[j].status # "absent" =>
               revocation_records[j].session \in Sessions

\* In iota mode no worker ever sleeps instead of submitting.
NoSimulatedSleep ==
    LedgerMode = "iota" =>
        \A w \in Workers : /\ commitment_workers[w].phase # "sleeping"
                           /\ revocation_workers[w].phase # "sleeping"

IInv ==
    /\ TypeOK
    /\ JobsOwned
    /\ OneLiveCommitment
    /\ RevocationsAnchored
    /\ ConfirmedIsFinal
    /\ UnissuedAbsent
    /\ RecordsNameSessions
    /\ NoSimulatedSleep
=============================================================================
