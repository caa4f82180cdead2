--------------------------- MODULE RevocationCase ---------------------------
(***************************************************************************)
(* A case of the revocation benchmark (issue_revocation_case, in           *)
(* src/services/loadgen/app/benchmark.py) run against SessionRevocation:   *)
(* create two sessions, revoke one of them, and watch it being revoked     *)
(* while the other one stays usable.                                       *)
(*                                                                         *)
(* The case is a client: what it reports is what the evaluation says of    *)
(* the system.  A read-only call is one step, taken when the service       *)
(* answers it; the polls that make a poller go round again change nothing  *)
(* and are stuttering steps.                                               *)
(***************************************************************************)
EXTENDS SessionRevocation

CONSTANTS session_a, session_b  \* to be revoked; the control

ASSUME CaseAssumption == Sessions = {session_a, session_b} /\ session_a # session_b

\* The case posts one revocation.
ASSUME RequestAssumption == \E r \in Requests : Requests = {r}

VARIABLES
    case,          \* the coroutine issue_revocation_case
    confirmation,  \* its task wait_for_revocation_confirmation
    rejection      \* its task wait_for_rejection

caseVars == <<case, confirmation, rejection>>
allVars == <<vars, caseVars>>

-----------------------------------------------------------------------------
Ended == {"ok", "failed"}

\* The answers of POST /sessions/{id}/validate-action.
Answers == {"unknown", "revoked", "expired", "authorized"}

validate_session_action(s) ==
    CASE b_sessions[s] = None -> "unknown"
      [] Revoked(s) -> "revoked"
      [] b_sessions[s] # None /\ ~Revoked(s) /\ s \in expired -> "expired"
      [] OTHER -> "authorized"

\* What the case awaits, the calls that change the system's state it ever made
\* ("revoke" and the sessions it created), the job it was told of, and the
\* answers it reports.
Case == [pc: {"creating-a", "creating-b", "validating-a", "validating-b",
              "anchoring", "revoking", "watching", "control", "reuse"} \cup Ended,
         created: SUBSET Sessions, job: OptionalJob,
         control: Answers \cup {None}, reuse: Answers \cup {None}]

CaseTypeOK ==
    /\ TypeOK
    /\ case \in Case
    /\ confirmation \in {"unborn", "polling", "confirmed", "raised"}
    /\ rejection \in {"unborn", "polling", "rejected", "raised"}

CaseInit ==
    /\ Init
    /\ case = [pc |-> "creating-a", created |-> {session_a}, job |-> None,
               control |-> None, reuse |-> None]
    /\ confirmation = "unborn"
    /\ rejection = "unborn"

-----------------------------------------------------------------------------
(* issue_revocation_case                                                   *)

AtCase(pc) == case.pc = pc /\ UNCHANGED <<vars, confirmation, rejection>>

\* Gateway A answers POST /sessions once it is done with the commitment.
CreatedA ==
    /\ AtCase("creating-a")
    /\ a_commits[session_a].pc = "done"
    /\ case' = [case EXCEPT !.pc = "creating-b", !.created = {session_a, session_b}]

CreatedB ==
    /\ AtCase("creating-b")
    /\ a_commits[session_b].pc = "done"
    /\ case' = [case EXCEPT !.pc = "validating-a"]

UsableBefore(pc, s, next) ==
    /\ AtCase(pc)
    /\ validate_session_action(s) = "authorized"
    /\ case' = [case EXCEPT !.pc = next]

\* session_a has a ledger job, and wait_for_session_commitment_confirmation
\* returns it as confirmed with an anchor.
Anchored ==
    /\ AtCase("anchoring")
    /\ a_sessions[session_a].ledger_job # None
    /\ LET record == records[a_sessions[session_a].ledger_job]
       IN  /\ record.status = "confirmed"
           /\ record.ledger_identifier # None
           /\ record.session = session_a
    /\ case' = [case EXCEPT !.pc = "revoking"]

\* Mutant: the answer's session_id is taken for the job to poll.
RevokeAnsweredSession(r) ==
    /\ case.pc = "revoking"
    /\ a_revokes[r].pc = "done"
    /\ case' = [case EXCEPT !.pc = "watching", !.job = a_revokes[r].session]
    /\ confirmation' = "polling"
    /\ rejection' = "polling"
    /\ UNCHANGED vars

\* Gateway A's answer to POST /sessions/{id}/revoke starts both pollers.
RevokeAnswered(r) ==
    /\ case.pc = "revoking"
    /\ a_revokes[r].pc = "done"
    /\ case' = [case EXCEPT !.pc = "watching", !.job = a_revokes[r].job]
    /\ confirmation' = "polling"
    /\ rejection' = "polling"
    /\ UNCHANGED vars

\* Mutant: the case goes on as soon as one of its tasks is done.
GatheredFirst ==
    /\ AtCase("watching")
    /\ confirmation = "confirmed" \/ rejection = "rejected"
    /\ case' = [case EXCEPT !.pc = "control"]

\* asyncio.gather
Gathered ==
    /\ AtCase("watching")
    /\ confirmation = "confirmed"
    /\ rejection = "rejected"
    /\ case' = [case EXCEPT !.pc = "control"]

ControlValidated ==
    /\ AtCase("control")
    /\ case' = [case EXCEPT !.pc = "reuse", !.control = validate_session_action(session_b)]

ReuseValidated ==
    /\ AtCase("reuse")
    /\ case' = [case EXCEPT !.pc = "ok", !.reuse = validate_session_action(session_a)]

\* A call times out or gets an unexpected answer, or a poll reaches its
\* deadline; and gather raises the first exception of its tasks.
CallRaises ==
    /\ AtCase(case.pc)
    /\ case.pc \notin Ended \cup {"watching"}
    /\ case' = [case EXCEPT !.pc = "failed"]

GatherRaises ==
    /\ AtCase("watching")
    /\ "raised" \in {confirmation, rejection}
    /\ case' = [case EXCEPT !.pc = "failed"]

-----------------------------------------------------------------------------
(* The two pollers.  gather does not cancel the one that is left.          *)

AtConfirmation == confirmation = "polling" /\ UNCHANGED <<vars, case, rejection>>
AtRejection == rejection = "polling" /\ UNCHANGED <<vars, case, confirmation>>

ConfirmationObserved ==
    /\ AtConfirmation
    /\ revocation_records[case.job].status = "confirmed"
    /\ confirmation' = "confirmed"

\* The job failed, the adapter no longer knows it, or a call raised.
ConfirmationRaises ==
    /\ AtConfirmation
    /\ confirmation' = "raised"

\* Mutant: any 403 counts.
RejectionObservedAny403 ==
    /\ AtRejection
    /\ validate_session_action(session_a) \in {"revoked", "expired"}
    /\ rejection' = "rejected"

RejectionObserved ==
    /\ AtRejection
    /\ validate_session_action(session_a) = "revoked"
    /\ rejection' = "rejected"

\* Another 403, another status, or a call raised.
RejectionRaises ==
    /\ AtRejection
    /\ rejection' = "raised"

\* Mutant: wait_for_rejection has no deadline of its own.
DeadlineOfConfirmation ==
    /\ AtConfirmation
    /\ confirmation' = "raised"

\* while time.monotonic() < deadline
DeadlinePasses ==
    \/ AtConfirmation /\ confirmation' = "raised"
    \/ AtRejection /\ rejection' = "raised"

-----------------------------------------------------------------------------
CaseProgress ==
    \/ CreatedA \/ CreatedB
    \/ UsableBefore("validating-a", session_a, "validating-b")
    \/ UsableBefore("validating-b", session_b, "anchoring")
    \/ Anchored
    \/ \E r \in Requests : RevokeAnswered(r)
    \/ Gathered \/ GatherRaises
    \/ ControlValidated \/ ReuseValidated

\* The system, which handles the case's requests and no others; a handler whose
\* client gave up runs to its end.
SystemStep ==
    /\ \/ \E s \in case.created :
            \/ EstablishB(s) \/ EstablishA(s)
            \/ \E j \in Jobs : ServeCommitment(s, j)
            \/ CommitmentQueued(s) \/ CommitmentNotQueued(s)
            \/ Expire(s)
       \/ \E r \in Requests :
            \/ case.pc = "revoking" /\ StartRevoke(r, session_a)
            \/ ServeLookup(r)
            \/ PostRevocation(r)
            \/ \E j \in Jobs : ServeRevocation(r, j)
            \/ RevocationRequested(r)
            \/ RevokeFails(r)
       \/ MonitorStep
       \/ ServeSessionRevocation
       \/ ServeSessionCommitment
       \/ LedgerStep
    /\ UNCHANGED caseVars

CaseNext ==
    \/ SystemStep
    \/ CaseProgress
    \/ CallRaises
    \/ ConfirmationObserved \/ ConfirmationRaises
    \/ RejectionObserved \/ RejectionRaises
    \/ DeadlinePasses

CaseSpec == CaseInit /\ [][CaseNext]_allVars

\* The client's timeout ends a call and its deadline a poll; nothing is assumed
\* of the services, which may never answer.
CaseFairness ==
    /\ WF_allVars(CaseProgress)
    /\ WF_allVars(CallRaises)
    /\ WF_allVars(DeadlinePasses)

FairCaseSpec == CaseSpec /\ CaseFairness

-----------------------------------------------------------------------------
(* Properties.                                                             *)

\* A case reported ok tells the truth: Gateway B has revoked session_a, on the
\* very job the case timed, its reuse was refused as revoked, and the control
\* session is not revoked: only its expiry can have failed it.
CaseTruthful ==
    case.pc = "ok" =>
        /\ Revoked(session_a)
        /\ b_sessions[session_a].revocation_job = case.job
        /\ case.reuse = "revoked"
        /\ ~Revoked(session_b)
        /\ case.control \in {"authorized", "expired"}

\* The intervals the case reports are never negative: by the time a rejection is
\* observed the adapter has confirmed the revocation the case asked for, however
\* far the poller that waits for the confirmation lags behind.
RejectedAfterConfirmed ==
    rejection = "rejected" /\ restarts = 0 =>
        revocation_records[case.job].status = "confirmed"

\* Every case ends, whatever the services do: it never waits for a session that
\* nobody will revoke any more.
CaseEnds == <>(case.pc \in Ended)
=============================================================================
