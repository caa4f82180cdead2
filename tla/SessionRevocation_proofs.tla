----------------------- MODULE SessionRevocation_proofs -----------------------
(* Theorems about SessionRevocation, for any sessions, requests, jobs,     *)
(* workers, mode and number of restarts: its safety properties, and that   *)
(* it implements SessionLifecycle.                                         *)
(*                                                                         *)
(* The adapter is taken with its theorems: Adapter is the adapter of       *)
(* LedgerAdapter_proofs, Ledger the same module as SessionRevocation uses  *)
(* it.  Their definitions are the same and are only matched once, here.    *)
EXTENDS SessionRevocationToLifecycle, TLAPS

Adapter == INSTANCE LedgerAdapter_proofs

-----------------------------------------------------------------------------
(* The adapter.                                                            *)

\* An adapter that has just started satisfies its invariant.
LEMMA LedgerInit == Ledger!Init => Adapter!Init /\ Adapter!CallerInv
<1>1. Ledger!Init => Adapter!Init
  BY DEF Ledger!Init, Adapter!Init, Ledger!NoCommitments, Adapter!NoCommitments,
      Ledger!NoRevocations, Adapter!NoRevocations, Ledger!NoJobs, Adapter!NoJobs,
      Ledger!IdleWorkers, Adapter!IdleWorkers, Ledger!NoCommitment, Adapter!NoCommitment,
      Ledger!NoRevocation, Adapter!NoRevocation, Ledger!IdleWorker, Adapter!IdleWorker
<1>2. QED
  BY <1>1, Adapter!InitCallerInv, NoneAssumption, ModeAssumption, RestartAssumption

\* A request served by the adapter is a step of the adapter ...
LEMMA LedgerCommitment ==
    ASSUME NEW s \in Sessions, NEW j \in Jobs, Ledger!SubmitCommitment(s, j)
    PROVE  Adapter!Next
<1>1. Adapter!SubmitCommitment(s, j)
  BY DEF Ledger!SubmitCommitment, Adapter!SubmitCommitment, Ledger!CommitmentAccepted,
      Adapter!CommitmentAccepted, Ledger!revocationVars, Adapter!revocationVars
<1>2. QED
  BY <1>1 DEF Adapter!Next, Adapter!ClientRequest

LEMMA LedgerRevocation ==
    ASSUME NEW s \in Sessions, NEW anchor \in Jobs, NEW j \in Jobs,
           Ledger!SubmitRevocation(s, anchor, j)
    PROVE  Adapter!Next
<1>1. Adapter!SubmitRevocation(s, anchor, j)
  BY DEF Ledger!SubmitRevocation, Adapter!SubmitRevocation, Ledger!RevocationAccepted,
      Adapter!RevocationAccepted, Ledger!commitmentVars, Adapter!commitmentVars
<1>2. QED
  BY <1>1 DEF Adapter!Next, Adapter!ClientRequest

\* ... and so is a step of its workers, of the chain, and a restart.
LEMMA LedgerOwnStep == LedgerStep => Adapter!OwnStep /\ Adapter!Next
<1> USE DEF Ledger!commitmentVars, Adapter!commitmentVars, Ledger!revocationVars,
        Adapter!revocationVars, Ledger!IdleWorker, Adapter!IdleWorker
<1>1. ASSUME NEW w \in Workers, Ledger!CommitmentWorker(w)
      PROVE  Adapter!CommitmentWorker(w)
  <2> USE DEF Ledger!CommitmentNow, Adapter!CommitmentNow, Ledger!CommitmentEnds,
          Adapter!CommitmentEnds
  <2>1. Ledger!CommitmentGet(w) => Adapter!CommitmentGet(w)
    BY DEF Ledger!CommitmentGet, Adapter!CommitmentGet, Ledger!FirstPhase, Adapter!FirstPhase
  <2>2. Ledger!CommitmentSimulatedFinality(w) => Adapter!CommitmentSimulatedFinality(w)
    BY DEF Ledger!CommitmentSimulatedFinality, Adapter!CommitmentSimulatedFinality
  <2>3. Ledger!CommitmentSubmitted(w) => Adapter!CommitmentSubmitted(w)
    BY DEF Ledger!CommitmentSubmitted, Adapter!CommitmentSubmitted
  <2>4. Ledger!CommitmentCommandFails(w) => Adapter!CommitmentCommandFails(w)
    BY DEF Ledger!CommitmentCommandFails, Adapter!CommitmentCommandFails
  <2>5. Ledger!CommitmentConfirmed(w) => Adapter!CommitmentConfirmed(w)
    BY DEF Ledger!CommitmentConfirmed, Adapter!CommitmentConfirmed
  <2>6. Ledger!CommitmentLookupFails(w) => Adapter!CommitmentLookupFails(w)
    BY DEF Ledger!CommitmentLookupFails, Adapter!CommitmentLookupFails
  <2>7. QED
    BY <1>1, <2>1, <2>2, <2>3, <2>4, <2>5, <2>6
    DEF Ledger!CommitmentWorker, Adapter!CommitmentWorker
<1>2. ASSUME NEW w \in Workers, Ledger!RevocationWorker(w)
      PROVE  Adapter!RevocationWorker(w)
  <2> USE DEF Ledger!RevocationNow, Adapter!RevocationNow, Ledger!RevocationEnds,
          Adapter!RevocationEnds
  <2>1. Ledger!RevocationGet(w) => Adapter!RevocationGet(w)
    BY DEF Ledger!RevocationGet, Adapter!RevocationGet, Ledger!FirstPhase, Adapter!FirstPhase
  <2>2. Ledger!RevocationSimulatedFinality(w) => Adapter!RevocationSimulatedFinality(w)
    BY DEF Ledger!RevocationSimulatedFinality, Adapter!RevocationSimulatedFinality
  <2>3. Ledger!RevocationSubmitted(w) => Adapter!RevocationSubmitted(w)
    BY DEF Ledger!RevocationSubmitted, Adapter!RevocationSubmitted
  <2>4. Ledger!RevocationCommandFails(w) => Adapter!RevocationCommandFails(w)
    BY DEF Ledger!RevocationCommandFails, Adapter!RevocationCommandFails
  <2>5. Ledger!RevocationConfirmed(w) => Adapter!RevocationConfirmed(w)
    BY DEF Ledger!RevocationConfirmed, Adapter!RevocationConfirmed
  <2>6. Ledger!RevocationLookupFails(w) => Adapter!RevocationLookupFails(w)
    BY DEF Ledger!RevocationLookupFails, Adapter!RevocationLookupFails
  <2>7. QED
    BY <1>2, <2>1, <2>2, <2>3, <2>4, <2>5, <2>6
    DEF Ledger!RevocationWorker, Adapter!RevocationWorker
<1>3. ASSUME NEW j \in Jobs, Ledger!Chain(j)
      PROVE  Adapter!Chain(j)
  BY <1>3 DEF Ledger!Chain, Adapter!Chain, Ledger!ChainReceive, Adapter!ChainReceive,
      Ledger!CommandRunning, Adapter!CommandRunning, Ledger!ChainStep, Adapter!ChainStep,
      Ledger!ChainExecute, Adapter!ChainExecute, Ledger!ChainCheckpoint,
      Adapter!ChainCheckpoint
<1>4. Ledger!Restart => Adapter!Restart
  BY DEF Ledger!Restart, Adapter!Restart, Ledger!NoCommitments, Adapter!NoCommitments,
      Ledger!NoRevocations, Adapter!NoRevocations, Ledger!NoJobs, Adapter!NoJobs,
      Ledger!IdleWorkers, Adapter!IdleWorkers, Ledger!NoCommitment, Adapter!NoCommitment,
      Ledger!NoRevocation, Adapter!NoRevocation
<1>5. QED
  BY <1>1, <1>2, <1>3, <1>4 DEF LedgerStep, Ledger!WorkerStep, Adapter!WorkerStep,
      Adapter!OwnStep, Adapter!Next

\* What the adapter's invariant says in terms of its variables.
LEMMA LedgerFacts ==
    ASSUME Adapter!CallerInv
    PROVE  /\ Ledger!TypeOK
           /\ \A j \in Jobs \ issued : /\ records[j].status = "absent"
                                     /\ revocation_records[j].status = "absent"
           /\ LedgerMode = "iota" =>
                  \A j \in Jobs : revocation_records[j].status = "confirmed" => chain[j] = "final"
           /\ \A j \in Jobs :
                  revocation_records[j].status # "absent" =>
                      LET c == commitment_jobs_by_session[revocation_records[j].session]
                      IN  /\ c # None
                          /\ records[c].status = "confirmed"
                          /\ revocation_records[j].session_anchor = records[c].ledger_identifier
           /\ \A s \in Sessions, j \in Jobs :
                  commitment_jobs_by_session[s] = j =>
                      records[j].status # "absent" /\ records[j].session = s
           /\ \A s \in Sessions, j \in Jobs :
                  revocation_jobs_by_session[s] = j =>
                      /\ revocation_records[j].status # "absent"
                      /\ revocation_records[j].session = s
           /\ \A j \in Jobs :
                  revocation_records[j].status = "confirmed" =>
                      revocation_records[j].ledger_identifier =
                          IF LedgerMode = "iota" THEN j ELSE None
<1>1. Adapter!IInv /\ Adapter!RevocationsTraced /\ Adapter!CommitmentsFiled
  BY DEF Adapter!CallerInv
<1>2. Adapter!TypeOK => Ledger!TypeOK
  BY DEF Adapter!TypeOK, Ledger!TypeOK, Adapter!CommitmentRecord, Ledger!CommitmentRecord,
      Adapter!RevocationRecord, Ledger!RevocationRecord, Adapter!Status, Ledger!Status,
      Adapter!InProgress, Ledger!InProgress, Adapter!Worker, Ledger!Worker, Adapter!TxState,
      Ledger!TxState
<1>3. QED
  BY <1>1, <1>2 DEF Adapter!IInv, Adapter!UnissuedAbsent, Adapter!ConfirmedIsFinal,
      Adapter!RevocationsAnchored, Adapter!RevocationsTraced, Adapter!RevocationsFiled,
      Adapter!RevocationsIdentified, Adapter!CommitmentsFiled

\* What the gateways may rely on: on the chain, on nothing being revoked that was
\* not requested, and as long as the adapter does not restart on its records.
LedgerKept ==
    /\ \A j \in Jobs : chain[j] = "final" => chain'[j] = "final"
    /\ \A j \in Jobs :
           revocation_records'[j].status # "absent" =>
               \/ /\ revocation_records[j].status # "absent"
                  /\ revocation_records'[j].session = revocation_records[j].session
               \/ j \in issued' \ issued
    /\ restarts' = 0 =>
        /\ restarts = 0
        /\ \A j \in Jobs :
             /\ records[j].status = "confirmed" => records'[j] = records[j]
             /\ revocation_records[j].status = "confirmed" =>
                    revocation_records'[j] = revocation_records[j]
             /\ revocation_records[j].status # "absent" =>
                    /\ revocation_records'[j].status # "absent"
                    /\ revocation_records'[j].session = revocation_records[j].session
        /\ \A s \in Sessions :
             LET c == commitment_jobs_by_session[s]
             IN  c # None /\ records[c].status = "confirmed" =>
                     commitment_jobs_by_session'[s] = c

\* Every step of the adapter, and every step that leaves it alone, keeps it.
LEMMA LedgerKeeps ==
    ASSUME Adapter!CallerInv, Adapter!Next \/ UNCHANGED ledgerVars
    PROVE  Adapter!CallerInv' /\ LedgerKept
<1>1. [Adapter!Next]_(Adapter!vars)
  BY DEF ledgerVars, Adapter!vars, Adapter!commitmentVars, Adapter!revocationVars
<1>2. /\ Adapter!CallerInv' /\ Adapter!RevocationsOld
      /\ \A j \in Jobs : chain[j] = "final" => chain'[j] = "final"
      /\ restarts' = 0 => restarts = 0 /\ Adapter!SettledStep /\ Adapter!RevocationsKept
  BY <1>1, Adapter!StepKeeps, NoneAssumption, ModeAssumption, RestartAssumption
<1>3. QED
  BY <1>2 DEF Adapter!SettledStep, Adapter!RevocationsKept, Adapter!RevocationsOld, LedgerKept

-----------------------------------------------------------------------------
(* The inductive invariant.                                                *)

\* A stored session has posted its commitment, and remembers the job it was told;
\* the adapter has served that call at most once.
CommitsInv ==
    \A s \in Sessions :
        /\ a_commits[s].pc = "idle" <=> a_sessions[s] = None
        /\ a_commits[s].pc = "idle" => a_commits[s].call = "unsent"
        /\ a_commits[s].call = "served" <=> a_commits[s].job # None
        /\ a_sessions[s] # None => a_sessions[s].ledger_job \in {None, a_commits[s].job}
        /\ restarts = 0 => commitment_jobs_by_session[s] = a_commits[s].job

\* j is a revocation of s the adapter accepted and, unless it restarted, remembers.
Accepted(s, j) ==
    restarts = 0 => /\ revocation_records[j].status # "absent"
                    /\ revocation_records[j].session = s

\* A session whose commitment was queued.
Queued(s) == s \in Sessions /\ a_sessions[s] # None /\ a_sessions[s].ledger_job # None

\* Where a revoke request c is and what it knows: its session, which has a queued
\* commitment; once its lookup was served an anchor, which stays good unless the
\* adapter restarts; once its revocation was served a job, which is one of its
\* session.
RevokeInv(c) ==
    /\ c.pc # "idle" => Queued(c.session)
    /\ c.pc = "idle" => c.call = "unsent" /\ c.anchor = None
    /\ c.pc = "looking-up" /\ c.call = "sent" => c.anchor = None
    /\ c.pc = "posting" => c.call # "unsent"
    /\ c.pc = "posting" /\ c.call = "served" => c.job # None
    /\ c.pc = "done" => c.job # None
    /\ c.job # None => c.call = "served" /\ c.pc \notin {"idle", "looking-up"}
    /\ c.anchor # None /\ restarts = 0 => Ledger!RevocationAccepted(c.session, c.anchor)
    /\ c.job # None => Accepted(c.session, c.job)

RevokesInv == \A r \in Requests : RevokeInv(a_revokes[r])

\* The revocation a session records is one of its own.
RecordedInv ==
    \A s \in Sessions :
        a_sessions[s] # None /\ a_sessions[s].revocation_job # None =>
            Accepted(s, a_sessions[s].revocation_job)

\* A request about s had its revocation accepted as job j.
Asked(s, j) == \E r \in Requests : a_revokes[r].session = s /\ a_revokes[r].job = j

\* Every revocation the adapter remembers was asked for.
RequestedInv ==
    \A j \in Jobs : revocation_records[j].status # "absent" =>
        Asked(revocation_records[j].session, j)

\* j is a confirmed revocation of s: on the chain for good, in the adapter's
\* records unless it restarts.
ConfirmedRevocation(s, j) ==
    /\ j \in Jobs
    /\ Asked(s, j)
    /\ LedgerMode = "iota" => chain[j] = "final"
    /\ restarts = 0 => /\ revocation_records[j].status = "confirmed"
                       /\ revocation_records[j].session = s

\* The monitor only acts on confirmed revocations of the session it asks about.
MonitorInv ==
    /\ b_monitor.pc \in {"asking-revocation", "asking-commitment"} =>
           b_monitor.session \in Sessions
    /\ b_monitor.pc \in {"sleeping", "scanning"} => b_monitor.call = "unsent" /\ b_monitor.job = None
    /\ b_monitor.pc = "asking-commitment" => b_monitor.job # None
    /\ b_monitor.job # None => ConfirmedRevocation(b_monitor.session, b_monitor.job)

RevokedInv ==
    \A s \in Sessions : Revoked(s) => ConfirmedRevocation(s, b_sessions[s].revocation_job)

GatewaysInv ==
    /\ TypeOK
    /\ CommitsInv
    /\ RevokesInv
    /\ RecordedInv
    /\ RequestedInv
    /\ MonitorInv
    /\ RevokedInv

IInv == Adapter!CallerInv /\ GatewaysInv

-----------------------------------------------------------------------------
(* Types.                                                                  *)

LEMMA InitIInv == Init => IInv
<1> SUFFICES ASSUME Init
             PROVE  IInv
  OBVIOUS
<1>1. Adapter!CallerInv
  BY LedgerInit DEF Init
<1>2. TypeOK
  BY <1>1, LedgerFacts, SMT DEF Init, TypeOK, ASession, BSession, Commit, Revoke, Monitor,
      OptionalJob, Call, Scanning
<1>3. CommitsInv
  <2>1. SUFFICES ASSUME NEW s \in Sessions
                 PROVE  /\ a_sessions[s] = None
                        /\ commitment_jobs_by_session[s] = None
                        /\ a_commits[s].pc = "idle"
                        /\ a_commits[s].call = "unsent"
                        /\ a_commits[s].job = None
    BY Zenon DEF CommitsInv
  <2>2. QED
    BY DEF Init, Ledger!Init, Ledger!NoJobs
<1>4. RevokesInv
  BY SMT DEF Init, RevokesInv, RevokeInv
<1>5. RecordedInv
  BY SMT DEF Init, RecordedInv
<1>6. RequestedInv
  BY SMT DEF Init, RequestedInv, Ledger!Init, Ledger!NoRevocations, Ledger!NoRevocation
<1>7. MonitorInv /\ RevokedInv
  BY SMT DEF Init, MonitorInv, RevokedInv, Revoked, Scanning
<1>8. QED
  BY <1>1, <1>2, <1>3, <1>4, <1>5, <1>6, <1>7 DEF IInv, GatewaysInv

\* Every step is a step of the adapter or leaves it alone.
LEMMA StepOfLedger ==
    ASSUME IInv, [Next]_vars
    PROVE  Adapter!Next \/ UNCHANGED ledgerVars
<1>1. ASSUME NEW s \in Sessions, NEW j \in Jobs, ServeCommitment(s, j)
      PROVE  Adapter!Next
  BY <1>1, LedgerCommitment DEF ServeCommitment
<1>2. ASSUME NEW r \in Requests, NEW j \in Jobs, ServeRevocation(r, j)
      PROVE  Adapter!Next
  <2>1. a_revokes[r].session \in Sessions /\ a_revokes[r].anchor \in Jobs
    BY <1>2, SMT DEF ServeRevocation, Posted, IInv, GatewaysInv, RevokesInv, RevokeInv, Queued,
        TypeOK, Revoke,
        OptionalJob
  <2>2. QED
    BY <1>2, <2>1, LedgerRevocation DEF ServeRevocation
<1>3. ASSUME NEW s \in Sessions,
             \/ EstablishB(s) \/ EstablishA(s) \/ CommitmentQueued(s)
             \/ CommitmentNotQueued(s) \/ Expire(s)
      PROVE  UNCHANGED ledgerVars
  BY <1>3 DEF EstablishB, EstablishA, CommitmentQueued, CommitmentNotQueued, Expire
<1>4. ASSUME NEW r \in Requests,
             ServeLookup(r) \/ PostRevocation(r) \/ RevocationRequested(r) \/ RevokeFails(r)
      PROVE  UNCHANGED ledgerVars
  BY <1>4 DEF ServeLookup, PostRevocation, RevocationRequested, RevokeFails
<1>5. ASSUME NEW r \in Requests, NEW s \in Sessions, StartRevoke(r, s)
      PROVE  UNCHANGED ledgerVars
  BY <1>5 DEF StartRevoke
<1>6. MonitorStep \/ ServeSessionRevocation \/ ServeSessionCommitment => UNCHANGED ledgerVars
  <2>1. MonitorUnchanged => UNCHANGED ledgerVars
    BY DEF MonitorUnchanged
  <2>2. MonitorEnforces => UNCHANGED ledgerVars
    BY DEF MonitorEnforces
  <2>3. ServeSessionRevocation \/ ServeSessionCommitment => MonitorUnchanged
    BY DEF ServeSessionRevocation, ServeSessionCommitment
  <2>4. \A s \in Sessions : MonitorSkips(s) \/ MonitorAsks(s) => MonitorUnchanged
    BY DEF MonitorSkips, MonitorAsks
  <2>5. MonitorWakes \/ MonitorSleeps \/ MonitorAsksCommitment \/ MonitorContinues
            \/ MonitorCallFails => MonitorUnchanged
    BY DEF MonitorWakes, MonitorSleeps, MonitorAsksCommitment, MonitorContinues,
        MonitorCallFails
  <2>6. QED
    BY <2>1, <2>2, <2>3, <2>4, <2>5 DEF MonitorStep
<1>7. QED
  BY <1>1, <1>2, <1>3, <1>4, <1>5, <1>6, LedgerOwnStep DEF Next, vars

\* Gateway A's part of a step of its own or of its establishment keeps the types.
LEMMA CommitsTypeOK ==
    ASSUME IInv, NEW s \in Sessions
    PROVE  \/ EstablishA(s) \/ CommitmentQueued(s) \/ CommitmentNotQueued(s)
           \/ \E j \in Jobs : ServeCommitment(s, j)
           => /\ a_sessions' \in [Sessions -> ASession \cup {None}]
              /\ a_commits' \in [Sessions -> Commit]
              /\ CommitsInv'
<1>1. /\ a_sessions \in [Sessions -> ASession \cup {None}]
      /\ a_commits \in [Sessions -> Commit]
      /\ CommitsInv
  BY DEF IInv, GatewaysInv, TypeOK
<1>2. commitment_jobs_by_session \in [Sessions -> Jobs \cup {None}]
  BY DEF IInv, GatewaysInv, TypeOK, Ledger!TypeOK
<1> USE NoneAssumption, SessionAssumption DEF ASession, BSession, Commit, OptionalJob, Call
<1>3. CASE EstablishA(s)
  <2>1. /\ a_sessions' \in [Sessions -> ASession \cup {None}]
        /\ a_commits' \in [Sessions -> Commit]
    BY <1>1, <1>3, SMT DEF EstablishA
  <2>2. UNCHANGED <<restarts, commitment_jobs_by_session>>
    BY <1>3 DEF EstablishA, ledgerVars
  <2>3. CommitsInv'
    BY <1>1, <1>3, <2>2, SMT DEF EstablishA, CommitsInv
  <2>4. QED
    BY <2>1, <2>3
<1>4. CASE CommitmentQueued(s)
  <2>1. a_commits[s].job \in Jobs /\ a_sessions[s] \in ASession
    BY <1>1, <1>4, SMT DEF CommitmentQueued, CommitsInv
  <2>2. /\ a_sessions' \in [Sessions -> ASession \cup {None}]
        /\ a_commits' \in [Sessions -> Commit]
    BY <1>1, <1>4, <2>1, SMT DEF CommitmentQueued
  <2>3. UNCHANGED <<restarts, commitment_jobs_by_session>>
    BY <1>4 DEF CommitmentQueued, ledgerVars
  <2>4. CommitsInv'
    BY <1>1, <1>4, <2>1, <2>3, SMT DEF CommitmentQueued, CommitsInv
  <2>5. QED
    BY <2>2, <2>4
<1>5. CASE CommitmentNotQueued(s)
  <2>1. /\ a_sessions' \in [Sessions -> ASession \cup {None}]
        /\ a_commits' \in [Sessions -> Commit]
    BY <1>1, <1>5, SMT DEF CommitmentNotQueued
  <2>2. UNCHANGED <<restarts, commitment_jobs_by_session>>
    BY <1>5 DEF CommitmentNotQueued, ledgerVars
  <2>3. CommitsInv'
    BY <1>1, <1>5, <2>2, SMT DEF CommitmentNotQueued, CommitsInv
  <2>4. QED
    BY <2>1, <2>3
<1>6. ASSUME NEW j \in Jobs, ServeCommitment(s, j)
      PROVE  /\ a_sessions' \in [Sessions -> ASession \cup {None}]
             /\ a_commits' \in [Sessions -> Commit]
             /\ CommitsInv'
  <2>1. /\ a_sessions' = a_sessions
        /\ a_commits[s].call = "sent"
        /\ a_commits' = [a_commits EXCEPT ![s] = [@ EXCEPT !.call = "served", !.job = j]]
        /\ restarts' = restarts
        /\ commitment_jobs_by_session' = [commitment_jobs_by_session EXCEPT ![s] = j]
    BY <1>6 DEF ServeCommitment, Ledger!SubmitCommitment
  <2>2. /\ a_sessions' \in [Sessions -> ASession \cup {None}]
        /\ a_commits' \in [Sessions -> Commit]
    <3>1. [a_commits[s] EXCEPT !.call = "served", !.job = j] \in Commit
      <4>1. a_commits[s] \in Commit
        BY <1>1
      <4>2. QED
        BY <4>1, Zenon
    <3>2. QED
      BY <1>1, <2>1, <3>1
  <2>3. CommitsInv'
    BY <1>1, <1>2, <2>1, SMT DEF CommitsInv
  <2>4. QED
    BY <2>2, <2>3
<1>7. QED
  BY <1>3, <1>4, <1>5, <1>6

-----------------------------------------------------------------------------
(* What a step keeps of what the gateways were told.                       *)

\* The sessions with a queued commitment, and the sessions and jobs of the requests
\* whose revocation was accepted.
RequestsKept ==
    /\ \A s \in Sessions : Queued(s) => Queued(s)'
    /\ \A r \in Requests : a_revokes[r].job # None =>
           a_revokes'[r].job = a_revokes[r].job /\ a_revokes'[r].session = a_revokes[r].session

LEMMA AcceptedKept ==
    ASSUME LedgerKept, NEW s, NEW j \in Jobs, Accepted(s, j)
    PROVE  Accepted(s, j)'
BY DEF LedgerKept, Accepted

\* A request that does not move keeps its invariant.
LEMMA RevokeKept ==
    ASSUME TypeOK, LedgerKept, RequestsKept, NEW c \in Revoke, RevokeInv(c)
    PROVE  RevokeInv(c)'
<1>1. c.pc # "idle" => Queued(c.session)'
  BY DEF RequestsKept, RevokeInv, Queued
<1>2. c.job # None => Accepted(c.session, c.job)'
  <2>1. c.job # None => c.job \in Jobs
    BY SMT DEF Revoke, OptionalJob
  <2>2. QED
    BY <2>1, AcceptedKept DEF RevokeInv
<1>3. c.anchor # None /\ restarts' = 0 => Ledger!RevocationAccepted(c.session, c.anchor)'
  <2> SUFFICES ASSUME c.anchor # None, restarts' = 0
               PROVE  Ledger!RevocationAccepted(c.session, c.anchor)'
    OBVIOUS
  <2> DEFINE k == commitment_jobs_by_session[c.session]
  <2>1. c.session \in Sessions
    BY SMT DEF RevokeInv, Queued
  <2>2. restarts = 0
    BY DEF LedgerKept
  <2>3. /\ k # None
        /\ records[k].status = "confirmed"
        /\ records[k].ledger_identifier # None
        /\ c.anchor = records[k].ledger_identifier
    BY <2>2 DEF RevokeInv, Ledger!RevocationAccepted
  <2>4. k \in Jobs
    BY <2>1, <2>3, SMT DEF TypeOK, Ledger!TypeOK
  <2>5. commitment_jobs_by_session'[c.session] = k /\ records'[k] = records[k]
    BY <2>1, <2>3, <2>4 DEF LedgerKept
  <2>6. QED
    BY <2>3, <2>5 DEF Ledger!RevocationAccepted
<1>4. QED
  BY <1>1, <1>2, <1>3 DEF RevokeInv

LEMMA AskedKept ==
    ASSUME RequestsKept, NEW s, NEW j \in Jobs, Asked(s, j)
    PROVE  Asked(s, j)'
BY NoneAssumption DEF RequestsKept, Asked

LEMMA ConfirmedKept ==
    ASSUME LedgerKept, RequestsKept, NEW s, NEW j, ConfirmedRevocation(s, j)
    PROVE  ConfirmedRevocation(s, j)'
<1>1. j \in Jobs /\ Asked(s, j)
  BY DEF ConfirmedRevocation
<1>2. Asked(s, j)'
  BY <1>1, AskedKept
<1>3. QED
  BY <1>2 DEF LedgerKept, ConfirmedRevocation

-----------------------------------------------------------------------------
(* Gateway A: revoke_session                                               *)

\* One request moves on from b to c.
LEMMA RequestMoves ==
    ASSUME IInv, LedgerKept, NEW r \in Requests, NEW b \in Revoke, NEW c \in Revoke,
           b = a_revokes[r], a_revokes' = [a_revokes EXCEPT ![r] = c],
           b.job # None => c.job = b.job /\ c.session = b.session,
           \A s \in Sessions : Queued(s) => Queued(s)',
           RevokeInv(b)' => RevokeInv(c)'
    PROVE  a_revokes' \in [Requests -> Revoke] /\ RequestsKept /\ RevokesInv'
<1>1. TypeOK /\ RevokesInv
  BY DEF IInv, GatewaysInv
<1>2. a_revokes \in [Requests -> Revoke]
  BY <1>1 DEF TypeOK
<1>3. a_revokes' \in [Requests -> Revoke]
  BY <1>2
<1>4. a_revokes'[r] = c /\ \A q \in Requests \ {r} : a_revokes'[q] = a_revokes[q]
  BY <1>2
<1>5. RequestsKept
  BY <1>4 DEF RequestsKept
<1>6. ASSUME NEW q \in Requests, NEW d \in Revoke, d = a_revokes[q]
      PROVE  RevokeInv(d)'
  <2>1. RevokeInv(d)
    BY <1>1, <1>6 DEF RevokesInv
  <2>2. QED
    BY <1>1, <1>5, <2>1, RevokeKept
<1>7. ASSUME NEW q \in Requests
      PROVE  RevokeInv(a_revokes[q])'
  <2>1. CASE q = r
    <3>1. RevokeInv(c)'
      BY <1>6
    <3>2. QED
      BY <1>4, <2>1, <3>1 DEF RevokeInv
  <2>2. CASE q # r
    <3>1. PICK d \in Revoke : d = a_revokes[q]
      BY <1>2
    <3>2. RevokeInv(d)'
      BY <1>6, <3>1
    <3>3. a_revokes'[q] = d
      BY <1>4, <2>2, <3>1
    <3>4. QED
      BY <3>2, <3>3 DEF RevokeInv
  <2>3. QED
    BY <2>1, <2>2
<1>8. QED
  BY <1>3, <1>5, <1>7 DEF RevokesInv

\* A request that waits, while the rest of the system moves.
LEMMA RequestsStay ==
    ASSUME IInv, LedgerKept, UNCHANGED a_revokes,
           \A s \in Sessions : Queued(s) => Queued(s)'
    PROVE  a_revokes' \in [Requests -> Revoke] /\ RequestsKept /\ RevokesInv'
<1>1. TypeOK /\ RevokesInv /\ a_revokes' \in [Requests -> Revoke]
  BY DEF IInv, GatewaysInv, TypeOK
<1>2. RequestsKept
  BY DEF RequestsKept
<1>3. ASSUME NEW q \in Requests
      PROVE  RevokeInv(a_revokes[q])'
  <2>1. PICK d \in Revoke : d = a_revokes[q]
    BY <1>1
  <2>2. RevokeInv(d)
    BY <1>1, <2>1 DEF RevokesInv
  <2>3. RevokeInv(d)'
    BY <1>1, <1>2, <2>2, RevokeKept
  <2>4. a_revokes'[q] = d
    BY <2>1
  <2>5. QED
    BY <2>3, <2>4 DEF RevokeInv
<1>4. QED
  BY <1>1, <1>2, <1>3 DEF RevokesInv

\* Every step of a request keeps the requests' invariant.
LEMMA RevokeSteps ==
    ASSUME IInv, LedgerKept, NEW r \in Requests
    PROVE  \/ \E s \in Sessions : StartRevoke(r, s)
           \/ ServeLookup(r)
           \/ PostRevocation(r)
           \/ \E j \in Jobs : ServeRevocation(r, j)
           \/ RevocationRequested(r)
           \/ RevokeFails(r)
           => a_revokes' \in [Requests -> Revoke] /\ RequestsKept /\ RevokesInv'
<1> DEFINE Kept == a_revokes' \in [Requests -> Revoke] /\ RequestsKept /\ RevokesInv'
<1>1. TypeOK /\ CommitsInv /\ RevokesInv
  BY DEF IInv, GatewaysInv
<1>2. PICK b \in Revoke : b = a_revokes[r]
  BY <1>1 DEF TypeOK
<1>3. RevokeInv(b)
  BY <1>1, <1>2 DEF RevokesInv
<1>4. UNCHANGED a_sessions => \A s \in Sessions : Queued(s) => Queued(s)'
  BY DEF Queued
<1>5. ASSUME NEW s \in Sessions, StartRevoke(r, s)
      PROVE  Kept
  <2> DEFINE c == [b EXCEPT !.pc = "looking-up", !.session = s, !.call = "sent"]
  <2>1. /\ b.pc = "idle"
        /\ a_sessions[s] \in [ledger_job : Jobs, revocation_job : {None}]
        /\ a_revokes' = [a_revokes EXCEPT ![r] = c]
        /\ UNCHANGED a_sessions
    BY <1>2, <1>5 DEF StartRevoke
  <2>2. c \in Revoke
    BY Zenon DEF Revoke, Call
  <2>3. /\ c.pc = "looking-up"
        /\ c.session = s
        /\ c.call = "sent"
        /\ c.anchor = b.anchor
        /\ c.job = b.job
    BY DEF Revoke
  <2>4. Queued(s)
    <3>1. a_sessions[s] # None
      BY <1>1, <1>2, <1>5, <2>1, NoneAssumption, SessionAssumption, SMT DEF ASession, OptionalJob
    <3>2. a_sessions[s].ledger_job # None
      BY <2>1, NoneAssumption, SMT
    <3>3. QED
      BY <3>1, <3>2 DEF Queued
  <2>5. b.anchor = None /\ b.job = None
    BY <1>3, <2>1 DEF RevokeInv
  <2> HIDE DEF c
  <2>6. RevokeInv(c)'
    BY <2>1, <2>3, <2>4, <2>5 DEF RevokeInv, Queued
  <2>7. QED
    BY <1>2, <1>4, <2>1, <2>2, <2>5, <2>6, RequestMoves
<1>6. ASSUME ServeLookup(r)
      PROVE  Kept
  <2> DEFINE record == records[a_sessions[b.session].ledger_job]
  <2>1. b.pc = "looking-up" /\ b.call = "sent" /\ UNCHANGED <<a_sessions, ledgerVars>>
    BY <1>2, <1>6 DEF ServeLookup
  <2>2. Queued(b.session) /\ b.job = None
    BY <1>3, <2>1 DEF RevokeInv
  <2>3. a_sessions[b.session].ledger_job \in Jobs
    BY <1>1, <2>2, SMT DEF Queued, TypeOK, ASession, OptionalJob
  <2>4. PICK a \in OptionalJob :
            a = IF record.status = "confirmed" THEN record.ledger_identifier ELSE None
    BY <1>1, <2>3, SMT DEF TypeOK, Ledger!TypeOK, Ledger!CommitmentRecord, OptionalJob
  <2> DEFINE c == [b EXCEPT !.call = "served", !.anchor = a]
  <2>5. a_revokes' = [a_revokes EXCEPT ![r] = c]
    BY <1>2, <1>6, <2>4 DEF ServeLookup
  <2>6. c \in Revoke
    BY Zenon DEF Revoke, Call
  <2>7. /\ c.pc = b.pc
        /\ c.session = b.session
        /\ c.call = "served"
        /\ c.anchor = a
        /\ c.job = b.job
    BY DEF Revoke
  <2>8. restarts = 0 => a_sessions[b.session].ledger_job = commitment_jobs_by_session[b.session]
    BY <1>1, <2>2 DEF CommitsInv, Queued
  <2>9. a # None /\ restarts = 0 => Ledger!RevocationAccepted(b.session, a)
    BY <2>2, <2>4, <2>8 DEF Ledger!RevocationAccepted, Queued
  <2> HIDE DEF c
  <2>10. RevokeInv(c)'
    BY <2>1, <2>2, <2>7, <2>9 DEF RevokeInv, ledgerVars, Queued, Ledger!RevocationAccepted
  <2>11. QED
    BY <1>2, <1>4, <2>1, <2>2, <2>5, <2>6, <2>7, <2>10, RequestMoves
<1>7. ASSUME PostRevocation(r)
      PROVE  Kept
  <2> DEFINE c == [b EXCEPT !.pc = "posting", !.call = "sent"]
  <2>1. /\ b.pc = "looking-up"
        /\ b.anchor # None
        /\ a_revokes' = [a_revokes EXCEPT ![r] = c]
        /\ UNCHANGED a_sessions
    BY <1>2, <1>7 DEF PostRevocation
  <2>2. c \in Revoke
    BY Zenon DEF Revoke, Call
  <2>3. /\ c.pc = "posting"
        /\ c.session = b.session
        /\ c.call = "sent"
        /\ c.anchor = b.anchor
        /\ c.job = b.job
    BY DEF Revoke
  <2>4. b.job = None
    BY <1>3, <2>1 DEF RevokeInv
  <2> HIDE DEF c
  <2>5. RevokeInv(b)' => RevokeInv(c)'
    BY <2>1, <2>3, <2>4 DEF RevokeInv, Ledger!RevocationAccepted
  <2>6. QED
    BY <1>2, <1>4, <2>1, <2>2, <2>4, <2>5, RequestMoves
<1>8. ASSUME NEW j \in Jobs, ServeRevocation(r, j)
      PROVE  Kept
  <2> DEFINE c == [b EXCEPT !.call = "served", !.job = j]
  <2>1. /\ b.call = "sent"
        /\ b.anchor # None
        /\ a_revokes' = [a_revokes EXCEPT ![r] = c]
        /\ UNCHANGED a_sessions
        /\ revocation_records' = [revocation_records EXCEPT ![j] =
              [status |-> "queued", session |-> b.session,
               ledger_identifier |-> None, session_anchor |-> b.anchor]]
    BY <1>2, <1>8 DEF ServeRevocation, Posted, Ledger!SubmitRevocation
  <2>2. c \in Revoke
    BY Zenon DEF Revoke, Call, OptionalJob
  <2>3. /\ c.pc = b.pc
        /\ c.session = b.session
        /\ c.call = "served"
        /\ c.anchor = b.anchor
        /\ c.job = j
    BY DEF Revoke
  <2>4. b.job = None /\ b.pc \notin {"idle", "looking-up"}
    BY <1>3, <2>1 DEF RevokeInv
  <2>5. /\ revocation_records'[j].status = "queued"
        /\ revocation_records'[j].session = b.session
    BY <1>1, <2>1, SMT DEF TypeOK, Ledger!TypeOK
  <2>6. j # None
    BY NoneAssumption
  <2> HIDE DEF c
  <2>7. RevokeInv(b)' => RevokeInv(c)'
    BY <2>3, <2>4, <2>5, <2>6 DEF RevokeInv, Accepted, Ledger!RevocationAccepted
  <2>8. QED
    BY <1>2, <1>4, <2>1, <2>2, <2>4, <2>7, RequestMoves
<1>9. ASSUME RevocationRequested(r)
      PROVE  Kept
  <2> DEFINE c == [b EXCEPT !.pc = "done"]
  <2>1. /\ b.pc = "posting"
        /\ b.call = "served"
        /\ a_revokes' = [a_revokes EXCEPT ![r] = c]
        /\ a_sessions' = [a_sessions EXCEPT ![b.session].revocation_job = b.job]
    BY <1>2, <1>9 DEF RevocationRequested
  <2>2. c \in Revoke
    BY Zenon DEF Revoke
  <2>3. /\ c.pc = "done"
        /\ c.session = b.session
        /\ c.call = b.call
        /\ c.anchor = b.anchor
        /\ c.job = b.job
    BY DEF Revoke
  <2>4. Queued(b.session) /\ b.job # None
    BY <1>3, <2>1 DEF RevokeInv
  <2>5. ASSUME NEW s \in Sessions, Queued(s)
        PROVE  Queued(s)'
    <3>1. a_sessions \in [Sessions -> ASession \cup {None}] /\ b.job \in OptionalJob
      BY <1>1 DEF TypeOK, Revoke
    <3>2. a_sessions[b.session] \in ASession
      BY <2>4, <3>1 DEF Queued
    <3>3. a_sessions'[b.session] = [a_sessions[b.session] EXCEPT !.revocation_job = b.job]
      BY <2>1, <2>4, <3>1 DEF Queued
    <3>4. /\ a_sessions'[b.session] \in ASession
          /\ a_sessions'[b.session].ledger_job = a_sessions[b.session].ledger_job
      BY <3>1, <3>2, <3>3 DEF ASession
    <3>5. CASE s = b.session
      BY <2>4, <3>4, <3>5, SessionAssumption DEF Queued
    <3>6. CASE s # b.session
      BY <2>1, <2>5, <3>1, <3>6 DEF Queued
    <3>7. QED
      BY <3>5, <3>6
  <2> HIDE DEF c
  <2>6. RevokeInv(b)' => RevokeInv(c)'
    BY <2>1, <2>3, <2>4 DEF RevokeInv, Ledger!RevocationAccepted
  <2>7. QED
    BY <1>2, <2>1, <2>2, <2>3, <2>5, <2>6, RequestMoves
<1>10. ASSUME RevokeFails(r)
      PROVE  Kept
  <2> DEFINE c == [b EXCEPT !.pc = "failed"]
  <2>1. /\ b.pc \in {"looking-up", "posting"}
        /\ a_revokes' = [a_revokes EXCEPT ![r] = c]
        /\ UNCHANGED a_sessions
    BY <1>2, <1>10 DEF RevokeFails
  <2>2. c \in Revoke
    BY Zenon DEF Revoke
  <2>3. /\ c.pc = "failed"
        /\ c.session = b.session
        /\ c.call = b.call
        /\ c.anchor = b.anchor
        /\ c.job = b.job
    BY DEF Revoke
  <2> HIDE DEF c
  <2>4. RevokeInv(b)' => RevokeInv(c)'
    BY <2>1, <2>3 DEF RevokeInv, Ledger!RevocationAccepted
  <2>5. QED
    BY <1>2, <1>4, <2>1, <2>2, <2>3, <2>4, RequestMoves
<1>11. QED
  BY <1>5, <1>6, <1>7, <1>8, <1>9, <1>10

-----------------------------------------------------------------------------
(* The steps, by the part of the system that takes them.                   *)

LEMMA LedgerTyped == Adapter!CallerInv => Ledger!TypeOK
BY LedgerFacts

\* What a step has to show, besides what the adapter promises.
LEMMA Step ==
    ASSUME Adapter!CallerInv',
           a_sessions' \in [Sessions -> ASession \cup {None}], a_commits' \in [Sessions -> Commit],
           a_revokes' \in [Requests -> Revoke], b_sessions' \in [Sessions -> BSession \cup {None}],
           b_monitor' \in Monitor, expired' \subseteq Sessions,
           CommitsInv', RevokesInv', RecordedInv', RequestedInv', MonitorInv', RevokedInv'
    PROVE  IInv'
<1>1. Ledger!TypeOK'
  BY LedgerTyped, PTL
<1>2. QED
  BY <1>1 DEF IInv, GatewaysInv, TypeOK

\* Gateway B's monitor and sessions stay as they are.
LEMMA GatewayBStays ==
    ASSUME IInv, LedgerKept, RequestsKept, UNCHANGED <<bVars, expired>>
    PROVE  /\ b_sessions' \in [Sessions -> BSession \cup {None}]
           /\ b_monitor' \in Monitor
           /\ expired' \subseteq Sessions
           /\ MonitorInv' /\ RevokedInv'
<1>1. UNCHANGED <<b_sessions, b_monitor, expired>>
  BY DEF bVars
<1>2. /\ b_sessions' \in [Sessions -> BSession \cup {None}]
      /\ b_monitor' \in Monitor
      /\ expired' \subseteq Sessions
  BY <1>1 DEF IInv, GatewaysInv, TypeOK
<1>3. MonitorInv'
  <2>1. MonitorInv
    BY DEF IInv, GatewaysInv
  <2>2. PICK s, j : s = b_monitor.session /\ j = b_monitor.job
    OBVIOUS
  <2>3. j # None => ConfirmedRevocation(s, j)'
    BY <2>1, <2>2, ConfirmedKept DEF MonitorInv
  <2>4. b_monitor'.job # None => ConfirmedRevocation(b_monitor.session, b_monitor.job)'
    BY <1>1, <2>2, <2>3 DEF ConfirmedRevocation, Asked
  <2>5. QED
    BY <1>1, <2>1, <2>4 DEF MonitorInv
<1>4. RevokedInv'
  <2>1. SUFFICES ASSUME NEW s \in Sessions, Revoked(s)
                 PROVE  ConfirmedRevocation(s, b_sessions[s].revocation_job)'
    BY <1>1 DEF RevokedInv, Revoked
  <2>2. PICK j : j = b_sessions[s].revocation_job
    OBVIOUS
  <2>3. ConfirmedRevocation(s, j)
    BY <2>1, <2>2 DEF IInv, GatewaysInv, RevokedInv
  <2>4. ConfirmedRevocation(s, j)'
    BY <2>3, ConfirmedKept
  <2>5. QED
    BY <1>1, <2>2, <2>4 DEF ConfirmedRevocation, Asked
<1>5. QED
  BY <1>2, <1>3, <1>4

\* Nothing but a revocation request makes a revocation.
LEMMA NothingRequested ==
    ASSUME IInv, LedgerKept, RequestsKept, UNCHANGED issued \/ UNCHANGED revocation_records
    PROVE  RequestedInv'
<1> SUFFICES ASSUME NEW j \in Jobs, revocation_records'[j].status # "absent"
             PROVE  Asked(revocation_records[j].session, j)'
  BY DEF RequestedInv
<1>1. /\ revocation_records[j].status # "absent"
      /\ revocation_records'[j].session = revocation_records[j].session
  BY DEF LedgerKept
<1>2. PICK s : s = revocation_records[j].session
  OBVIOUS
<1>3. Asked(s, j)
  BY <1>1, <1>2 DEF IInv, GatewaysInv, RequestedInv
<1>4. Asked(s, j)'
  BY <1>3, AskedKept
<1>5. QED
  BY <1>1, <1>2, <1>4 DEF Asked

\* The sessions Gateway A has recorded a revocation of stay as they are.
LEMMA RecordedStay ==
    ASSUME IInv, LedgerKept,
           \A s \in Sessions :
               a_sessions'[s] # None /\ a_sessions'[s].revocation_job # None =>
                   /\ a_sessions[s] # None
                   /\ a_sessions'[s].revocation_job = a_sessions[s].revocation_job
    PROVE  RecordedInv'
<1> SUFFICES ASSUME NEW s \in Sessions,
                    a_sessions'[s] # None, a_sessions'[s].revocation_job # None
             PROVE  Accepted(s, a_sessions[s].revocation_job)'
  BY DEF RecordedInv
<1>1. a_sessions[s] # None /\ a_sessions'[s].revocation_job = a_sessions[s].revocation_job
  OBVIOUS
<1>2. a_sessions[s].revocation_job \in Jobs
  BY <1>1, SMT DEF IInv, GatewaysInv, TypeOK, ASession, OptionalJob
<1>3. PICK j \in Jobs : j = a_sessions[s].revocation_job
  BY <1>2
<1>4. Accepted(s, j)
  BY <1>1, <1>3 DEF IInv, GatewaysInv, RecordedInv
<1>5. Accepted(s, j)'
  BY <1>4, AcceptedKept
<1>6. QED
  BY <1>1, <1>3, <1>5 DEF Accepted

\* Gateway A stores a session and has its commitment queued.
LEMMA CommitStep ==
    ASSUME IInv, LedgerKept, Adapter!CallerInv', NEW s \in Sessions
    PROVE  \/ EstablishA(s) \/ CommitmentQueued(s) \/ CommitmentNotQueued(s)
           \/ \E j \in Jobs : ServeCommitment(s, j)
           => IInv'
<1>1. SUFFICES ASSUME \/ EstablishA(s) \/ CommitmentQueued(s) \/ CommitmentNotQueued(s)
                      \/ \E j \in Jobs : ServeCommitment(s, j)
               PROVE  IInv'
  OBVIOUS
<1>2. /\ a_sessions' \in [Sessions -> ASession \cup {None}]
      /\ a_commits' \in [Sessions -> Commit]
      /\ CommitsInv'
  BY <1>1, CommitsTypeOK
<1>3. UNCHANGED <<a_revokes, bVars, expired, revocation_records>>
  <2>1. EstablishA(s) \/ CommitmentQueued(s) \/ CommitmentNotQueued(s) =>
            UNCHANGED <<a_revokes, bVars, expired, revocation_records>>
    BY DEF EstablishA, CommitmentQueued, CommitmentNotQueued, ledgerVars
  <2>2. ASSUME NEW j \in Jobs, ServeCommitment(s, j)
        PROVE  UNCHANGED <<a_revokes, bVars, expired, revocation_records>>
    BY <2>2 DEF ServeCommitment, Ledger!SubmitCommitment, Ledger!revocationVars
  <2>3. QED
    BY <1>1, <2>1, <2>2
<1>4. a_sessions \in [Sessions -> ASession \cup {None}] /\ CommitsInv
  BY DEF IInv, GatewaysInv, TypeOK
<1>5. ASSUME NEW t \in Sessions
      PROVE  /\ Queued(t) => Queued(t)'
             /\ a_sessions'[t] # None /\ a_sessions'[t].revocation_job # None =>
                    /\ a_sessions[t] # None
                    /\ a_sessions'[t].revocation_job = a_sessions[t].revocation_job
  <2>1. CASE EstablishA(s)
    <3>1. a_sessions[s] = None
      BY <1>4, <2>1 DEF EstablishA, CommitsInv
    <3>2. /\ a_sessions'[s] = [ledger_job |-> None, revocation_job |-> None]
          /\ t # s => a_sessions'[t] = a_sessions[t]
      BY <1>4, <2>1 DEF EstablishA
    <3>3. QED
      BY <3>1, <3>2 DEF Queued
  <2>2. CASE CommitmentQueued(s)
    <3>1. a_sessions[s] \in ASession /\ a_commits[s].job # None
      BY <1>4, <2>2 DEF CommitmentQueued, CommitsInv
    <3>2. /\ a_sessions'[s] = [a_sessions[s] EXCEPT !.ledger_job = a_commits[s].job]
          /\ t # s => a_sessions'[t] = a_sessions[t]
      BY <1>4, <2>2 DEF CommitmentQueued
    <3>3. /\ a_sessions'[s].ledger_job = a_commits[s].job
          /\ a_sessions'[s].revocation_job = a_sessions[s].revocation_job
      BY <3>1, <3>2 DEF ASession
    <3>4. a_sessions[s] # None /\ a_sessions'[s] # None
      <4>1. a_sessions'[s] \in ASession
        BY <1>2, <3>1, <3>2, Zenon DEF ASession, IInv, GatewaysInv, TypeOK, Commit
      <4>2. QED
        BY <3>1, <4>1, SessionAssumption
    <3>5. QED
      BY <3>1, <3>2, <3>3, <3>4 DEF Queued
  <2>3. CASE CommitmentNotQueued(s)
    BY <2>3 DEF CommitmentNotQueued, Queued
  <2>4. ASSUME NEW j \in Jobs, ServeCommitment(s, j)
        PROVE  UNCHANGED a_sessions
    BY <2>4 DEF ServeCommitment
  <2>5. QED
    BY <1>1, <2>1, <2>2, <2>3, <2>4 DEF Queued
<1>6. a_revokes' \in [Requests -> Revoke] /\ RequestsKept /\ RevokesInv'
  BY <1>3, <1>5, RequestsStay
<1>7. RecordedInv'
  BY <1>5, RecordedStay
<1>8. QED
  BY <1>2, <1>3, <1>6, <1>7, GatewayBStays, NothingRequested, Step

\* A request moves on, and Gateway A may record its revocation.
LEMMA RevokeStep ==
    ASSUME IInv, LedgerKept, Adapter!CallerInv', NEW r \in Requests
    PROVE  \/ \E s \in Sessions : StartRevoke(r, s)
           \/ ServeLookup(r)
           \/ PostRevocation(r)
           \/ \E j \in Jobs : ServeRevocation(r, j)
           \/ RevocationRequested(r)
           \/ RevokeFails(r)
           => IInv'
<1> DEFINE Moves == \/ \E s \in Sessions : StartRevoke(r, s)
                    \/ ServeLookup(r)
                    \/ PostRevocation(r)
                    \/ \E j \in Jobs : ServeRevocation(r, j)
                    \/ RevocationRequested(r)
                    \/ RevokeFails(r)
<1>1. SUFFICES ASSUME Moves
               PROVE  IInv'
  OBVIOUS
<1>2. a_revokes' \in [Requests -> Revoke] /\ RequestsKept /\ RevokesInv'
  BY <1>1, RevokeSteps
<1>3. /\ TypeOK /\ CommitsInv /\ RevokesInv
      /\ a_sessions \in [Sessions -> ASession \cup {None}]
      /\ a_commits \in [Sessions -> Commit]
  BY DEF IInv, GatewaysInv, TypeOK
<1>4. CASE \E j \in Jobs : ServeRevocation(r, j)
  <2>1. PICK j \in Jobs : ServeRevocation(r, j)
    BY <1>4
  <2>2. /\ UNCHANGED <<a_sessions, a_commits, bVars, expired>>
        /\ UNCHANGED <<restarts, commitment_jobs_by_session>>
        /\ issued' = issued \cup {j}
        /\ revocation_records' = [revocation_records EXCEPT ![j] =
              [status |-> "queued", session |-> a_revokes[r].session,
               ledger_identifier |-> None, session_anchor |-> a_revokes[r].anchor]]
    BY <2>1 DEF ServeRevocation, Ledger!SubmitRevocation, Ledger!commitmentVars
  <2>3. CommitsInv' /\ RecordedInv'
    BY <1>3, <2>2, RecordedStay DEF CommitsInv
  <2>4. a_revokes'[r].session = a_revokes[r].session /\ a_revokes'[r].job = j
    <3>1. a_revokes[r] \in Revoke
      BY <1>3 DEF TypeOK
    <3>2. a_revokes'[r] = [a_revokes[r] EXCEPT !.call = "served", !.job = j]
      BY <1>3, <2>1 DEF ServeRevocation, TypeOK
    <3>3. QED
      BY <3>1, <3>2 DEF Revoke
  <2>5. RequestedInv'
    <3>1. SUFFICES ASSUME NEW k \in Jobs, revocation_records'[k].status # "absent"
                   PROVE  Asked(revocation_records[k].session, k)'
      BY DEF RequestedInv
    <3>2. CASE k = j
      <4>1. revocation_records'[k].session = a_revokes[r].session
        BY <1>3, <2>2, <3>2, SMT DEF TypeOK, Ledger!TypeOK
      <4>2. QED
        BY <2>4, <3>2, <4>1 DEF Asked
    <3>3. CASE k # j
      <4>1. revocation_records'[k] = revocation_records[k]
        BY <1>3, <2>2, <3>3, SMT DEF TypeOK, Ledger!TypeOK
      <4>2. PICK s : s = revocation_records[k].session
        OBVIOUS
      <4>3. Asked(s, k)
        BY <3>1, <4>1, <4>2 DEF IInv, GatewaysInv, RequestedInv
      <4>4. Asked(s, k)'
        BY <1>2, <4>3, AskedKept
      <4>5. QED
        BY <4>1, <4>2, <4>4 DEF Asked
    <3>4. QED
      BY <3>2, <3>3
  <2>6. QED
    BY <1>2, <1>3, <2>2, <2>3, <2>5, GatewayBStays, Step
<1>5. CASE RevocationRequested(r)
  <2>1. PICK s \in Sessions, j \in Jobs : s = a_revokes[r].session /\ j = a_revokes[r].job
    <3>1. RevokeInv(a_revokes[r]) /\ a_revokes[r] \in Revoke
      BY <1>3 DEF RevokesInv, TypeOK
    <3>2. QED
      BY <1>5, <3>1, SMT DEF RevokeInv, Queued, RevocationRequested, Revoke, OptionalJob
  <2>2. /\ UNCHANGED <<ledgerVars, a_commits, bVars, expired>>
        /\ a_sessions' = [a_sessions EXCEPT ![s].revocation_job = j]
        /\ UNCHANGED <<restarts, commitment_jobs_by_session, issued, revocation_records>>
    BY <1>5, <2>1 DEF RevocationRequested, ledgerVars
  <2>3. a_sessions[s] \in ASession /\ Accepted(s, j)
    <3>1. RevokeInv(a_revokes[r])
      BY <1>3 DEF RevokesInv
    <3>2. j # None
      BY NoneAssumption
    <3>3. QED
      BY <1>3, <1>5, <2>1, <3>1, <3>2 DEF RevokeInv, Queued, RevocationRequested
  <2>4. /\ a_sessions'[s] \in ASession
        /\ a_sessions'[s].ledger_job = a_sessions[s].ledger_job
        /\ a_sessions'[s].revocation_job = j
        /\ \A t \in Sessions \ {s} : a_sessions'[t] = a_sessions[t]
        /\ a_sessions' \in [Sessions -> ASession \cup {None}]
    <3>1. /\ a_sessions'[s] = [a_sessions[s] EXCEPT !.revocation_job = j]
          /\ \A t \in Sessions \ {s} : a_sessions'[t] = a_sessions[t]
      BY <1>3, <2>2
    <3>2. /\ a_sessions'[s] \in ASession
          /\ a_sessions'[s].ledger_job = a_sessions[s].ledger_job
          /\ a_sessions'[s].revocation_job = j
      BY <2>3, <3>1 DEF ASession, OptionalJob
    <3>3. QED
      BY <1>3, <2>2, <3>1, <3>2
  <2>5. CommitsInv'
    BY <1>3, <2>2, <2>3, <2>4, SessionAssumption DEF CommitsInv
  <2>6. RecordedInv'
    <3>1. SUFFICES ASSUME NEW t \in Sessions,
                          a_sessions'[t] # None, a_sessions'[t].revocation_job # None
                   PROVE  Accepted(t, a_sessions[t].revocation_job)'
      BY DEF RecordedInv
    <3>2. CASE t = s
      BY <2>2, <2>3, <2>4, <3>2 DEF Accepted
    <3>3. CASE t # s
      BY <2>2, <2>4, <3>1, <3>3 DEF Accepted, IInv, GatewaysInv, RecordedInv
    <3>4. QED
      BY <3>2, <3>3
  <2>7. a_commits' \in [Sessions -> Commit]
    BY <1>3, <2>2
  <2>8. QED
    BY <1>2, <2>2, <2>4, <2>5, <2>6, <2>7, GatewayBStays, NothingRequested, Step
<1>6. CASE \/ \E s \in Sessions : StartRevoke(r, s)
           \/ ServeLookup(r)
           \/ PostRevocation(r)
           \/ RevokeFails(r)
  <2>1. UNCHANGED <<ledgerVars, a_sessions, a_commits, bVars, expired>>
    <3>1. ASSUME NEW s \in Sessions, StartRevoke(r, s)
          PROVE  UNCHANGED <<ledgerVars, a_sessions, a_commits, bVars, expired>>
      BY <3>1 DEF StartRevoke
    <3>2. ServeLookup(r) \/ PostRevocation(r) \/ RevokeFails(r) =>
              UNCHANGED <<ledgerVars, a_sessions, a_commits, bVars, expired>>
      BY DEF ServeLookup, PostRevocation, RevokeFails
    <3>3. QED
      BY <1>6, <3>1, <3>2
  <2>2. UNCHANGED <<restarts, commitment_jobs_by_session, issued>>
    BY <2>1 DEF ledgerVars
  <2>3. CommitsInv' /\ RecordedInv'
    BY <1>3, <2>1, <2>2, RecordedStay DEF CommitsInv
  <2>4. QED
    BY <1>2, <1>3, <2>1, <2>2, <2>3, GatewayBStays, NothingRequested, Step
<1>7. QED
  BY <1>1, <1>4, <1>5, <1>6

\* What Gateway A keeps while Gateway B moves.
LEMMA GatewayAStays ==
    ASSUME IInv, LedgerKept, UNCHANGED <<ledgerVars, aVars>>
    PROVE  /\ a_sessions' \in [Sessions -> ASession \cup {None}]
           /\ a_commits' \in [Sessions -> Commit]
           /\ a_revokes' \in [Requests -> Revoke]
           /\ RequestsKept
           /\ CommitsInv' /\ RevokesInv' /\ RecordedInv' /\ RequestedInv'
<1>1. /\ UNCHANGED <<a_sessions, a_commits, a_revokes>>
      /\ UNCHANGED <<restarts, commitment_jobs_by_session, issued>>
  BY DEF aVars, ledgerVars
<1>2. TypeOK /\ CommitsInv
  BY DEF IInv, GatewaysInv
<1>3. CommitsInv' /\ RecordedInv'
  BY <1>1, <1>2, RecordedStay DEF CommitsInv
<1>4. \A s \in Sessions : Queued(s) => Queued(s)'
  BY <1>1 DEF Queued
<1>5. a_revokes' \in [Requests -> Revoke] /\ RequestsKept /\ RevokesInv'
  BY <1>1, <1>4, RequestsStay
<1>6. QED
  BY <1>1, <1>2, <1>3, <1>5, NothingRequested DEF TypeOK

\* Gateway B accepts a session, or one expires.
LEMMA EstablishStep ==
    ASSUME IInv, LedgerKept, Adapter!CallerInv', NEW s \in Sessions
    PROVE  EstablishB(s) \/ Expire(s) => IInv'
<1>1. CASE EstablishB(s)
  <2>1. /\ UNCHANGED <<ledgerVars, aVars>>
        /\ UNCHANGED <<b_monitor, expired, chain, restarts, revocation_records, a_revokes>>
        /\ b_sessions' = [b_sessions EXCEPT ![s] = [revoked |-> FALSE, revocation_job |-> None]]
    BY <1>1 DEF EstablishB, ledgerVars, aVars
  <2>2. b_sessions \in [Sessions -> BSession \cup {None}] /\ MonitorInv /\ RevokedInv
    BY DEF IInv, GatewaysInv, TypeOK
  <2>3. b_sessions' \in [Sessions -> BSession \cup {None}]
    BY <2>1, <2>2, SMT DEF BSession, OptionalJob
  <2>4. b_monitor' \in Monitor /\ expired' \subseteq Sessions
    BY <2>1 DEF IInv, GatewaysInv, TypeOK
  <2>5. MonitorInv'
    BY <2>1, <2>2 DEF MonitorInv, ConfirmedRevocation, Asked
  <2>6. RevokedInv'
    <3>1. SUFFICES ASSUME NEW t \in Sessions, Revoked(t)'
                   PROVE  ConfirmedRevocation(t, b_sessions[t].revocation_job)'
      BY DEF RevokedInv
    <3>2. b_sessions'[s].revoked = FALSE
      BY <2>1, <2>2
    <3>3. t # s
      BY <3>1, <3>2 DEF Revoked
    <3>4. b_sessions'[t] = b_sessions[t]
      BY <2>1, <2>2, <3>3
    <3>5. ConfirmedRevocation(t, b_sessions[t].revocation_job)
      BY <2>2, <3>1, <3>4 DEF Revoked, RevokedInv
    <3>6. QED
      BY <2>1, <3>4, <3>5 DEF ConfirmedRevocation, Asked
  <2>7. QED
    BY <2>1, <2>3, <2>4, <2>5, <2>6, GatewayAStays, Step
<1>2. CASE Expire(s)
  <2>1. /\ UNCHANGED <<ledgerVars, aVars>>
        /\ UNCHANGED <<b_sessions, b_monitor, chain, restarts, revocation_records, a_revokes>>
        /\ expired' = expired \cup {s}
    BY <1>2 DEF Expire, ledgerVars, aVars, bVars
  <2>2. /\ b_sessions' \in [Sessions -> BSession \cup {None}]
        /\ b_monitor' \in Monitor
        /\ expired' \subseteq Sessions
    BY <2>1 DEF IInv, GatewaysInv, TypeOK
  <2>3. MonitorInv' /\ RevokedInv'
    BY <2>1 DEF IInv, GatewaysInv, MonitorInv, RevokedInv, Revoked, ConfirmedRevocation, Asked
  <2>4. QED
    BY <2>1, <2>2, <2>3, GatewayAStays, Step
<1>3. QED
  BY <1>1, <1>2

\* The monitor's next state m, which is told of no revocation, or of a confirmed one.
LEMMA MonitorMoves ==
    ASSUME IInv, LedgerKept, Adapter!CallerInv', MonitorUnchanged, NEW m \in Monitor,
           b_monitor' = m,
           m.pc \in {"asking-revocation", "asking-commitment"} => m.session \in Sessions,
           m.pc \in {"sleeping", "scanning"} => m.call = "unsent" /\ m.job = None,
           m.pc = "asking-commitment" => m.job # None,
           m.job # None => ConfirmedRevocation(m.session, m.job)
    PROVE  IInv'
<1>1. /\ UNCHANGED <<ledgerVars, aVars>>
      /\ UNCHANGED <<b_sessions, expired, chain, restarts, revocation_records, a_revokes>>
  BY DEF MonitorUnchanged, ledgerVars, aVars
<1>2. /\ b_sessions' \in [Sessions -> BSession \cup {None}]
      /\ b_monitor' \in Monitor
      /\ expired' \subseteq Sessions
  BY <1>1 DEF IInv, GatewaysInv, TypeOK
<1>3. RevokedInv'
  BY <1>1 DEF IInv, GatewaysInv, RevokedInv, Revoked, ConfirmedRevocation, Asked
<1>4. MonitorInv'
  BY <1>1 DEF MonitorInv, ConfirmedRevocation, Asked
<1>5. QED
  BY <1>1, <1>2, <1>3, <1>4, GatewayAStays, Step

\* The fields of a monitor that scans.
LEMMA ScanningFields ==
    ASSUME NEW todo, todo \subseteq Sessions
    PROVE  /\ Scanning(todo) \in Monitor
           /\ Scanning(todo).pc = "scanning"
           /\ Scanning(todo).todo = todo
           /\ Scanning(todo).call = "unsent"
           /\ Scanning(todo).job = None
BY DEF Scanning, Monitor, Call, OptionalJob

\* The monitor goes on scanning.
LEMMA MonitorScans ==
    ASSUME IInv, LedgerKept, Adapter!CallerInv', MonitorUnchanged,
           NEW todo, todo \subseteq Sessions, b_monitor' = Scanning(todo)
    PROVE  IInv'
<1>1. PICK m \in Monitor : m = Scanning(todo)
  BY ScanningFields
<1>2. m.pc = "scanning" /\ m.call = "unsent" /\ m.job = None
  BY <1>1, ScanningFields
<1>3. QED
  BY <1>1, <1>2, MonitorMoves

\* Gateway B: a step of revocation_monitor, or the adapter answers it.
LEMMA MonitorSteps ==
    ASSUME IInv, LedgerKept, Adapter!CallerInv'
    PROVE  MonitorStep \/ ServeSessionRevocation \/ ServeSessionCommitment => IInv'
<1>1. TypeOK /\ MonitorInv /\ RevokedInv /\ RequestedInv
  BY DEF IInv, GatewaysInv
<1>2. PICK b \in Monitor : b = b_monitor
  BY <1>1 DEF TypeOK
<1>3. b.todo \subseteq Sessions
  BY DEF Monitor
<1>4. CASE MonitorWakes
  BY <1>4, MonitorScans DEF MonitorWakes
<1>5. CASE MonitorSleeps
  <2> DEFINE m == [b EXCEPT !.pc = "sleeping"]
  <2>1. b = Scanning({}) /\ b_monitor' = m /\ MonitorUnchanged
    BY <1>2, <1>5 DEF MonitorSleeps
  <2>2. b.call = "unsent" /\ b.job = None
    BY <2>1, ScanningFields
  <2>3. m \in Monitor
    BY Zenon DEF Monitor
  <2>4. m.pc = "sleeping" /\ m.call = b.call /\ m.job = b.job
    BY DEF Monitor
  <2> HIDE DEF m
  <2>5. QED
    BY <2>1, <2>2, <2>3, <2>4, MonitorMoves
<1>6. ASSUME NEW s \in Sessions, MonitorSkips(s)
      PROVE  IInv'
  BY <1>2, <1>3, <1>6, MonitorScans DEF MonitorSkips
<1>7. ASSUME NEW s \in Sessions, MonitorAsks(s)
      PROVE  IInv'
  <2>1. PICK c \in Monitor : c = Scanning(b.todo \ {s}) /\ c.job = None
    BY <1>3, ScanningFields
  <2> DEFINE m == [c EXCEPT !.pc = "asking-revocation", !.session = s, !.call = "sent"]
  <2>2. b_monitor' = m /\ MonitorUnchanged
    BY <1>2, <1>7, <2>1 DEF MonitorAsks
  <2>3. m \in Monitor
    BY Zenon DEF Monitor, Call
  <2>4. m.pc = "asking-revocation" /\ m.session = s /\ m.job = None
    BY <2>1 DEF Monitor
  <2> HIDE DEF m
  <2>5. QED
    BY <2>2, <2>3, <2>4, MonitorMoves
<1>8. CASE MonitorAsksCommitment
  <2> DEFINE m == [b EXCEPT !.pc = "asking-commitment", !.call = "sent"]
  <2>1. b.pc = "asking-revocation" /\ b.job # None /\ b_monitor' = m /\ MonitorUnchanged
    BY <1>2, <1>8 DEF MonitorAsksCommitment
  <2>2. m \in Monitor
    BY Zenon DEF Monitor, Call
  <2>3. m.pc = "asking-commitment" /\ m.session = b.session /\ m.job = b.job
    BY DEF Monitor
  <2> HIDE DEF m
  <2>4. QED
    BY <1>1, <1>2, <2>1, <2>2, <2>3, MonitorMoves DEF MonitorInv
<1>9. CASE ServeSessionRevocation
  <2> DEFINE k == revocation_jobs_by_session[b.session]
             confirmed == k # None /\ revocation_records[k].status = "confirmed"
  <2>1. b.pc = "asking-revocation" /\ b.session \in Sessions /\ MonitorUnchanged
    BY <1>1, <1>2, <1>9 DEF ServeSessionRevocation, MonitorInv
  <2>2. k \in OptionalJob
    BY <1>1, <2>1 DEF TypeOK, Ledger!TypeOK, OptionalJob
  <2>3. PICK j \in OptionalJob : j = IF confirmed THEN k ELSE None
    BY <2>2 DEF OptionalJob
  <2>4. PICK a \in OptionalJob : a = IF confirmed THEN revocation_records[k].session_anchor ELSE None
    BY <1>1, <2>2, SMT DEF TypeOK, Ledger!TypeOK, Ledger!RevocationRecord, OptionalJob
  <2> DEFINE m == [b EXCEPT !.call = "served", !.job = j, !.session_anchor = a]
  <2>5. b_monitor' = m
    BY <1>2, <1>9, <2>3, <2>4 DEF ServeSessionRevocation
  <2>6. m \in Monitor
    BY Zenon DEF Monitor, Call
  <2>7. m.pc = b.pc /\ m.session = b.session /\ m.job = j
    BY DEF Monitor
  <2>8. j # None => ConfirmedRevocation(b.session, j)
    <3>1. SUFFICES ASSUME j # None
                   PROVE  ConfirmedRevocation(b.session, j)
      OBVIOUS
    <3>2. j \in Jobs /\ j = revocation_jobs_by_session[b.session]
          /\ revocation_records[j].status = "confirmed"
      BY <2>2, <2>3, <3>1 DEF OptionalJob
    <3>3. Adapter!CallerInv
      BY DEF IInv
    <3>4. /\ LedgerMode = "iota" => chain[j] = "final"
          /\ revocation_records[j].session = b.session
      BY <2>1, <3>2, <3>3, LedgerFacts
    <3>5. Asked(b.session, j)
      BY <1>1, <3>2, <3>4 DEF RequestedInv
    <3>6. QED
      BY <3>2, <3>4, <3>5 DEF ConfirmedRevocation
  <2> HIDE DEF m
  <2>9. QED
    BY <2>1, <2>5, <2>6, <2>7, <2>8, MonitorMoves
<1>10. CASE ServeSessionCommitment
  <2> DEFINE k == commitment_jobs_by_session[b.session]
             confirmed == k # None /\ records[k].status = "confirmed"
  <2>1. b.pc = "asking-commitment" /\ b.session \in Sessions /\ b.job # None /\ MonitorUnchanged
    BY <1>1, <1>2, <1>10 DEF ServeSessionCommitment, MonitorInv
  <2>2. k \in OptionalJob
    BY <1>1, <2>1 DEF TypeOK, Ledger!TypeOK, OptionalJob
  <2>3. PICK a \in OptionalJob : a = IF confirmed THEN records[k].ledger_identifier ELSE None
    BY <1>1, <2>2, SMT DEF TypeOK, Ledger!TypeOK, Ledger!CommitmentRecord, OptionalJob
  <2> DEFINE m == [b EXCEPT !.call = "served", !.identifier = a]
  <2>4. b_monitor' = m
    BY <1>2, <1>10, <2>3 DEF ServeSessionCommitment
  <2>5. m \in Monitor
    BY Zenon DEF Monitor, Call
  <2>6. m.pc = b.pc /\ m.session = b.session /\ m.job = b.job
    BY DEF Monitor
  <2> HIDE DEF m
  <2>7. QED
    BY <1>1, <1>2, <2>1, <2>4, <2>5, <2>6, MonitorMoves DEF MonitorInv
<1>11. CASE MonitorEnforces
  <2>1. /\ b.pc = "asking-commitment"
        /\ b_sessions' = [b_sessions EXCEPT ![b.session] =
              [revoked |-> TRUE, revocation_job |-> b.job]]
        /\ b_monitor' = Scanning(b.todo)
        /\ UNCHANGED <<ledgerVars, aVars, expired>>
        /\ UNCHANGED <<chain, restarts, revocation_records, a_revokes>>
    BY <1>2, <1>11 DEF MonitorEnforces, ledgerVars, aVars
  <2>2. ConfirmedRevocation(b.session, b.job) /\ b.session \in Sessions
    BY <1>1, <1>2, <2>1 DEF MonitorInv
  <2>3. b_sessions' \in [Sessions -> BSession \cup {None}]
    BY <1>1, <2>1, <2>2, SMT DEF TypeOK, BSession, OptionalJob, ConfirmedRevocation
  <2>4. b_monitor' \in Monitor /\ b_monitor'.pc = "scanning" /\ b_monitor'.call = "unsent"
        /\ b_monitor'.job = None
    BY <1>3, <2>1, ScanningFields
  <2>5. MonitorInv'
    BY <2>4 DEF MonitorInv
  <2>6. expired' \subseteq Sessions
    BY <1>1, <2>1 DEF TypeOK
  <2>7. RevokedInv'
    <3>1. SUFFICES ASSUME NEW t \in Sessions, Revoked(t)'
                   PROVE  ConfirmedRevocation(t, b_sessions[t].revocation_job)'
      BY DEF RevokedInv
    <3>2. CASE t = b.session
      <4>1. b_sessions'[t].revocation_job = b.job
        BY <1>1, <2>1, <2>2, <3>2 DEF TypeOK
      <4>2. QED
        BY <2>1, <2>2, <3>2, <4>1 DEF ConfirmedRevocation, Asked
    <3>3. CASE t # b.session
      <4>1. b_sessions'[t] = b_sessions[t]
        BY <1>1, <2>1, <3>3 DEF TypeOK
      <4>2. ConfirmedRevocation(t, b_sessions[t].revocation_job)
        BY <1>1, <3>1, <4>1 DEF Revoked, RevokedInv
      <4>3. QED
        BY <2>1, <4>1, <4>2 DEF ConfirmedRevocation, Asked
    <3>4. QED
      BY <3>2, <3>3
  <2>8. QED
    BY <2>1, <2>3, <2>4, <2>5, <2>6, <2>7, GatewayAStays, Step
<1>12. CASE MonitorContinues \/ MonitorCallFails
  <2>1. b_monitor' = Scanning(b.todo) /\ MonitorUnchanged
    BY <1>2, <1>12 DEF MonitorContinues, MonitorCallFails
  <2>2. QED
    BY <1>3, <2>1, MonitorScans
<1>13. QED
  BY <1>4, <1>5, <1>6, <1>7, <1>8, <1>9, <1>10, <1>11, <1>12 DEF MonitorStep

\* A step of the adapter of its own.
LEMMA LedgerSteps ==
    ASSUME IInv, LedgerKept, Adapter!CallerInv'
    PROVE  LedgerStep => IInv'
<1>1. SUFFICES ASSUME LedgerStep
               PROVE  IInv'
  OBVIOUS
<1>2. /\ UNCHANGED <<aVars, bVars, expired>>
      /\ UNCHANGED <<a_sessions, a_commits, a_revokes>>
  BY <1>1 DEF LedgerStep, aVars
<1>3. TypeOK /\ CommitsInv
  BY DEF IInv, GatewaysInv
<1>4. UNCHANGED issued
  <2>1. ASSUME NEW w \in Workers, Ledger!CommitmentWorker(w) \/ Ledger!RevocationWorker(w)
        PROVE  UNCHANGED issued
    BY <2>1 DEF Ledger!CommitmentWorker, Ledger!CommitmentGet,
        Ledger!CommitmentSimulatedFinality, Ledger!CommitmentSubmitted,
        Ledger!CommitmentCommandFails, Ledger!CommitmentConfirmed,
        Ledger!CommitmentLookupFails, Ledger!CommitmentEnds, Ledger!RevocationWorker,
        Ledger!RevocationGet, Ledger!RevocationSimulatedFinality, Ledger!RevocationSubmitted,
        Ledger!RevocationCommandFails, Ledger!RevocationConfirmed,
        Ledger!RevocationLookupFails, Ledger!RevocationEnds
  <2>2. ASSUME NEW j \in Jobs, Ledger!Chain(j)
        PROVE  UNCHANGED issued
    BY <2>2 DEF Ledger!Chain, Ledger!ChainReceive, Ledger!ChainExecute,
        Ledger!ChainCheckpoint, Ledger!ChainStep
  <2>3. Ledger!Restart => UNCHANGED issued
    BY DEF Ledger!Restart
  <2>4. QED
    BY <1>1, <2>1, <2>2, <2>3 DEF LedgerStep, Ledger!WorkerStep
<1>5. restarts' = 0 => restarts = 0 /\ UNCHANGED commitment_jobs_by_session
  <2>1. ASSUME NEW w \in Workers, Ledger!CommitmentWorker(w) \/ Ledger!RevocationWorker(w)
        PROVE  UNCHANGED commitment_jobs_by_session
    BY <2>1 DEF Ledger!CommitmentWorker, Ledger!CommitmentGet,
        Ledger!CommitmentSimulatedFinality, Ledger!CommitmentSubmitted,
        Ledger!CommitmentCommandFails, Ledger!CommitmentConfirmed,
        Ledger!CommitmentLookupFails, Ledger!CommitmentEnds, Ledger!RevocationWorker,
        Ledger!RevocationGet, Ledger!RevocationSimulatedFinality, Ledger!RevocationSubmitted,
        Ledger!RevocationCommandFails, Ledger!RevocationConfirmed,
        Ledger!RevocationLookupFails, Ledger!RevocationEnds, Ledger!commitmentVars
  <2>2. ASSUME NEW j \in Jobs, Ledger!Chain(j)
        PROVE  UNCHANGED commitment_jobs_by_session
    BY <2>2 DEF Ledger!Chain, Ledger!ChainReceive, Ledger!ChainExecute,
        Ledger!ChainCheckpoint, Ledger!ChainStep, Ledger!commitmentVars
  <2>3. Ledger!Restart => restarts' # 0
    <3>1. restarts \in Nat
      BY <1>3, RestartAssumption, SMT DEF TypeOK, Ledger!TypeOK
    <3>2. QED
      BY <3>1, SMT DEF Ledger!Restart
  <2>4. restarts' = 0 => restarts = 0
    BY DEF LedgerKept
  <2>5. QED
    BY <1>1, <2>1, <2>2, <2>3, <2>4 DEF LedgerStep, Ledger!WorkerStep
<1>6. CommitsInv'
  BY <1>2, <1>3, <1>5 DEF CommitsInv
<1>7. RecordedInv'
  BY <1>2, RecordedStay
<1>8. \A s \in Sessions : Queued(s) => Queued(s)'
  BY <1>2 DEF Queued
<1>9. a_revokes' \in [Requests -> Revoke] /\ RequestsKept /\ RevokesInv'
  BY <1>2, <1>8, RequestsStay
<1>10. RequestedInv'
  BY <1>4, <1>9, NothingRequested
<1>11. a_sessions' \in [Sessions -> ASession \cup {None}] /\ a_commits' \in [Sessions -> Commit]
  BY <1>2, <1>3 DEF TypeOK
<1>12. QED
  BY <1>2, <1>6, <1>7, <1>9, <1>10, <1>11, GatewayBStays, Step

\* Nothing happens.
LEMMA StutterStep == ASSUME IInv, LedgerKept, Adapter!CallerInv', UNCHANGED vars
                     PROVE  IInv'
<1>1. UNCHANGED <<ledgerVars, aVars, bVars, expired>>
  BY DEF vars
<1>2. QED
  BY <1>1, GatewayAStays, GatewayBStays, Step

\* Every step keeps the invariant.
LEMMA NextIInv == IInv /\ [Next]_vars => IInv'
<1>1. SUFFICES ASSUME IInv, [Next]_vars
               PROVE  IInv'
  OBVIOUS
<1>2. Adapter!CallerInv' /\ LedgerKept
  BY <1>1, StepOfLedger, LedgerKeeps DEF IInv
<1>3. QED
  BY <1>1, <1>2, EstablishStep, CommitStep, RevokeStep, MonitorSteps, LedgerSteps, StutterStep
  DEF Next

-----------------------------------------------------------------------------
(* The safety properties.                                                  *)

\* IInv is inductive and holds in every reachable state: of the gateways, the calls
\* between them and the adapter, and the adapter itself.
THEOREM Invariance == Spec => []IInv
<1>1. IInv /\ [Next]_vars => IInv'
  BY NextIInv
<1>2. QED
  BY <1>1, InitIInv, PTL DEF Spec

\* The records of the gateways and of the adapter, the revoke requests and the
\* monitor keep their types: no coroutine resumes with an answer it was not given.
THEOREM TypeCorrect == Spec => []TypeOK
<1>1. IInv => TypeOK
  BY DEF IInv, GatewaysInv
<1>2. QED
  BY <1>1, Invariance, PTL

\* The anchor revoke_session read stays good while the request that quotes it is
\* under way, also when Gateway A has given up on it.
THEOREM PostedAccepted == Spec => []PostedIsAccepted
<1>1. IInv => PostedIsAccepted
  <2> SUFFICES ASSUME IInv, NEW r \in Requests, Posted(r), restarts = 0
               PROVE  Ledger!RevocationAccepted(a_revokes[r].session, a_revokes[r].anchor)
    BY DEF PostedIsAccepted
  <2>1. RevokeInv(a_revokes[r])
    BY DEF IInv, GatewaysInv, RevokesInv
  <2>2. QED
    BY <2>1 DEF RevokeInv, Posted
<1>2. QED
  BY <1>1, Invariance, PTL

\* The commitment Gateway A remembers is the one the adapter reports to Gateway B.
THEOREM CommitmentAgreed == Spec => []GatewaysAgreeOnCommitment
<1>1. IInv => GatewaysAgreeOnCommitment
  BY DEF IInv, GatewaysInv, CommitsInv, GatewaysAgreeOnCommitment
<1>2. QED
  BY <1>1, Invariance, PTL

\* What revoke_session records, and answers from then on, is a revocation the adapter
\* accepted for that session, whichever of two answers came last.
THEOREM RecordedAccepted == Spec => []RecordedRevocationAccepted
<1>1. IInv => RecordedRevocationAccepted
  BY DEF IInv, GatewaysInv, RecordedInv, Accepted, RecordedRevocationAccepted
<1>2. QED
  BY <1>1, Invariance, PTL

\* revocation_monitor revokes a session only by its own confirmed revocation, which
\* names its own confirmed commitment, although it acts on answers that may be old.
THEOREM EnforcedConfirmed == Spec => []EnforcedOnlyIfConfirmed
<1>1. IInv => EnforcedOnlyIfConfirmed
  <2> SUFFICES ASSUME IInv, NEW s \in Sessions, Revoked(s),
                      NEW j, j = b_sessions[s].revocation_job,
                      NEW c, c = commitment_jobs_by_session[s]
               PROVE  /\ j # None
                      /\ LedgerMode = "iota" => chain[j] = "final"
                      /\ restarts = 0 =>
                          /\ c # None
                          /\ records[c].status = "confirmed"
                          /\ revocation_records[j] =
                                [status |-> "confirmed", session |-> s,
                                 session_anchor |-> records[c].ledger_identifier,
                                 ledger_identifier |->
                                    IF LedgerMode = "iota" THEN j ELSE None]
    BY DEF EnforcedOnlyIfConfirmed
  <2>1. ConfirmedRevocation(s, j)
    BY DEF IInv, GatewaysInv, RevokedInv
  <2>2. j \in Jobs /\ j # None /\ (LedgerMode = "iota" => chain[j] = "final")
    BY <2>1, NoneAssumption DEF ConfirmedRevocation
  <2>3. ASSUME restarts = 0
        PROVE  /\ c # None
               /\ records[c].status = "confirmed"
               /\ revocation_records[j] =
                     [status |-> "confirmed", session |-> s,
                      session_anchor |-> records[c].ledger_identifier,
                      ledger_identifier |-> IF LedgerMode = "iota" THEN j ELSE None]
    <3>1. revocation_records[j].status = "confirmed" /\ revocation_records[j].session = s
      BY <2>1, <2>3 DEF ConfirmedRevocation
    <3>2. Ledger!TypeOK
      BY LedgerFacts DEF IInv
    <3>3. PICK k \in Ledger!RevocationRecord : k = revocation_records[j]
      BY <2>2, <3>2 DEF Ledger!TypeOK
    <3>4. /\ c # None
          /\ records[c].status = "confirmed"
          /\ k.session_anchor = records[c].ledger_identifier
      BY <2>2, <3>1, <3>3, LedgerFacts DEF IInv
    <3>5. k.ledger_identifier = IF LedgerMode = "iota" THEN j ELSE None
      BY <2>2, <3>1, <3>3, LedgerFacts DEF IInv
    <3>6. k = [status |-> k.status, session |-> k.session,
               session_anchor |-> k.session_anchor, ledger_identifier |-> k.ledger_identifier]
      BY DEF Ledger!RevocationRecord
    <3>7. QED
      BY <3>1, <3>3, <3>4, <3>5, <3>6
  <2>4. QED
    BY <2>2, <2>3
<1>2. QED
  BY <1>1, Invariance, PTL

\* A session nobody asked Gateway A to revoke is never revoked.
THEOREM RevokedRequested == Spec => []RevokedOnlyOnRequest
<1>1. IInv => RevokedOnlyOnRequest
  <2> SUFFICES ASSUME IInv, NEW s \in Sessions, Revoked(s)
               PROVE  \E r \in Requests : a_revokes[r].session = s /\ a_revokes[r].call = "served"
    BY DEF RevokedOnlyOnRequest
  <2>1. PICK r \in Requests : a_revokes[r].session = s /\ a_revokes[r].job # None
    BY NoneAssumption DEF IInv, GatewaysInv, RevokedInv, ConfirmedRevocation, Asked
  <2>2. a_revokes[r].call = "served"
    BY <2>1 DEF IInv, GatewaysInv, RevokesInv, RevokeInv
  <2>3. QED
    BY <2>1, <2>2
<1>2. QED
  BY <1>1, Invariance, PTL

-----------------------------------------------------------------------------
(* The stage of a session, from what decides it.                           *)

HasConfirmed(s) ==
    \E j \in Jobs : /\ revocation_records[j].session = s
                    /\ revocation_records[j].status = "confirmed"

HasPending(s) ==
    \E j \in Jobs : /\ revocation_records[j].session = s
                    /\ revocation_records[j].status \in {"queued"} \cup Ledger!InProgress

LEMMA RevocationsFound ==
    ASSUME NEW s
    PROVE  /\ (Revocations(s, {"confirmed"}) = {}) <=> ~HasConfirmed(s)
           /\ (Revocations(s, {"queued"} \cup Ledger!InProgress) = {}) <=> ~HasPending(s)
           /\ (Revocations(s, {"confirmed"}) = {})' <=> ~HasConfirmed(s)'
           /\ (Revocations(s, {"queued"} \cup Ledger!InProgress) = {})' <=> ~HasPending(s)'
BY DEF Revocations, HasConfirmed, HasPending

StageFound(s) ==
    IF b_sessions[s] = None THEN "absent"
    ELSE IF Revoked(s) THEN "revoked"
    ELSE IF MonitorTold(s) \/ HasConfirmed(s) THEN "confirmed"
    ELSE IF HasPending(s) THEN "requested"
    ELSE IF CommitmentConfirmed(s) THEN "anchored"
    ELSE "established"

\* Only the monitor still knows of the session's confirmed revocation.
OnlyTold(s) == MonitorTold(s) /\ ~HasConfirmed(s)

LEMMA StageIs == \A s \in Sessions : StageOf(s) = StageFound(s)
<1>1. ASSUME NEW s \in Sessions
      PROVE  StageOf(s) = StageFound(s)
  <2>1. LedgerStage(s) = IF MonitorTold(s) \/ HasConfirmed(s) THEN "confirmed"
                         ELSE IF HasPending(s) THEN "requested"
                         ELSE IF CommitmentConfirmed(s) THEN "anchored"
                         ELSE "established"
    BY RevocationsFound DEF LedgerStage
  <2>2. b_sessions[s] = None => ~Revoked(s)
    BY DEF Revoked
  <2>3. QED
    BY <2>1, <2>2 DEF StageOf, StageFound
<1>2. QED
  BY <1>1, Zenon

LEMMA LifecycleFound ==
    /\ [s \in Sessions |-> StageOf(s)] = [s \in Sessions |-> StageFound(s)]
    /\ [s \in Sessions |-> StageOf(s)]' = [s \in Sessions |-> StageFound(s)']
    /\ {s \in Sessions : MonitorTold(s) /\ Revocations(s, {"confirmed"}) = {}}
         = {s \in Sessions : OnlyTold(s)}
    /\ {s \in Sessions : MonitorTold(s) /\ Revocations(s, {"confirmed"}) = {}}'
         = {s \in Sessions : OnlyTold(s)'}
<1>1. (\A s \in Sessions : StageOf(s) = StageFound(s))'
  BY StageIs, PTL
<1>2. \A s \in Sessions : StageOf(s)' = StageFound(s)'
  BY <1>1
<1>3. QED
  BY <1>2, StageIs, RevocationsFound DEF OnlyTold

\* What a step leaves of what decides the stage of s.
LedgerSame(s) ==
    /\ HasConfirmed(s)' <=> HasConfirmed(s)
    /\ HasPending(s)' <=> HasPending(s)
    /\ CommitmentConfirmed(s)' <=> CommitmentConfirmed(s)

Same(s) ==
    /\ LedgerSame(s)
    /\ b_sessions'[s] = b_sessions[s]
    /\ MonitorTold(s)' <=> MonitorTold(s)

\* The lifecycle does not see what a step does to s.
Stays(s) == StageFound(s)' = StageFound(s) /\ (OnlyTold(s)' <=> OnlyTold(s))

LEMMA SameStays ==
    ASSUME NEW s \in Sessions, Same(s)
    PROVE  Stays(s)
<1>1. (b_sessions[s] = None)' <=> b_sessions[s] = None
  BY DEF Same
<1>2. Revoked(s)' <=> Revoked(s)
  BY DEF Same, Revoked
<1>3. QED
  BY <1>1, <1>2 DEF Same, LedgerSame, StageFound, OnlyTold, Stays

LifeStep == [Lifecycle!Next]_(Lifecycle!vars)

\* A step that leaves every session alone is none of the lifecycle's ...
LEMMA NoneMoves ==
    ASSUME UNCHANGED expired, \A t \in Sessions : Stays(t)
    PROVE  LifeStep
BY LifecycleFound DEF Lifecycle!vars, Stays, LifeStep

\* ... and one that moves a single session is a step of that session's.
LEMMA OneMoves ==
    ASSUME UNCHANGED expired, NEW s \in Sessions, \A t \in Sessions \ {s} : Stays(t),
           ~OnlyTold(s)', NEW from, NEW to, StageFound(s) = from, StageFound(s)' = to
    PROVE  Lifecycle!Moves(s, from, to)
<1>1. [t \in Sessions |-> StageFound(t)'] = [[t \in Sessions |-> StageFound(t)] EXCEPT ![s] = to]
  BY DEF Stays
<1>2. {t \in Sessions : OnlyTold(t)'} = {t \in Sessions : OnlyTold(t)} \ {s}
  BY DEF Stays
<1>3. QED
  BY <1>1, <1>2, LifecycleFound DEF Lifecycle!Moves

-----------------------------------------------------------------------------
(* What the order of a session's life rests on.                            *)

\* The adapter has a commitment only of a session Gateway A posted one of, and A
\* posts it once Gateway B has the session.
CommitmentsServed ==
    \A s \in Sessions :
        /\ commitment_jobs_by_session[s] # None => a_commits[s].call = "served"
        /\ a_commits[s].pc # "idle" => b_sessions[s] # None

\* The monitor visits sessions Gateway B has and asks about one that is not revoked;
\* an unanswered question has no answer yet.
MonitorVisits ==
    /\ b_monitor.todo \subseteq {s \in Sessions : b_sessions[s] # None}
    /\ b_monitor.pc \in {"asking-revocation", "asking-commitment"} =>
           b_sessions[b_monitor.session] # None /\ ~Revoked(b_monitor.session)
    /\ b_monitor.pc = "asking-revocation" /\ b_monitor.call = "sent" => b_monitor.job = None

\* The confirmed revocation the monitor was told of is still there, unless the adapter
\* has forgotten all it knew of the session.
ToldOfRecords ==
    \A s \in Sessions :
        MonitorTold(s) /\ commitment_jobs_by_session[s] # None => HasConfirmed(s)

LifeInv == CommitmentsServed /\ MonitorVisits /\ ToldOfRecords

LEMMA CommitmentConfirmedIs ==
    ASSUME IInv, NEW s \in Sessions
    PROVE  CommitmentConfirmed(s) <=>
               /\ commitment_jobs_by_session[s] # None
               /\ records[commitment_jobs_by_session[s]].status = "confirmed"
<1>1. commitment_jobs_by_session[s] \in Jobs \cup {None}
  BY DEF IInv, GatewaysInv, TypeOK, Ledger!TypeOK
<1>2. QED
  BY <1>1, NoneAssumption DEF CommitmentConfirmed

\* The stages of a session in their order.
LEMMA InOrder ==
    ASSUME IInv, LifeInv, NEW s \in Sessions
    PROVE  /\ MonitorTold(s) => b_sessions[s] # None /\ ~Revoked(s)
           /\ MonitorTold(s) => HasConfirmed(s) \/ commitment_jobs_by_session[s] = None
           /\ HasConfirmed(s) \/ HasPending(s) => CommitmentConfirmed(s)
           /\ commitment_jobs_by_session[s] # None => b_sessions[s] # None
           /\ CommitmentConfirmed(s) => commitment_jobs_by_session[s] # None
           /\ Revoked(s) => b_sessions[s] # None
<1>1. b_monitor.pc \in {"sleeping", "scanning", "asking-revocation", "asking-commitment"}
  BY DEF IInv, GatewaysInv, TypeOK, Monitor
<1>2. MonitorTold(s) => b_sessions[s] # None /\ ~Revoked(s)
  BY <1>1 DEF MonitorTold, LifeInv, MonitorVisits, IInv, GatewaysInv, MonitorInv
<1>3. ASSUME NEW j \in Jobs, revocation_records[j].session = s,
             revocation_records[j].status \in {"queued", "confirmed"} \cup Ledger!InProgress
      PROVE  CommitmentConfirmed(s)
  <2>1. revocation_records[j].status # "absent"
    BY <1>3 DEF Ledger!InProgress
  <2>2. QED
    BY <1>3, <2>1, LedgerFacts, CommitmentConfirmedIs DEF IInv
<1>4. HasConfirmed(s) \/ HasPending(s) => CommitmentConfirmed(s)
  BY <1>3 DEF HasConfirmed, HasPending
<1>5. commitment_jobs_by_session[s] # None => b_sessions[s] # None
  BY DEF LifeInv, CommitmentsServed, IInv, GatewaysInv, CommitsInv
<1>6. QED
  BY <1>2, <1>4, <1>5, CommitmentConfirmedIs DEF LifeInv, ToldOfRecords, Revoked

LEMMA InitLifeInv == Init => LifeInv
<1> SUFFICES ASSUME Init
             PROVE  LifeInv
  OBVIOUS
<1>1. ASSUME NEW s \in Sessions
      PROVE  commitment_jobs_by_session[s] = None /\ a_commits[s].pc = "idle"
  BY DEF Init, Ledger!Init, Ledger!NoJobs
<1>2. CommitmentsServed
  BY <1>1, Zenon DEF CommitmentsServed
<1>3. b_monitor.pc = "sleeping" /\ b_monitor.todo = {} /\ b_monitor.job = None
  BY DEF Init, Scanning
<1>4. MonitorVisits /\ ToldOfRecords
  BY <1>3 DEF MonitorVisits, ToldOfRecords, MonitorTold
<1>5. QED
  BY <1>2, <1>4 DEF LifeInv

-----------------------------------------------------------------------------
(* The steps, by what they change.                                         *)

LEMMA RecordsSame ==
    ASSUME UNCHANGED <<records, commitment_jobs_by_session, revocation_records>>,
           NEW s
    PROVE  LedgerSame(s)
BY DEF LedgerSame, HasConfirmed, HasPending, CommitmentConfirmed

\* A step that changes neither the adapter's records nor what Gateway B knows.
LEMMA QuietStep ==
    ASSUME LifeInv,
           UNCHANGED <<records, commitment_jobs_by_session, revocation_records>>,
           UNCHANGED <<b_sessions, b_monitor, expired>>,
           \A s \in Sessions : /\ a_commits[s].call = "served" => a_commits'[s].call = "served"
                               /\ a_commits'[s].pc # "idle" => b_sessions[s] # None
    PROVE  LifeInv' /\ LifeStep
<1>1. \A s \in Sessions : Same(s)
  BY RecordsSame DEF Same, MonitorTold
<1>2. CommitmentsServed'
  BY DEF LifeInv, CommitmentsServed
<1>3. MonitorVisits'
  BY DEF LifeInv, MonitorVisits, Revoked
<1>4. ToldOfRecords'
  BY <1>1 DEF LifeInv, ToldOfRecords, Same, LedgerSame
<1>5. QED
  BY <1>1, <1>2, <1>3, <1>4, SameStays, NoneMoves DEF LifeInv

\* The gateways' steps that only concern Gateway A.
LEMMA GatewayAQuiet ==
    ASSUME IInv, LifeInv
    PROVE  /\ \A s \in Sessions :
                  EstablishA(s) \/ CommitmentQueued(s) \/ CommitmentNotQueued(s) => LifeInv' /\ LifeStep
           /\ \A r \in Requests :
                  \/ \E s \in Sessions : StartRevoke(r, s)
                  \/ ServeLookup(r) \/ PostRevocation(r) \/ RevocationRequested(r) \/ RevokeFails(r)
                  => LifeInv' /\ LifeStep
           /\ UNCHANGED vars => LifeInv' /\ LifeStep
<1> DEFINE Quiet == /\ UNCHANGED <<records, commitment_jobs_by_session, revocation_records>>
                    /\ UNCHANGED <<b_sessions, b_monitor, expired>>
<1>1. \A s \in Sessions : a_commits[s].pc # "idle" => b_sessions[s] # None
  BY DEF LifeInv, CommitmentsServed
<1>2. a_commits \in [Sessions -> Commit] /\ CommitsInv
  BY DEF IInv, GatewaysInv, TypeOK
<1>3. ASSUME NEW s \in Sessions,
             EstablishA(s) \/ CommitmentQueued(s) \/ CommitmentNotQueued(s)
      PROVE  LifeInv' /\ LifeStep
  <2>1. Quiet
    BY <1>3 DEF EstablishA, CommitmentQueued, CommitmentNotQueued, ledgerVars, bVars
  <2>2. \A t \in Sessions : /\ a_commits[t].call = "served" => a_commits'[t].call = "served"
                            /\ a_commits'[t].pc # "idle" => b_sessions[t] # None
    <3>1. CASE EstablishA(s)
      BY <1>1, <1>2, <3>1, SMT DEF EstablishA, CommitsInv
    <3>2. CASE CommitmentQueued(s) \/ CommitmentNotQueued(s)
      <4>1. a_commits' = [a_commits EXCEPT ![s].pc = "done"] /\ a_commits[s].pc # "idle"
        BY <3>2 DEF CommitmentQueued, CommitmentNotQueued
      <4>2. QED
        BY <1>1, <1>2, <4>1, SMT DEF Commit
    <3>3. QED
      BY <1>3, <3>1, <3>2
  <2>3. QED
    BY <2>1, <2>2, QuietStep
<1>4. ASSUME Quiet, UNCHANGED a_commits
      PROVE  LifeInv' /\ LifeStep
  BY <1>1, <1>4, QuietStep
<1>5. ASSUME NEW r \in Requests, NEW s \in Sessions, StartRevoke(r, s)
      PROVE  LifeInv' /\ LifeStep
  BY <1>4, <1>5 DEF StartRevoke, ledgerVars, bVars
<1>6. ASSUME NEW r \in Requests,
             ServeLookup(r) \/ PostRevocation(r) \/ RevocationRequested(r) \/ RevokeFails(r)
      PROVE  LifeInv' /\ LifeStep
  BY <1>4, <1>6 DEF ServeLookup, PostRevocation, RevocationRequested, RevokeFails,
      ledgerVars, bVars
<1>7. UNCHANGED vars => LifeInv' /\ LifeStep
  BY <1>4 DEF vars, ledgerVars, aVars, bVars
<1>8. QED
  BY <1>3, <1>5, <1>6, <1>7

\* Gateway B has a new session.
LEMMA EstablishBMoves ==
    ASSUME IInv, LifeInv, NEW s \in Sessions, EstablishB(s)
    PROVE  LifeInv' /\ LifeStep
<1>1. /\ UNCHANGED <<records, commitment_jobs_by_session, revocation_records>>
      /\ UNCHANGED <<a_commits, b_monitor, expired>>
      /\ b_sessions[s] = None
      /\ b_sessions' = [b_sessions EXCEPT ![s] = [revoked |-> FALSE, revocation_job |-> None]]
  BY DEF EstablishB, ledgerVars, aVars
<1>2. b_sessions \in [Sessions -> BSession \cup {None}]
  BY DEF IInv, GatewaysInv, TypeOK
<1>3. PICK b \in BSession : b = [revoked |-> FALSE, revocation_job |-> None]
  BY DEF BSession, OptionalJob
<1>4. b # None /\ b.revoked = FALSE
  BY <1>3, SessionAssumption
<1>5. /\ \A t \in Sessions \ {s} : b_sessions'[t] = b_sessions[t]
      /\ b_sessions'[s] = b
  BY <1>1, <1>2, <1>3
<1>6. \A t \in Sessions : LedgerSame(t) /\ (MonitorTold(t)' <=> MonitorTold(t))
  BY <1>1, RecordsSame DEF MonitorTold
<1>7. \A t \in Sessions \ {s} : Stays(t)
  BY <1>5, <1>6, SameStays DEF Same
<1>8. LifeStep
  <2>1. ~MonitorTold(s) /\ ~HasConfirmed(s) /\ ~HasPending(s) /\ ~CommitmentConfirmed(s)
    BY <1>1, InOrder
  <2>2. StageFound(s) = "absent"
    BY <1>1 DEF StageFound
  <2>3. ~Revoked(s)' /\ b_sessions'[s] # None
    BY <1>4, <1>5 DEF Revoked
  <2>4. StageFound(s)' = "established" /\ ~OnlyTold(s)'
    BY <1>6, <2>1, <2>3 DEF StageFound, OnlyTold, LedgerSame
  <2>5. Lifecycle!Moves(s, "absent", "established")
    BY <1>1, <1>7, <2>2, <2>4, OneMoves
  <2>6. QED
    BY <2>5 DEF LifeStep, Lifecycle!Next, Lifecycle!Establish
<1>9. CommitmentsServed'
  BY <1>1, <1>4, <1>5 DEF LifeInv, CommitmentsServed
<1>10. MonitorVisits'
  BY <1>1, <1>4, <1>5 DEF LifeInv, MonitorVisits, Revoked
<1>11. ToldOfRecords'
  BY <1>1, <1>6 DEF LifeInv, ToldOfRecords, LedgerSame
<1>12. QED
  BY <1>8, <1>9, <1>10, <1>11 DEF LifeInv

LEMMA ExpireMoves ==
    ASSUME LifeInv, NEW s \in Sessions, Expire(s)
    PROVE  LifeInv' /\ LifeStep
<1>1. /\ UNCHANGED <<records, commitment_jobs_by_session, revocation_records>>
      /\ UNCHANGED <<a_commits, b_sessions, b_monitor>>
      /\ b_sessions[s] # None
      /\ expired' = expired \cup {s}
  BY DEF Expire, ledgerVars, aVars, bVars
<1>2. \A t \in Sessions : Same(t)
  BY <1>1, RecordsSame DEF Same, MonitorTold
<1>3. \A t \in Sessions : Stays(t)
  BY <1>2, SameStays, Zenon
<1>4. StageFound(s) # "absent"
  BY <1>1 DEF StageFound
<1>5. Lifecycle!Expire(s)
  BY <1>1, <1>3, <1>4, LifecycleFound DEF Lifecycle!Expire, Stays
<1>6. LifeInv'
  BY <1>1, <1>2 DEF LifeInv, CommitmentsServed, MonitorVisits, ToldOfRecords, Revoked, Same,
      LedgerSame
<1>7. QED
  BY <1>5, <1>6 DEF LifeStep, Lifecycle!Next

\* The adapter takes a commitment: it is not confirmed yet.
LEMMA ServeCommitmentQuiet ==
    ASSUME IInv, LifeInv, NEW s \in Sessions, NEW j \in Jobs, ServeCommitment(s, j)
    PROVE  LifeInv' /\ LifeStep
<1>1. /\ UNCHANGED <<b_sessions, b_monitor, expired, revocation_records>>
      /\ a_commits[s].call = "sent"
      /\ a_commits' = [a_commits EXCEPT ![s] = [@ EXCEPT !.call = "served", !.job = j]]
      /\ records' = [records EXCEPT ![j] =
             [status |-> "queued", session |-> s, ledger_identifier |-> None]]
      /\ commitment_jobs_by_session' = [commitment_jobs_by_session EXCEPT ![s] = j]
      /\ j \notin issued
      /\ Ledger!CommitmentAccepted(s)
  BY DEF ServeCommitment, Ledger!SubmitCommitment, Ledger!revocationVars, bVars
<1>2. /\ commitment_jobs_by_session \in [Sessions -> Jobs \cup {None}]
      /\ records \in [Jobs -> Ledger!CommitmentRecord]
      /\ a_commits \in [Sessions -> Commit]
      /\ TypeOK /\ CommitsInv /\ RevokesInv /\ MonitorInv
  BY DEF IInv, GatewaysInv, TypeOK, Ledger!TypeOK
<1>3. records[j].status = "absent"
  BY <1>1, LedgerFacts DEF IInv
<1>4. \A t \in Sessions : commitment_jobs_by_session[t] # j
  BY <1>3, LedgerFacts DEF IInv
<1>5. /\ records'[j].status = "queued"
      /\ \A k \in Jobs \ {j} : records'[k] = records[k]
      /\ commitment_jobs_by_session'[s] = j
      /\ \A t \in Sessions \ {s} :
             commitment_jobs_by_session'[t] = commitment_jobs_by_session[t]
  BY <1>1, <1>2
<1>6. ~CommitmentConfirmed(s) /\ ~CommitmentConfirmed(s)'
  BY <1>1, <1>5, NoneAssumption DEF CommitmentConfirmed, Ledger!CommitmentAccepted
<1>7. \A t \in Sessions : LedgerSame(t)
  <2>1. \A t \in Sessions : /\ HasConfirmed(t)' <=> HasConfirmed(t)
                            /\ HasPending(t)' <=> HasPending(t)
    BY <1>1 DEF HasConfirmed, HasPending
  <2>2. \A t \in Sessions \ {s} : CommitmentConfirmed(t)' <=> CommitmentConfirmed(t)
    BY <1>4, <1>5 DEF CommitmentConfirmed
  <2>3. QED
    BY <1>6, <2>1, <2>2 DEF LedgerSame
<1>8. \A t \in Sessions : Same(t)
  BY <1>1, <1>7 DEF Same, MonitorTold
<1>9. LifeStep
  BY <1>1, <1>8, SameStays, NoneMoves
<1>10. ~MonitorTold(s)
  <2>1. SUFFICES ASSUME MonitorTold(s)
                 PROVE  FALSE
    OBVIOUS
  <2>2. PICK r \in Requests, k \in Jobs : a_revokes[r].session = s /\ a_revokes[r].job = k
    BY <1>2, <2>1 DEF MonitorInv, MonitorTold, ConfirmedRevocation, Asked
  <2>3. a_revokes[r].pc # "idle"
    BY <1>2, <2>2, NoneAssumption DEF RevokesInv, RevokeInv
  <2>4. Queued(s)
    BY <1>2, <2>2, <2>3 DEF RevokesInv, RevokeInv
  <2>5. QED
    BY <1>1, <1>2, <2>4 DEF Queued, CommitsInv
<1>11. CommitmentsServed'
  <2>1. \A t \in Sessions : /\ a_commits'[t].pc = a_commits[t].pc
                            /\ a_commits'[s].call = "served"
                            /\ t # s => a_commits'[t].call = a_commits[t].call
    BY <1>1, <1>2 DEF Commit
  <2>2. QED
    BY <1>1, <1>5, <2>1 DEF LifeInv, CommitmentsServed
<1>12. MonitorVisits'
  BY <1>1 DEF LifeInv, MonitorVisits, Revoked
<1>13. ToldOfRecords'
  <2>1. SUFFICES ASSUME NEW t \in Sessions, MonitorTold(t)', commitment_jobs_by_session'[t] # None
                 PROVE  HasConfirmed(t)'
    BY DEF ToldOfRecords
  <2>2. MonitorTold(t) /\ t # s
    BY <1>1, <1>10, <2>1 DEF MonitorTold
  <2>3. HasConfirmed(t)
    BY <1>5, <2>1, <2>2 DEF LifeInv, ToldOfRecords
  <2>4. QED
    BY <1>7, <2>3 DEF LedgerSame
<1>14. QED
  BY <1>9, <1>11, <1>12, <1>13 DEF LifeInv

\* The adapter takes a revocation: the first one under way is what the session was
\* waiting for, another one makes no difference.
LEMMA ServeRevocationMoves ==
    ASSUME IInv, LifeInv, NEW r \in Requests, NEW j \in Jobs, ServeRevocation(r, j)
    PROVE  LifeInv' /\ LifeStep
<1>1. PICK s \in Sessions : s = a_revokes[r].session
  BY DEF ServeRevocation, Posted, IInv, GatewaysInv, RevokesInv, RevokeInv, Queued
<1>2. PICK anchor : anchor = a_revokes[r].anchor
  OBVIOUS
<1>3. /\ UNCHANGED <<b_sessions, b_monitor, expired, a_commits>>
      /\ UNCHANGED <<records, commitment_jobs_by_session>>
      /\ revocation_records' = [revocation_records EXCEPT ![j] =
             [status |-> "queued", session |-> s,
              ledger_identifier |-> None, session_anchor |-> anchor]]
      /\ j \notin issued
      /\ Ledger!RevocationAccepted(s, anchor)
  BY <1>1, <1>2 DEF ServeRevocation, Ledger!SubmitRevocation, Ledger!commitmentVars, bVars
<1>4. revocation_records \in [Jobs -> Ledger!RevocationRecord]
  BY DEF IInv, GatewaysInv, TypeOK, Ledger!TypeOK
<1>5. revocation_records[j].status = "absent"
  BY <1>3, LedgerFacts DEF IInv
<1>6. /\ revocation_records'[j].status = "queued"
      /\ revocation_records'[j].session = s
      /\ \A k \in Jobs \ {j} : revocation_records'[k] = revocation_records[k]
  BY <1>3, <1>4
<1>7. CommitmentConfirmed(s)
  BY <1>3, CommitmentConfirmedIs DEF Ledger!RevocationAccepted
<1>8. b_sessions[s] # None
  BY <1>7, InOrder
<1>9. \A t \in Sessions : /\ HasConfirmed(t)' <=> HasConfirmed(t)
                          /\ CommitmentConfirmed(t)' <=> CommitmentConfirmed(t)
  <2>1. \A t \in Sessions : CommitmentConfirmed(t)' <=> CommitmentConfirmed(t)
    BY <1>3 DEF CommitmentConfirmed
  <2>2. \A t \in Sessions : HasConfirmed(t)' <=> HasConfirmed(t)
    BY <1>5, <1>6, SMT DEF HasConfirmed
  <2>3. QED
    BY <2>1, <2>2
<1>10. \A t \in Sessions \ {s} : HasPending(t)' <=> HasPending(t)
  BY <1>5, <1>6, SMT DEF HasPending, Ledger!InProgress
<1>11. HasPending(s)'
  BY <1>6 DEF HasPending
<1>12. \A t \in Sessions : b_sessions'[t] = b_sessions[t] /\ (MonitorTold(t)' <=> MonitorTold(t))
  BY <1>3 DEF MonitorTold
<1>13. \A t \in Sessions \ {s} : Stays(t)
  BY <1>9, <1>10, <1>12, SameStays DEF Same, LedgerSame
<1>14. Revoked(s)' <=> Revoked(s)
  BY <1>12 DEF Revoked
<1>15. OnlyTold(s)' <=> OnlyTold(s)
  BY <1>9, <1>12 DEF OnlyTold
<1>16. ASSUME Revoked(s) \/ MonitorTold(s) \/ HasConfirmed(s) \/ HasPending(s)
       PROVE  LifeStep
  <2>1. StageFound(s)' = StageFound(s)
    BY <1>8, <1>9, <1>11, <1>12, <1>14, <1>16 DEF StageFound
  <2>2. \A t \in Sessions : Stays(t)
    BY <1>13, <1>15, <2>1 DEF Stays
  <2>3. QED
    BY <1>3, <2>2, NoneMoves
<1>17. ASSUME ~(Revoked(s) \/ MonitorTold(s) \/ HasConfirmed(s) \/ HasPending(s))
       PROVE  LifeStep
  <2>1. StageFound(s) = "anchored"
    BY <1>7, <1>8, <1>17 DEF StageFound
  <2>2. StageFound(s)' = "requested"
    BY <1>8, <1>9, <1>11, <1>12, <1>14, <1>17 DEF StageFound
  <2>3. ~OnlyTold(s)'
    BY <1>15, <1>17 DEF OnlyTold
  <2>4. Lifecycle!Moves(s, "anchored", "requested")
    BY <1>3, <1>13, <2>1, <2>2, <2>3, OneMoves
  <2>5. QED
    BY <2>4 DEF LifeStep, Lifecycle!Next, Lifecycle!Request
<1>18. LifeInv'
  BY <1>3, <1>9, <1>12 DEF LifeInv, CommitmentsServed, MonitorVisits, ToldOfRecords, Revoked
<1>19. QED
  BY <1>16, <1>17, <1>18

-----------------------------------------------------------------------------
(* The monitor.                                                            *)

\* What it was told does not change.
LEMMA MonitorQuiet ==
    ASSUME LifeInv, MonitorUnchanged, MonitorVisits',
           \A t \in Sessions : MonitorTold(t)' <=> MonitorTold(t)
    PROVE  LifeInv' /\ LifeStep
<1>1. /\ UNCHANGED <<records, commitment_jobs_by_session, revocation_records>>
      /\ UNCHANGED <<a_commits, b_sessions, expired>>
  BY DEF MonitorUnchanged, ledgerVars, aVars
<1>2. \A t \in Sessions : LedgerSame(t)
  BY <1>1, RecordsSame
<1>3. \A t \in Sessions : Same(t)
  BY <1>1, <1>2 DEF Same
<1>4. LifeStep
  BY <1>1, <1>3, SameStays, NoneMoves
<1>5. CommitmentsServed' /\ ToldOfRecords'
  BY <1>1, <1>2 DEF LifeInv, CommitmentsServed, ToldOfRecords, LedgerSame
<1>6. QED
  BY <1>4, <1>5 DEF LifeInv

\* It goes on to the next session, which gives up a revocation only if the adapter
\* has forgotten it.
LEMMA MonitorGoesOn ==
    ASSUME IInv, LifeInv, MonitorUnchanged, b_monitor' = Scanning(b_monitor.todo)
    PROVE  LifeInv' /\ LifeStep
<1>1. /\ UNCHANGED <<records, commitment_jobs_by_session, revocation_records>>
      /\ UNCHANGED <<a_commits, b_sessions, expired>>
  BY DEF MonitorUnchanged, ledgerVars, aVars
<1>2. \A t \in Sessions : LedgerSame(t)
  BY <1>1, RecordsSame
<1>3. b_monitor'.pc = "scanning" /\ b_monitor'.todo = b_monitor.todo /\ b_monitor'.job = None
  BY DEF Scanning
<1>4. \A t \in Sessions : ~MonitorTold(t)'
  BY <1>3 DEF MonitorTold
<1>5. MonitorVisits'
  BY <1>1, <1>3 DEF LifeInv, MonitorVisits
<1>6. ASSUME NEW s \in Sessions, OnlyTold(s)
      PROVE  LifeInv' /\ LifeStep
  <2>1. \A t \in Sessions \ {s} : ~MonitorTold(t)
    BY <1>6 DEF OnlyTold, MonitorTold
  <2>2. \A t \in Sessions \ {s} : Stays(t)
    BY <1>1, <1>2, <1>4, <2>1, SameStays DEF Same
  <2>3. /\ b_sessions[s] # None /\ ~Revoked(s) /\ MonitorTold(s)
        /\ ~HasConfirmed(s) /\ ~HasPending(s) /\ ~CommitmentConfirmed(s)
    BY <1>6, InOrder DEF OnlyTold
  <2>4. StageFound(s) = "confirmed"
    BY <2>3 DEF StageFound
  <2>5. Revoked(s)' <=> Revoked(s)
    BY <1>1 DEF Revoked
  <2>6. StageFound(s)' = "established" /\ ~OnlyTold(s)'
    BY <1>1, <1>2, <1>4, <2>3, <2>5 DEF StageFound, OnlyTold, LedgerSame
  <2>7. Lifecycle!Moves(s, "confirmed", "established")
    BY <1>1, <2>2, <2>4, <2>6, OneMoves
  <2>8. Lifecycle!Abandon(s)
    BY <1>6, <2>7, LifecycleFound DEF Lifecycle!Abandon
  <2>9. LifeStep
    BY <2>8 DEF LifeStep, Lifecycle!Next
  <2>10. CommitmentsServed' /\ ToldOfRecords'
    BY <1>1, <1>4 DEF LifeInv, CommitmentsServed, ToldOfRecords
  <2>11. QED
    BY <1>5, <2>9, <2>10 DEF LifeInv
<1>7. ASSUME \A s \in Sessions : ~OnlyTold(s)
      PROVE  LifeInv' /\ LifeStep
  <2>1. ASSUME NEW t \in Sessions
        PROVE  Stays(t)
    <3>1. Revoked(t)' <=> Revoked(t)
      BY <1>1 DEF Revoked
    <3>2. MonitorTold(t) => HasConfirmed(t)
      BY <1>7 DEF OnlyTold
    <3>3. StageFound(t)' = StageFound(t)
      BY <1>1, <1>2, <1>4, <3>1, <3>2 DEF StageFound, LedgerSame
    <3>4. QED
      BY <1>4, <1>7, <3>3 DEF Stays, OnlyTold
  <2>2. LifeStep
    BY <1>1, <2>1, NoneMoves
  <2>3. CommitmentsServed' /\ ToldOfRecords'
    BY <1>1, <1>4 DEF LifeInv, CommitmentsServed, ToldOfRecords
  <2>4. QED
    BY <1>5, <2>2, <2>3 DEF LifeInv
<1>8. QED
  BY <1>6, <1>7

\* It revokes the session: the confirmed revocation is enforced.
LEMMA EnforceMoves ==
    ASSUME IInv, LifeInv, MonitorEnforces
    PROVE  LifeInv' /\ LifeStep
<1>1. PICK s \in Sessions : s = b_monitor.session
  BY DEF MonitorEnforces, IInv, GatewaysInv, MonitorInv
<1>2. PICK j : j = b_monitor.job
  OBVIOUS
<1>3. /\ UNCHANGED <<records, commitment_jobs_by_session, revocation_records>>
      /\ UNCHANGED <<a_commits, expired>>
      /\ b_sessions' = [b_sessions EXCEPT ![s] = [revoked |-> TRUE, revocation_job |-> j]]
      /\ b_monitor' = Scanning(b_monitor.todo)
  BY <1>1, <1>2 DEF MonitorEnforces, ledgerVars, aVars
<1>4. j \in Jobs /\ b_sessions \in [Sessions -> BSession \cup {None}]
  BY <1>2, NoneAssumption DEF MonitorEnforces, IInv, GatewaysInv, MonitorInv,
      ConfirmedRevocation, TypeOK
<1>5. PICK b \in BSession : b = [revoked |-> TRUE, revocation_job |-> j]
  BY <1>4 DEF BSession, OptionalJob
<1>6. b # None /\ b.revoked
  BY <1>5, SessionAssumption
<1>7. b_sessions'[s] = b /\ \A t \in Sessions \ {s} : b_sessions'[t] = b_sessions[t]
  BY <1>3, <1>4, <1>5
<1>8. \A t \in Sessions : LedgerSame(t)
  BY <1>3, RecordsSame
<1>9. b_monitor'.pc = "scanning" /\ b_monitor'.todo = b_monitor.todo /\ b_monitor'.job = None
  BY <1>3 DEF Scanning
<1>10. \A t \in Sessions : ~MonitorTold(t)'
  BY <1>9 DEF MonitorTold
<1>11. MonitorTold(s)
  BY <1>1 DEF MonitorEnforces, MonitorTold, IInv, GatewaysInv, MonitorInv
<1>12. \A t \in Sessions \ {s} : ~MonitorTold(t)
  BY <1>1 DEF MonitorTold
<1>13. \A t \in Sessions \ {s} : Stays(t)
  BY <1>7, <1>8, <1>10, <1>12, SameStays DEF Same
<1>14. StageFound(s) = "confirmed"
  BY <1>11, InOrder DEF StageFound
<1>15. Revoked(s)' /\ b_sessions'[s] # None
  BY <1>6, <1>7 DEF Revoked
<1>16. StageFound(s)' = "revoked" /\ ~OnlyTold(s)'
  BY <1>10, <1>15 DEF StageFound, OnlyTold
<1>17. Lifecycle!Moves(s, "confirmed", "revoked")
  BY <1>3, <1>13, <1>14, <1>16, OneMoves
<1>18. LifeStep
  BY <1>17 DEF LifeStep, Lifecycle!Next, Lifecycle!Enforce
<1>19. CommitmentsServed'
  BY <1>3, <1>6, <1>7 DEF LifeInv, CommitmentsServed
<1>20. MonitorVisits'
  BY <1>6, <1>7, <1>9 DEF LifeInv, MonitorVisits
<1>21. ToldOfRecords'
  BY <1>10 DEF ToldOfRecords
<1>22. QED
  BY <1>18, <1>19, <1>20, <1>21 DEF LifeInv

\* It is told of a confirmed revocation: the adapter has it on record.
LEMMA ToldQuiet ==
    ASSUME IInv, LifeInv, ServeSessionRevocation
    PROVE  LifeInv' /\ LifeStep
<1>1. PICK s \in Sessions : s = b_monitor.session
  BY DEF ServeSessionRevocation, IInv, GatewaysInv, MonitorInv
<1>2. /\ UNCHANGED <<records, commitment_jobs_by_session, revocation_records>>
      /\ UNCHANGED <<a_commits, b_sessions, expired>>
  BY DEF ServeSessionRevocation, MonitorUnchanged, ledgerVars, aVars
<1>3. PICK b \in Monitor : b = b_monitor
  BY DEF IInv, GatewaysInv, TypeOK
<1>4. PICK j : j = revocation_jobs_by_session[s]
  OBVIOUS
<1> DEFINE confirmed == j # None /\ revocation_records[j].status = "confirmed"
<1>5. PICK job : job = IF confirmed THEN j ELSE None
  OBVIOUS
<1>6. PICK anchor : anchor = IF confirmed THEN revocation_records[j].session_anchor ELSE None
  OBVIOUS
<1>7. b_monitor' = [b EXCEPT !.call = "served", !.job = job, !.session_anchor = anchor]
  BY <1>1, <1>3, <1>4, <1>5, <1>6 DEF ServeSessionRevocation
<1>8. job # None => job = j /\ revocation_records[j].status = "confirmed"
  BY <1>5
<1> HIDE DEF confirmed
<1>9. /\ b_monitor'.pc = b.pc /\ b_monitor'.todo = b.todo /\ b_monitor'.session = b.session
      /\ b_monitor'.call = "served" /\ b_monitor'.job = job
  BY <1>7 DEF Monitor
<1>10. job # None => HasConfirmed(s)
  <2>1. revocation_jobs_by_session[s] \in Jobs \cup {None}
    BY DEF IInv, GatewaysInv, TypeOK, Ledger!TypeOK
  <2>2. job # None => job \in Jobs /\ revocation_records[job].session = s
    BY <1>4, <1>8, <2>1, LedgerFacts DEF IInv
  <2>3. QED
    BY <1>8, <2>2 DEF HasConfirmed
<1>11. b_monitor.job = None
  BY DEF ServeSessionRevocation, LifeInv, MonitorVisits
<1>12. \A t \in Sessions : /\ ~MonitorTold(t)
                           /\ MonitorTold(t)' => t = s /\ HasConfirmed(s)
  BY <1>1, <1>3, <1>9, <1>10, <1>11 DEF MonitorTold
<1>13. \A t \in Sessions : LedgerSame(t)
  BY <1>2, RecordsSame
<1>14. ASSUME NEW t \in Sessions
       PROVE  Stays(t)
  <2>1. Revoked(t)' <=> Revoked(t)
    BY <1>2 DEF Revoked
  <2>2. MonitorTold(t)' => HasConfirmed(t)
    BY <1>12
  <2>3. ~MonitorTold(t)
    BY <1>12
  <2>4. StageFound(t)' = StageFound(t)
    BY <1>2, <1>13, <2>1, <2>2, <2>3 DEF StageFound, LedgerSame
  <2>5. OnlyTold(t)' <=> OnlyTold(t)
    BY <1>13, <2>2, <2>3 DEF OnlyTold, LedgerSame
  <2>6. QED
    BY <2>4, <2>5 DEF Stays
<1>15. LifeStep
  BY <1>2, <1>14, NoneMoves
<1>16. CommitmentsServed'
  BY <1>2 DEF LifeInv, CommitmentsServed
<1>17. MonitorVisits'
  <2>1. /\ b.todo \subseteq {t \in Sessions : b_sessions[t] # None}
        /\ b_sessions[s] # None /\ ~Revoked(s)
    BY <1>1, <1>3 DEF LifeInv, MonitorVisits, ServeSessionRevocation
  <2>2. QED
    BY <1>1, <1>2, <1>3, <1>9, <2>1 DEF MonitorVisits, Revoked
<1>18. ToldOfRecords'
  BY <1>12, <1>13 DEF ToldOfRecords, LedgerSame
<1>19. QED
  BY <1>15, <1>16, <1>17, <1>18 DEF LifeInv

LEMMA MonitorLifeSteps ==
    ASSUME IInv, LifeInv
    PROVE  MonitorStep \/ ServeSessionRevocation \/ ServeSessionCommitment
           => LifeInv' /\ LifeStep
<1>1. TypeOK /\ MonitorInv /\ MonitorVisits
  BY DEF IInv, GatewaysInv, LifeInv
<1>2. PICK b \in Monitor : b = b_monitor
  BY <1>1 DEF TypeOK
\* The monitor's next state is told of the same session or of none.
<1>3. ASSUME MonitorUnchanged, b_monitor.job = None, b_monitor'.job = None, MonitorVisits'
      PROVE  LifeInv' /\ LifeStep
  BY <1>3, MonitorQuiet DEF MonitorTold
<1>4. ASSUME MonitorUnchanged, b_monitor'.job = b_monitor.job,
             b_monitor'.session = b_monitor.session, MonitorVisits'
      PROVE  LifeInv' /\ LifeStep
  BY <1>4, MonitorQuiet DEF MonitorTold
<1>5. MonitorUnchanged => UNCHANGED b_sessions
  BY DEF MonitorUnchanged
<1>6. ASSUME NEW todo, MonitorUnchanged, b_monitor.job = None, b_monitor' = Scanning(todo),
             todo \subseteq {s \in Sessions : b_sessions[s] # None}
      PROVE  LifeInv' /\ LifeStep
  <2>1. b_monitor'.pc = "scanning" /\ b_monitor'.todo = todo /\ b_monitor'.job = None
    BY <1>6 DEF Scanning
  <2>2. MonitorVisits'
    BY <1>5, <1>6, <2>1 DEF MonitorVisits
  <2>3. QED
    BY <1>3, <1>6, <2>1, <2>2
<1>7. ASSUME MonitorWakes
      PROVE  LifeInv' /\ LifeStep
  BY <1>1, <1>6, <1>7 DEF MonitorWakes, MonitorInv
<1>8. ASSUME MonitorSleeps
      PROVE  LifeInv' /\ LifeStep
  <2>1. MonitorUnchanged /\ b_monitor = Scanning({}) /\ b_monitor' = [b EXCEPT !.pc = "sleeping"]
    BY <1>2, <1>8 DEF MonitorSleeps
  <2>2. b_monitor'.pc = "sleeping" /\ b_monitor'.todo = b.todo /\ b_monitor'.job = b.job
    BY <2>1 DEF Monitor
  <2>3. b_monitor.job = None /\ b_monitor.todo = {}
    BY <2>1 DEF Scanning
  <2>4. MonitorVisits'
    BY <1>2, <2>2, <2>3 DEF MonitorVisits
  <2>5. QED
    BY <1>2, <1>3, <2>1, <2>2, <2>3, <2>4
<1>9. ASSUME NEW s \in Sessions, MonitorSkips(s)
      PROVE  LifeInv' /\ LifeStep
  <2>1. b_monitor.todo \ {s} \subseteq {t \in Sessions : b_sessions[t] # None}
    BY <1>1 DEF MonitorVisits
  <2>2. QED
    BY <1>1, <1>6, <1>9, <2>1 DEF MonitorSkips, MonitorInv
<1>10. ASSUME NEW s \in Sessions, MonitorAsks(s)
       PROVE  LifeInv' /\ LifeStep
  <2>1. PICK todo : todo = b_monitor.todo \ {s}
    OBVIOUS
  <2>2. /\ MonitorUnchanged /\ b_monitor.job = None
        /\ s \in b_monitor.todo /\ ~b_sessions[s].revoked
        /\ b_monitor' = [Scanning(todo) EXCEPT
                !.pc = "asking-revocation", !.session = s, !.call = "sent"]
    BY <1>1, <1>10, <2>1 DEF MonitorAsks, MonitorInv
  <2>3. /\ b_monitor'.pc = "asking-revocation" /\ b_monitor'.todo = todo
        /\ b_monitor'.session = s /\ b_monitor'.job = None
    BY <2>2 DEF Scanning
  <2>4. b_sessions[s] # None /\ ~Revoked(s)
    BY <1>1, <2>2 DEF MonitorVisits, Revoked
  <2>5. MonitorVisits'
    BY <1>1, <1>5, <2>1, <2>2, <2>3, <2>4 DEF MonitorVisits, Revoked
  <2>6. QED
    BY <1>3, <2>2, <2>3, <2>5
<1>11. ASSUME MonitorAsksCommitment
       PROVE  LifeInv' /\ LifeStep
  <2>1. /\ MonitorUnchanged /\ b.pc = "asking-revocation"
        /\ b_monitor' = [b EXCEPT !.pc = "asking-commitment", !.call = "sent"]
    BY <1>2, <1>11 DEF MonitorAsksCommitment
  <2>2. /\ b_monitor'.pc = "asking-commitment" /\ b_monitor'.todo = b.todo
        /\ b_monitor'.session = b.session /\ b_monitor'.job = b.job
    BY <2>1 DEF Monitor
  <2>3. MonitorVisits'
    BY <1>1, <1>2, <1>5, <2>1, <2>2 DEF MonitorVisits, Revoked
  <2>4. QED
    BY <1>2, <1>4, <2>1, <2>2, <2>3
<1>12. ASSUME ServeSessionCommitment
       PROVE  LifeInv' /\ LifeStep
  <2> DEFINE j == commitment_jobs_by_session[b_monitor.session]
  <2> DEFINE confirmed == j # None /\ records[j].status = "confirmed"
  <2> DEFINE identifier == IF confirmed THEN records[j].ledger_identifier ELSE None
  <2>1. /\ MonitorUnchanged /\ b.pc = "asking-commitment"
        /\ b_monitor' = [b EXCEPT !.call = "served", !.identifier = identifier]
    BY <1>2, <1>12 DEF ServeSessionCommitment
  <2> HIDE DEF identifier
  <2>2. /\ b_monitor'.pc = "asking-commitment" /\ b_monitor'.todo = b.todo
        /\ b_monitor'.session = b.session /\ b_monitor'.job = b.job
    BY <2>1 DEF Monitor
  <2>3. MonitorVisits'
    BY <1>1, <1>2, <1>5, <2>1, <2>2 DEF MonitorVisits, Revoked
  <2>4. QED
    BY <1>2, <1>4, <2>1, <2>2, <2>3
<1>13. ASSUME MonitorContinues \/ MonitorCallFails
       PROVE  LifeInv' /\ LifeStep
  BY <1>13, MonitorGoesOn DEF MonitorContinues, MonitorCallFails
<1>14. QED
  BY <1>7, <1>8, <1>9, <1>10, <1>11, <1>12, <1>13, EnforceMoves, ToldQuiet DEF MonitorStep

-----------------------------------------------------------------------------
(* The adapter's own steps.                                                *)

\* The ledger confirms the session's commitment, or moves one on that is not the last.
LEMMA CommitmentMoves ==
    ASSUME IInv, LifeInv, UNCHANGED <<a_commits, b_sessions, b_monitor, expired>>,
           NEW j \in Jobs, Adapter!CommitmentMoved(j)
    PROVE  LifeInv' /\ LifeStep
<1>1. /\ records[j].status # "confirmed"
      /\ \A k \in Jobs \ {j} : records'[k] = records[k]
      /\ UNCHANGED <<commitment_jobs_by_session, revocation_records>>
  BY DEF Adapter!CommitmentMoved, Adapter!InProgress
<1>2. \A t \in Sessions : /\ HasConfirmed(t)' <=> HasConfirmed(t)
                          /\ HasPending(t)' <=> HasPending(t)
                          /\ MonitorTold(t)' <=> MonitorTold(t)
                          /\ Revoked(t)' <=> Revoked(t)
  BY <1>1 DEF HasConfirmed, HasPending, MonitorTold, Revoked
<1>3. LifeInv'
  BY <1>1, <1>2 DEF LifeInv, CommitmentsServed, MonitorVisits, ToldOfRecords, Revoked
<1>4. \A t \in Sessions : commitment_jobs_by_session[t] # j =>
          (CommitmentConfirmed(t)' <=> CommitmentConfirmed(t))
  BY <1>1 DEF CommitmentConfirmed
<1>5. \A t \in Sessions : commitment_jobs_by_session[t] # j => Stays(t)
  BY <1>2, <1>4, SameStays DEF Same, LedgerSame
<1>6. ASSUME NEW s \in Sessions, commitment_jobs_by_session[s] = j
      PROVE  LifeStep
  <2>1. \A t \in Sessions \ {s} : commitment_jobs_by_session[t] # j
    BY <1>6, LedgerFacts DEF IInv
  <2>2. \A t \in Sessions \ {s} : Stays(t)
    BY <1>5, <2>1
  <2>3. ~CommitmentConfirmed(s) /\ b_sessions[s] # None /\ ~HasConfirmed(s) /\ ~HasPending(s)
        /\ ~MonitorTold(s)
    BY <1>1, <1>6, CommitmentConfirmedIs, InOrder, NoneAssumption
  <2>4. ~OnlyTold(s) /\ ~OnlyTold(s)'
    BY <1>2, <2>3 DEF OnlyTold
  <2>5. CASE Revoked(s) \/ ~CommitmentConfirmed(s)'
    <3>1. StageFound(s)' = StageFound(s)
      BY <1>2, <2>3, <2>5 DEF StageFound
    <3>2. \A t \in Sessions : Stays(t)
      BY <2>2, <2>4, <3>1 DEF Stays
    <3>3. QED
      BY <3>2, NoneMoves
  <2>6. CASE ~Revoked(s) /\ CommitmentConfirmed(s)'
    <3>1. StageFound(s) = "established"
      BY <2>3, <2>6 DEF StageFound
    <3>2. StageFound(s)' = "anchored"
      BY <1>2, <2>3, <2>6 DEF StageFound
    <3>3. Lifecycle!Moves(s, "established", "anchored")
      BY <2>2, <2>4, <3>1, <3>2, OneMoves
    <3>4. QED
      BY <3>3 DEF LifeStep, Lifecycle!Next, Lifecycle!Anchor
  <2>7. QED
    BY <2>5, <2>6
<1>7. ASSUME \A s \in Sessions : commitment_jobs_by_session[s] # j
      PROVE  LifeStep
  BY <1>5, <1>7, NoneMoves
<1>8. QED
  BY <1>3, <1>6, <1>7

\* A revocation is confirmed, fails or is moved on.
LEMMA RevocationMovesOn ==
    ASSUME IInv, LifeInv, UNCHANGED <<a_commits, b_sessions, b_monitor, expired>>,
           NEW j \in Jobs, Adapter!RevocationMoved(j)
    PROVE  LifeInv' /\ LifeStep
<1>1. PICK s : s = revocation_records[j].session
  OBVIOUS
<1>2. /\ revocation_records[j].status \in {"queued"} \cup Ledger!InProgress
      /\ revocation_records'[j].session = s
      /\ \A k \in Jobs \ {j} : revocation_records'[k] = revocation_records[k]
      /\ UNCHANGED <<commitment_jobs_by_session, records>>
  BY <1>1 DEF Adapter!RevocationMoved, Adapter!InProgress, Ledger!InProgress
<1>3. revocation_records[j].status # "confirmed"
  BY <1>2 DEF Ledger!InProgress
<1>4. \A t \in Sessions : /\ HasConfirmed(t) => HasConfirmed(t)'
                          /\ MonitorTold(t)' <=> MonitorTold(t)
                          /\ Revoked(t)' <=> Revoked(t)
                          /\ CommitmentConfirmed(t)' <=> CommitmentConfirmed(t)
  BY <1>2, <1>3 DEF HasConfirmed, MonitorTold, Revoked, CommitmentConfirmed
<1>5. \A t \in Sessions \ {s} : /\ HasConfirmed(t)' <=> HasConfirmed(t)
                                /\ HasPending(t)' <=> HasPending(t)
  BY <1>1, <1>2 DEF HasConfirmed, HasPending
<1>6. \A t \in Sessions \ {s} : Stays(t)
  BY <1>4, <1>5, SameStays DEF Same, LedgerSame
<1>7. LifeInv'
  BY <1>2, <1>4 DEF LifeInv, CommitmentsServed, MonitorVisits, ToldOfRecords, Revoked
<1>8. ASSUME s \in Sessions
      PROVE  LifeStep
  <2>1. HasPending(s)
    BY <1>1, <1>2 DEF HasPending
  <2>2. /\ CommitmentConfirmed(s) /\ b_sessions[s] # None
        /\ MonitorTold(s) => HasConfirmed(s)
    BY <1>8, <2>1, InOrder
  <2>3. ~OnlyTold(s) /\ ~OnlyTold(s)'
    BY <1>4, <1>8, <2>2 DEF OnlyTold
  <2>4. ASSUME StageFound(s)' = StageFound(s)
        PROVE  LifeStep
    <3>1. \A t \in Sessions : Stays(t)
      BY <1>6, <2>3, <2>4 DEF Stays
    <3>2. QED
      BY <3>1, NoneMoves
  <2>5. CASE Revoked(s) \/ HasConfirmed(s)
    <3>1. StageFound(s)' = StageFound(s)
      BY <1>4, <1>8, <2>2, <2>5 DEF StageFound
    <3>2. QED
      BY <2>4, <3>1
  <2>6. CASE ~(Revoked(s) \/ HasConfirmed(s))
    <3>1. StageFound(s) = "requested"
      BY <2>1, <2>2, <2>6 DEF StageFound
    <3>2. ~MonitorTold(s)' /\ ~Revoked(s)' /\ CommitmentConfirmed(s)'
      BY <1>4, <1>8, <2>2, <2>6
    <3>3. CASE HasConfirmed(s)'
      <4>1. StageFound(s)' = "confirmed"
        BY <2>2, <3>2, <3>3 DEF StageFound
      <4>2. Lifecycle!Moves(s, "requested", "confirmed")
        BY <1>6, <1>8, <2>3, <3>1, <4>1, OneMoves
      <4>3. QED
        BY <4>2, <1>8 DEF LifeStep, Lifecycle!Next, Lifecycle!Confirm
    <3>4. CASE ~HasConfirmed(s)' /\ HasPending(s)'
      <4>1. StageFound(s)' = "requested"
        BY <2>2, <3>2, <3>4 DEF StageFound
      <4>2. QED
        BY <2>4, <3>1, <4>1
    <3>5. CASE ~HasConfirmed(s)' /\ ~HasPending(s)'
      <4>1. StageFound(s)' = "anchored"
        BY <2>2, <3>2, <3>5 DEF StageFound
      <4>2. Lifecycle!Moves(s, "requested", "anchored")
        BY <1>6, <1>8, <2>3, <3>1, <4>1, OneMoves
      <4>3. QED
        BY <4>2, <1>8 DEF LifeStep, Lifecycle!Next, Lifecycle!RequestFails
    <3>6. QED
      BY <3>3, <3>4, <3>5
  <2>7. QED
    BY <2>5, <2>6
<1>9. ASSUME s \notin Sessions
      PROVE  LifeStep
  BY <1>6, <1>9, NoneMoves
<1>10. QED
  BY <1>7, <1>8, <1>9

\* The adapter restarts: what it knew of the sessions is gone, and only the monitor
\* may still know of a confirmed revocation.
LEMMA RestartForgets ==
    ASSUME IInv, LifeInv, UNCHANGED <<a_commits, b_sessions, b_monitor, expired>>,
           \A j \in Jobs : /\ records'[j].status = "absent"
                           /\ revocation_records'[j].status = "absent",
           \A s \in Sessions : commitment_jobs_by_session'[s] = None
    PROVE  LifeInv' /\ LifeStep
<1>1. \A t \in Sessions : /\ ~HasConfirmed(t)' /\ ~HasPending(t)' /\ ~CommitmentConfirmed(t)'
                          /\ MonitorTold(t)' <=> MonitorTold(t)
                          /\ Revoked(t)' <=> Revoked(t)
  BY DEF HasConfirmed, HasPending, CommitmentConfirmed, MonitorTold, Revoked, Ledger!InProgress
<1>2. \A t \in Sessions : OnlyTold(t)' <=> MonitorTold(t)
  BY <1>1 DEF OnlyTold
<1>3. ASSUME NEW t \in Sessions
      PROVE  /\ MonitorTold(t) => StageFound(t) = "confirmed"
             /\ StageFound(t)' = IF StageFound(t) \in {"absent", "revoked"} \/ OnlyTold(t)'
                                 THEN StageFound(t) ELSE "established"
  <2>1. MonitorTold(t) => b_sessions[t] # None /\ ~Revoked(t)
    BY InOrder
  <2>2. StageFound(t)' = IF b_sessions[t] = None THEN "absent"
                         ELSE IF Revoked(t) THEN "revoked"
                         ELSE IF MonitorTold(t) THEN "confirmed" ELSE "established"
    BY <1>1 DEF StageFound
  <2>3. QED
    BY <1>2, <2>1, <2>2 DEF StageFound
<1>4. Lifecycle!Forget
  <2>1. {t \in Sessions : OnlyTold(t)'} \in SUBSET {t \in Sessions : StageFound(t) = "confirmed"}
    BY <1>2, <1>3
  <2>2. QED
    BY <1>3, <2>1, LifecycleFound DEF Lifecycle!Forget
<1>5. CommitmentsServed'
  BY DEF LifeInv, CommitmentsServed
<1>6. MonitorVisits'
  BY DEF LifeInv, MonitorVisits, Revoked
<1>7. ToldOfRecords'
  BY DEF ToldOfRecords
<1>8. QED
  BY <1>4, <1>5, <1>6, <1>7 DEF LifeInv, LifeStep, Lifecycle!Next

LEMMA LedgerLifeStep ==
    ASSUME IInv, LifeInv, LedgerStep
    PROVE  LifeInv' /\ LifeStep
<1>1. UNCHANGED <<a_commits, b_sessions, b_monitor, expired>>
  BY DEF LedgerStep, aVars, bVars
<1>2. Adapter!OwnStep /\ Adapter!IInv
  BY LedgerOwnStep DEF IInv, Adapter!CallerInv
<1>3. \/ \E j \in Jobs : Adapter!CommitmentMoved(j) \/ Adapter!RevocationMoved(j)
      \/ UNCHANGED <<records, commitment_jobs_by_session, revocation_records>>
      \/ /\ \A j \in Jobs : /\ records'[j].status = "absent"
                            /\ revocation_records'[j].status = "absent"
         /\ \A s \in Sessions : commitment_jobs_by_session'[s] = None
  BY <1>2, Adapter!OwnStepSeen, NoneAssumption, ModeAssumption, RestartAssumption
<1>4. ASSUME UNCHANGED <<records, commitment_jobs_by_session, revocation_records>>
      PROVE  LifeInv' /\ LifeStep
  <2>1. \A s \in Sessions : /\ a_commits[s].call = "served" => a_commits'[s].call = "served"
                            /\ a_commits'[s].pc # "idle" => b_sessions[s] # None
    BY <1>1 DEF LifeInv, CommitmentsServed
  <2>2. QED
    BY <1>1, <1>4, <2>1, QuietStep
<1>5. ASSUME NEW j \in Jobs, Adapter!CommitmentMoved(j) \/ Adapter!RevocationMoved(j)
      PROVE  LifeInv' /\ LifeStep
  BY <1>1, <1>5, CommitmentMoves, RevocationMovesOn
<1>6. QED
  BY <1>1, <1>3, <1>4, <1>5, RestartForgets, Zenon

LEMMA NextLife ==
    ASSUME IInv, LifeInv, [Next]_vars
    PROVE  LifeInv' /\ LifeStep
BY GatewayAQuiet, EstablishBMoves, ExpireMoves, ServeCommitmentQuiet, ServeRevocationMoves,
    MonitorLifeSteps, LedgerLifeStep DEF Next

LEMMA InitLife ==
    ASSUME Init
    PROVE  Lifecycle!Init
<1>1. b_monitor.job = None /\ expired = {}
  BY DEF Init, Scanning
<1>2. ASSUME NEW s \in Sessions
      PROVE  StageFound(s) = "absent" /\ ~OnlyTold(s)
  <2>1. b_sessions[s] = None
    BY DEF Init
  <2>2. QED
    BY <1>1, <2>1 DEF StageFound, OnlyTold, MonitorTold
<1>3. QED
  BY <1>1, <1>2, LifecycleFound DEF Lifecycle!Init

-----------------------------------------------------------------------------
(* The refinements.                                                        *)

\* The gateways use the adapter as its own specification allows: whatever they
\* request, repeat and time out on, the adapter among them behaves as
\* LedgerAdapter says.
THEOREM LedgerBehaves == Spec => Adapter!Spec
<1>1. Init => Adapter!Init
  BY LedgerInit DEF Init
<1>2. IInv /\ [Next]_vars => [Adapter!Next]_(Adapter!vars)
  BY StepOfLedger DEF ledgerVars, Adapter!vars, Adapter!commitmentVars, Adapter!revocationVars
<1>3. QED
  BY <1>1, <1>2, Invariance, PTL DEF Spec, Adapter!Spec

\* So what an answer of the adapter told a gateway stays true while the adapter
\* lives: a settled job is settled for good, a confirmed commitment never replaced.
THEOREM LedgerSettles == Spec => Adapter!SettledForGood
BY LedgerBehaves, Adapter!SettledStaySettled, NoneAssumption, ModeAssumption, RestartAssumption

\* However the gateways, their calls, the monitor, the adapter's workers, the
\* chain and restarts of the adapter interleave, every step of the system is one
\* step of one session's life, a restart, or changes no session's stage.
THEOREM Implementation == Spec => ImplementsLifecycle
<1>1. Init => LifeInv /\ Lifecycle!Init
  BY InitLifeInv, InitLife
<1>2. IInv /\ LifeInv /\ [Next]_vars => LifeInv' /\ [Lifecycle!Next]_(Lifecycle!vars)
  BY NextLife DEF LifeStep
<1>3. QED
  BY <1>1, <1>2, Invariance, PTL DEF Spec, ImplementsLifecycle, Lifecycle!Spec
=============================================================================
