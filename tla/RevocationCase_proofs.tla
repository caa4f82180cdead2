------------------------- MODULE RevocationCase_proofs -------------------------
(* Theorems about RevocationCase: what a case of the revocation benchmark  *)
(* reports is true of the system it ran against.                           *)
(*                                                                         *)
(* A case only watches: to the gateways and the adapter it is a stuttering *)
(* step, so what SessionRevocation_proofs shows of them holds here too.    *)
EXTENDS RevocationCase, SessionRevocation_proofs

-----------------------------------------------------------------------------
(* The inductive invariant.                                                *)

\* Where the case has come to.
Watched == {"control", "reuse", "ok"}
Started == {"anchoring", "revoking", "watching"} \cup Watched

CaseTypes ==
    /\ case \in Case
    /\ confirmation \in {"unborn", "polling", "confirmed", "raised"}
    /\ rejection \in {"unborn", "polling", "rejected", "raised"}

\* Nobody asks Gateway A to revoke another session than session_a.
OnlyAAsked == \A r \in Requests : a_revokes[r].session \in {None, session_a}

\* The job the case was told of is a revocation of session_a it asked for.
JobInv ==
    /\ case.job # None => Asked(session_a, case.job)
    /\ rejection # "unborn" \/ case.pc = "watching" => case.job # None

\* What the case and its pollers have seen is so, and stays so.
SeenInv ==
    /\ rejection = "rejected" => Revoked(session_a)
    /\ case.pc \in Watched => rejection = "rejected"
    /\ case.pc \in Started => b_sessions[session_b] # None
    /\ case.pc \in {"reuse", "ok"} => case.control \in {"authorized", "expired"}
    /\ case.pc = "ok" => case.reuse = "revoked"

CaseInv ==
    /\ IInv
    /\ CaseTypes
    /\ OnlyAAsked
    /\ JobInv
    /\ SeenInv

LEMMA SessionsOfCase == session_a \in Sessions /\ session_b \in Sessions /\ session_a # session_b
BY CaseAssumption

\* session_b is never revoked: nobody asked for it.
LEMMA ControlNotRevoked == CaseInv => ~Revoked(session_b)
<1> SUFFICES ASSUME CaseInv, Revoked(session_b)
             PROVE  FALSE
  OBVIOUS
<1>1. PICK r \in Requests : a_revokes[r].session = session_b
  BY SessionsOfCase DEF CaseInv, IInv, GatewaysInv, RevokedInv, ConfirmedRevocation, Asked
<1>2. session_b \in {None, session_a}
  BY <1>1 DEF CaseInv, OnlyAAsked
<1>3. QED
  BY <1>2, SessionsOfCase, NoneAssumption

\* One request, one job: session_a is revoked by the job the case was told of.
LEMMA RevokedByCase ==
    ASSUME CaseInv, Revoked(session_a), case.job # None
    PROVE  /\ b_sessions[session_a].revocation_job = case.job
           /\ restarts = 0 => revocation_records[case.job].status = "confirmed"
<1>1. PICK j : j = b_sessions[session_a].revocation_job
  OBVIOUS
<1>2. ConfirmedRevocation(session_a, j)
  BY <1>1, SessionsOfCase DEF CaseInv, IInv, GatewaysInv, RevokedInv
<1>3. PICK r \in Requests : a_revokes[r].job = j
  BY <1>2 DEF ConfirmedRevocation, Asked
<1>4. PICK q \in Requests : a_revokes[q].job = case.job
  BY DEF CaseInv, JobInv, Asked
<1>5. r = q
  BY RequestAssumption
<1>6. QED
  BY <1>1, <1>2, <1>3, <1>4, <1>5 DEF ConfirmedRevocation

-----------------------------------------------------------------------------
(* What a step of the system keeps.                                        *)

\* The system takes the steps of SessionRevocation.
LEMMA SystemStepIsNext ==
    ASSUME case \in Case, SystemStep
    PROVE  Next
<1>1. case.created \subseteq Sessions
  BY DEF Case
<1>2. QED
  BY <1>1, SessionsOfCase DEF SystemStep, Next

\* A step of a revoke request.
RequestStep(r) ==
    \/ \E s \in Sessions : StartRevoke(r, s)
    \/ ServeLookup(r)
    \/ PostRevocation(r)
    \/ \E j \in Jobs : ServeRevocation(r, j)
    \/ RevocationRequested(r)
    \/ RevokeFails(r)

\* Gateway B forgets neither a session nor that it is revoked.
LEMMA GatewayBRemembers ==
    ASSUME IInv, [Next]_vars, NEW s \in Sessions, b_sessions[s] # None
    PROVE  b_sessions'[s] # None /\ (Revoked(s) => Revoked(s)')
<1>1. TypeOK /\ MonitorInv
  BY DEF IInv, GatewaysInv
<1>2. CASE UNCHANGED b_sessions
  BY <1>2 DEF Revoked
<1>3. ASSUME NEW t \in Sessions, EstablishB(t)
      PROVE  b_sessions'[s] = b_sessions[s]
  BY <1>1, <1>3 DEF EstablishB, TypeOK
<1>4. CASE MonitorEnforces
  <2>1. b_sessions' = [b_sessions EXCEPT ![b_monitor.session] =
            [revoked |-> TRUE, revocation_job |-> b_monitor.job]]
    BY <1>4 DEF MonitorEnforces
  <2>2. b_sessions \in [Sessions -> BSession \cup {None}]
    BY <1>1 DEF TypeOK
  <2>3. CASE s = b_monitor.session
    <3>1. b_monitor.job # None
      BY <1>1, <1>4 DEF MonitorInv, MonitorEnforces
    <3>2. b_monitor.job \in Jobs
      BY <1>1, <3>1 DEF MonitorInv, ConfirmedRevocation
    <3>3. [revoked |-> TRUE, revocation_job |-> b_monitor.job] \in BSession
      BY <3>2, SMT DEF BSession, OptionalJob
    <3>4. b_sessions'[s] = [revoked |-> TRUE, revocation_job |-> b_monitor.job]
      BY <2>1, <2>2, <2>3
    <3>5. b_sessions'[s] # None
      BY <3>3, <3>4, SessionAssumption, Zenon
    <3>6. QED
      BY <3>4, <3>5 DEF Revoked
  <2>4. CASE s # b_monitor.session
    BY <2>1, <2>2, <2>4 DEF Revoked
  <2>5. QED
    BY <2>3, <2>4
<1>5. ASSUME NEW t \in Sessions
      PROVE  /\ EstablishA(t) \/ CommitmentQueued(t) \/ CommitmentNotQueued(t) \/ Expire(t) =>
                    UNCHANGED b_sessions
             /\ \A j \in Jobs : ServeCommitment(t, j) => UNCHANGED b_sessions
  BY Zenon DEF EstablishA, ServeCommitment, CommitmentQueued, CommitmentNotQueued, Expire, bVars
<1>6. ASSUME NEW r \in Requests, RequestStep(r)
      PROVE  UNCHANGED b_sessions
  BY <1>6, Zenon DEF RequestStep, StartRevoke, ServeLookup, PostRevocation, ServeRevocation,
      RevocationRequested, RevokeFails, bVars
<1>7. MonitorStep \/ ServeSessionRevocation \/ ServeSessionCommitment =>
          UNCHANGED b_sessions \/ MonitorEnforces
  BY Zenon DEF MonitorStep, MonitorUnchanged, MonitorWakes, MonitorSleeps, MonitorSkips, MonitorAsks,
      MonitorAsksCommitment, MonitorContinues, MonitorCallFails, ServeSessionRevocation,
      ServeSessionCommitment
<1>8. LedgerStep \/ UNCHANGED vars => UNCHANGED b_sessions
  BY DEF LedgerStep, vars, bVars
<1>9. QED
  BY <1>2, <1>3, <1>4, <1>5, <1>6, <1>7, <1>8 DEF Next, RequestStep, Revoked

\* Only a revoke request moves the revoke requests.
LEMMA OthersLeaveRequests ==
    /\ \A s \in Sessions :
         /\ \/ EstablishB(s) \/ EstablishA(s) \/ CommitmentQueued(s) \/ CommitmentNotQueued(s)
            \/ Expire(s)
            => UNCHANGED a_revokes
         /\ \A j \in Jobs : ServeCommitment(s, j) => UNCHANGED a_revokes
    /\ MonitorStep \/ ServeSessionRevocation \/ ServeSessionCommitment => UNCHANGED a_revokes
    /\ LedgerStep \/ UNCHANGED vars => UNCHANGED a_revokes
<1>1. ASSUME NEW s \in Sessions
      PROVE  /\ EstablishB(s) \/ Expire(s) => UNCHANGED a_revokes
             /\ EstablishA(s) \/ CommitmentQueued(s) \/ CommitmentNotQueued(s) =>
                    UNCHANGED a_revokes
             /\ \A j \in Jobs : ServeCommitment(s, j) => UNCHANGED a_revokes
  BY Zenon DEF EstablishB, Expire, EstablishA, ServeCommitment, CommitmentQueued,
      CommitmentNotQueued, aVars
<1>2. MonitorStep \/ ServeSessionRevocation \/ ServeSessionCommitment => UNCHANGED a_revokes
  BY Zenon DEF MonitorStep, MonitorUnchanged, MonitorWakes, MonitorSleeps, MonitorSkips,
      MonitorAsks, MonitorAsksCommitment, MonitorEnforces, MonitorContinues, MonitorCallFails,
      ServeSessionRevocation, ServeSessionCommitment, aVars
<1>3. LedgerStep \/ UNCHANGED vars => UNCHANGED a_revokes
  BY DEF LedgerStep, vars, aVars
<1>4. QED
  BY <1>1, <1>2, <1>3

\* An accepted revocation keeps its request.
LEMMA AskedForGood ==
    ASSUME IInv, [Next]_vars, NEW s, NEW j \in Jobs, Asked(s, j)
    PROVE  Asked(s, j)'
<1>1. LedgerKept
  BY StepOfLedger, LedgerKeeps DEF IInv
<1>2. CASE UNCHANGED a_revokes
  BY <1>2 DEF Asked
<1>3. ASSUME NEW r \in Requests, RequestStep(r)
      PROVE  Asked(s, j)'
  <2>1. RequestsKept
    BY <1>1, <1>3, RevokeSteps DEF RequestStep
  <2>2. QED
    BY <2>1, AskedKept
<1>4. QED
  BY <1>2, <1>3, OthersLeaveRequests DEF Next, RequestStep

\* The case's client asks Gateway A to revoke session_a only.
RequestOfCase(r) ==
    \/ StartRevoke(r, session_a)
    \/ ServeLookup(r)
    \/ PostRevocation(r)
    \/ \E j \in Jobs : ServeRevocation(r, j)
    \/ RevocationRequested(r)
    \/ RevokeFails(r)

LEMMA OnlyAStaysAsked ==
    ASSUME IInv, OnlyAAsked, case \in Case, SystemStep
    PROVE  OnlyAAsked'
<1>1. a_revokes \in [Requests -> Revoke]
  BY DEF IInv, GatewaysInv, TypeOK
<1>2. ASSUME NEW r \in Requests, NEW c, a_revokes' = [a_revokes EXCEPT ![r] = c],
             c.session \in {a_revokes[r].session, session_a}
      PROVE  OnlyAAsked'
  BY <1>1, <1>2 DEF OnlyAAsked
<1>3. ASSUME NEW r \in Requests, NEW b \in Revoke, b = a_revokes[r]
      PROVE  RequestOfCase(r) => OnlyAAsked'
  <2>1. CASE StartRevoke(r, session_a)
    <3> DEFINE c == [b EXCEPT !.pc = "looking-up", !.session = session_a, !.call = "sent"]
    <3>1. c.session = session_a
      BY DEF Revoke
    <3>2. a_revokes' = [a_revokes EXCEPT ![r] = c]
      BY <1>3, <2>1 DEF StartRevoke
    <3> HIDE DEF c
    <3>3. QED
      BY <1>2, <3>1, <3>2
  <2>2. CASE ServeLookup(r)
    <3> DEFINE record == records[a_sessions[b.session].ledger_job]
               anchor == IF record.status = "confirmed" THEN record.ledger_identifier ELSE None
               c == [b EXCEPT !.call = "served", !.anchor = anchor]
    <3>1. c.session = b.session
      BY DEF Revoke
    <3>2. a_revokes' = [a_revokes EXCEPT ![r] = c]
      BY <1>3, <2>2 DEF ServeLookup
    <3> HIDE DEF c
    <3>3. QED
      BY <1>2, <1>3, <3>1, <3>2
  <2>3. CASE PostRevocation(r)
    <3> DEFINE c == [b EXCEPT !.pc = "posting", !.call = "sent"]
    <3>1. c.session = b.session
      BY DEF Revoke
    <3>2. a_revokes' = [a_revokes EXCEPT ![r] = c]
      BY <1>3, <2>3 DEF PostRevocation
    <3> HIDE DEF c
    <3>3. QED
      BY <1>2, <1>3, <3>1, <3>2
  <2>4. ASSUME NEW j \in Jobs, ServeRevocation(r, j)
        PROVE  OnlyAAsked'
    <3> DEFINE c == [b EXCEPT !.call = "served", !.job = j]
    <3>1. c.session = b.session
      BY DEF Revoke
    <3>2. a_revokes' = [a_revokes EXCEPT ![r] = c]
      BY <1>3, <2>4, Zenon DEF ServeRevocation
    <3> HIDE DEF c
    <3>3. QED
      BY <1>2, <1>3, <3>1, <3>2
  <2>5. ASSUME NEW pc, a_revokes' = [a_revokes EXCEPT ![r].pc = pc]
        PROVE  OnlyAAsked'
    <3> DEFINE c == [b EXCEPT !.pc = pc]
    <3>1. c.session = b.session
      BY DEF Revoke
    <3>2. a_revokes' = [a_revokes EXCEPT ![r] = c]
      BY <1>3, <2>5
    <3> HIDE DEF c
    <3>3. QED
      BY <1>2, <1>3, <3>1, <3>2
  <2>6. RevocationRequested(r) \/ RevokeFails(r) => OnlyAAsked'
    BY <2>5, Zenon DEF RevocationRequested, RevokeFails
  <2>7. QED
    BY <2>1, <2>2, <2>3, <2>4, <2>6 DEF RequestOfCase
<1>4. UNCHANGED a_revokes => OnlyAAsked'
  BY DEF OnlyAAsked
<1>5. \/ UNCHANGED a_revokes
      \/ \E r \in Requests : RequestOfCase(r)
  <2>1. case.created \subseteq Sessions
    BY DEF Case
  <2>2. QED
    BY <2>1, OthersLeaveRequests DEF SystemStep, RequestOfCase
<1>6. QED
  BY <1>1, <1>3, <1>4, <1>5

-----------------------------------------------------------------------------
(* The steps.                                                              *)

LEMMA InitCaseInv == CaseInit => CaseInv
<1> SUFFICES ASSUME CaseInit
             PROVE  CaseInv
  OBVIOUS
<1>1. IInv
  BY InitIInv DEF CaseInit
<1>2. CaseTypes
  BY SessionsOfCase DEF CaseInit, CaseTypes, Case, OptionalJob
<1>3. OnlyAAsked
  BY SMT DEF CaseInit, Init, OnlyAAsked
<1>4. JobInv /\ SeenInv
  BY DEF CaseInit, JobInv, SeenInv, Watched, Started
<1>5. QED
  BY <1>1, <1>2, <1>3, <1>4 DEF CaseInv

\* While the system moves, the case has seen what is still so.
LEMMA SystemSteps ==
    ASSUME CaseInv, IInv', OnlyAAsked', [Next]_vars, UNCHANGED caseVars
    PROVE  CaseInv'
<1>1. UNCHANGED <<case, confirmation, rejection>>
  BY DEF caseVars
<1>2. CaseTypes'
  BY <1>1 DEF CaseInv, CaseTypes
<1>3. JobInv'
  <2>1. PICK j \in OptionalJob : j = case.job
    BY DEF CaseInv, CaseTypes, Case
  <2>2. j # None => Asked(session_a, j)'
    BY <2>1, AskedForGood, Zenon DEF CaseInv, JobInv, OptionalJob
  <2>3. case'.job # None => Asked(session_a, case.job)'
    BY <1>1, <2>1, <2>2 DEF Asked
  <2>4. QED
    BY <1>1, <2>3 DEF CaseInv, JobInv
<1>4. SeenInv'
  <2>1. rejection = "rejected" => Revoked(session_a)'
    BY SessionsOfCase, GatewayBRemembers DEF CaseInv, SeenInv, Revoked
  <2>2. case.pc \in Started => b_sessions'[session_b] # None
    BY SessionsOfCase, GatewayBRemembers DEF CaseInv, SeenInv
  <2>3. QED
    BY <1>1, <2>1, <2>2 DEF CaseInv, SeenInv, Revoked
<1>5. QED
  BY <1>2, <1>3, <1>4 DEF CaseInv

\* A step of the case, its next state c: the system stays as it is.
LEMMA CaseMoves ==
    ASSUME CaseInv, UNCHANGED vars, CaseTypes', JobInv', SeenInv'
    PROVE  CaseInv'
<1>1. IInv'
  BY NextIInv DEF CaseInv
<1>2. OnlyAAsked'
  BY DEF CaseInv, OnlyAAsked, vars, aVars
<1>3. QED
  BY <1>1, <1>2 DEF CaseInv

\* What Gateway B answers of a session.
LEMMA Validated ==
    ASSUME NEW s
    PROVE  /\ validate_session_action(s) \in Answers
           /\ validate_session_action(s) = "authorized" => b_sessions[s] # None
           /\ Revoked(s) <=> validate_session_action(s) = "revoked"
           /\ b_sessions[s] # None => validate_session_action(s) # "unknown"
BY DEF validate_session_action, Answers, Revoked

\* The case moves on to c, its pollers do not.
LEMMA CaseProceeds ==
    ASSUME CaseInv, UNCHANGED <<vars, confirmation, rejection>>,
           NEW c \in Case, case' = c, c.job = case.job, c.pc # "watching",
           c.pc \in Watched => rejection = "rejected",
           c.pc \in Started => b_sessions[session_b] # None,
           c.pc \in {"reuse", "ok"} => c.control \in {"authorized", "expired"},
           c.pc = "ok" => c.reuse = "revoked"
    PROVE  CaseInv'
<1>1. UNCHANGED <<vars, a_revokes, b_sessions, confirmation, rejection>>
  BY DEF vars, aVars, bVars
<1>2. CaseTypes'
  BY <1>1 DEF CaseInv, CaseTypes
<1>3. JobInv'
  BY <1>1 DEF CaseInv, JobInv, Asked
<1>4. SeenInv'
  BY <1>1 DEF CaseInv, SeenInv, Revoked
<1>5. QED
  BY <1>1, <1>2, <1>3, <1>4, CaseMoves

LEMMA CaseSteps ==
    ASSUME CaseInv
    PROVE  CaseProgress \/ CallRaises => CaseInv'
<1>1. PICK b \in Case : b = case
  BY DEF CaseInv, CaseTypes
<1>2. SeenInv
  BY DEF CaseInv
<1>3. ASSUME NEW pc \in {"validating-a", "validating-b", "anchoring", "revoking", "control", "failed"},
             case' = [b EXCEPT !.pc = pc],
             UNCHANGED <<vars, confirmation, rejection>>,
             pc = "control" => rejection = "rejected",
             pc \in Started => b_sessions[session_b] # None
      PROVE  CaseInv'
  <2> DEFINE c == [b EXCEPT !.pc = pc]
  <2>1. c \in Case
    BY Zenon DEF Case, Ended
  <2>2. c.pc = pc /\ c.job = b.job
    BY DEF Case
  <2>3. case' = c
    BY <1>3
  <2> HIDE DEF c
  <2>4. QED
    BY <1>1, <1>3, <2>1, <2>2, <2>3, CaseProceeds DEF Watched
<1>4. CASE CreatedA
  <2> DEFINE c == [b EXCEPT !.pc = "creating-b", !.created = {session_a, session_b}]
  <2>1. {session_a, session_b} \in SUBSET Sessions
    BY SessionsOfCase
  <2>2. c \in Case
    BY <2>1, Zenon DEF Case
  <2>3. c.pc = "creating-b" /\ c.job = b.job
    BY DEF Case
  <2>4. case' = c /\ UNCHANGED <<vars, confirmation, rejection>>
    BY <1>1, <1>4 DEF CreatedA, AtCase
  <2> HIDE DEF c
  <2>5. QED
    BY <1>1, <2>2, <2>3, <2>4, CaseProceeds DEF Watched, Started
<1>5. CASE CreatedB
  BY <1>1, <1>3, <1>5 DEF CreatedB, AtCase, Started, Watched
<1>6. CASE UsableBefore("validating-a", session_a, "validating-b")
  BY <1>1, <1>3, <1>6 DEF UsableBefore, AtCase, Started, Watched
<1>7. CASE UsableBefore("validating-b", session_b, "anchoring")
  BY <1>1, <1>3, <1>7, Validated DEF UsableBefore, AtCase
<1>8. CASE Anchored
  BY <1>1, <1>2, <1>3, <1>8 DEF Anchored, AtCase, SeenInv, Started
<1>9. ASSUME NEW r \in Requests, RevokeAnswered(r)
      PROVE  CaseInv'
  <2>1. PICK j : j = a_revokes[r].job
    OBVIOUS
  <2>2. a_revokes[r] \in Revoke /\ RevokeInv(a_revokes[r])
    BY DEF CaseInv, IInv, GatewaysInv, TypeOK, RevokesInv
  <2>3. /\ j \in OptionalJob /\ j # None
        /\ a_revokes[r].session \in Sessions
    BY <1>9, <2>1, <2>2 DEF RevokeAnswered, Revoke, RevokeInv, Queued
  <2>4. a_revokes[r].session = session_a
    BY <2>3, NoneAssumption DEF CaseInv, OnlyAAsked
  <2> DEFINE c == [b EXCEPT !.pc = "watching", !.job = j]
  <2>5. c \in Case
    BY <2>3, Zenon DEF Case
  <2>6. c.pc = "watching" /\ c.job = j
    BY DEF Case
  <2>7. /\ case' = c
        /\ b.pc = "revoking"
        /\ confirmation' = "polling"
        /\ rejection' = "polling"
        /\ UNCHANGED vars
        /\ UNCHANGED <<a_revokes, b_sessions>>
    BY <1>1, <1>9, <2>1 DEF RevokeAnswered, vars, aVars, bVars
  <2> HIDE DEF c
  <2>8. CaseTypes'
    BY <2>5, <2>7 DEF CaseTypes
  <2>9. JobInv'
    BY <2>1, <2>3, <2>4, <2>6, <2>7 DEF JobInv, Asked
  <2>10. SeenInv'
    BY <1>1, <1>2, <2>6, <2>7 DEF SeenInv, Started, Watched
  <2>11. QED
    BY <2>7, <2>8, <2>9, <2>10, CaseMoves
<1>10. CASE Gathered
  BY <1>1, <1>2, <1>3, <1>10 DEF Gathered, AtCase, SeenInv, Started
<1>11. CASE GatherRaises \/ CallRaises
  BY <1>1, <1>3, <1>11 DEF GatherRaises, CallRaises, AtCase, Started, Watched
<1>12. CASE ControlValidated
  <2>1. PICK answer \in Answers : answer = validate_session_action(session_b)
    BY Validated
  <2> DEFINE c == [b EXCEPT !.pc = "reuse", !.control = answer]
  <2>2. b.pc = "control" /\ case' = c
        /\ UNCHANGED <<vars, confirmation, rejection>>
    BY <1>1, <1>12, <2>1 DEF ControlValidated, AtCase
  <2>3. b_sessions[session_b] # None /\ rejection = "rejected"
    BY <1>1, <1>2, <2>2 DEF SeenInv, Started, Watched
  <2>4. answer \in {"authorized", "expired"}
    BY <2>1, <2>3, ControlNotRevoked, Validated DEF Answers
  <2>5. c \in Case
    BY Zenon DEF Case
  <2>6. c.pc = "reuse" /\ c.job = b.job /\ c.control = answer
    BY DEF Case
  <2> HIDE DEF c
  <2>7. QED
    BY <1>1, <2>2, <2>3, <2>4, <2>5, <2>6, CaseProceeds
<1>13. CASE ReuseValidated
  <2>1. PICK answer \in Answers : answer = validate_session_action(session_a)
    BY Validated
  <2> DEFINE c == [b EXCEPT !.pc = "ok", !.reuse = answer]
  <2>2. b.pc = "reuse" /\ case' = c
        /\ UNCHANGED <<vars, confirmation, rejection>>
    BY <1>1, <1>13, <2>1 DEF ReuseValidated, AtCase
  <2>3. b_sessions[session_b] # None /\ rejection = "rejected" /\ Revoked(session_a)
        /\ b.control \in {"authorized", "expired"}
    BY <1>1, <1>2, <2>2 DEF SeenInv, Started, Watched
  <2>4. answer = "revoked"
    BY <2>1, <2>3, Validated
  <2>5. c \in Case
    BY Zenon DEF Case, Ended
  <2>6. c.pc = "ok" /\ c.job = b.job /\ c.control = b.control /\ c.reuse = answer
    BY DEF Case
  <2> HIDE DEF c
  <2>7. QED
    BY <1>1, <2>2, <2>3, <2>4, <2>5, <2>6, CaseProceeds
<1>14. QED
  BY <1>4, <1>5, <1>6, <1>7, <1>8, <1>9, <1>10, <1>11, <1>12, <1>13 DEF CaseProgress

LEMMA CaseStutters == CaseProgress \/ CallRaises => UNCHANGED vars
BY Zenon DEF CaseProgress, CallRaises, CreatedA, CreatedB, UsableBefore, Anchored, RevokeAnswered,
    Gathered, GatherRaises, ControlValidated, ReuseValidated, AtCase

LEMMA PollerSteps ==
    ASSUME CaseInv
    PROVE  \/ ConfirmationObserved \/ ConfirmationRaises
           \/ RejectionObserved \/ RejectionRaises
           \/ DeadlinePasses
           => CaseInv'
<1>1. CaseTypes /\ JobInv /\ SeenInv
  BY DEF CaseInv
<1>2. ASSUME AtConfirmation, confirmation' \in {"confirmed", "raised"}
      PROVE  CaseInv'
  <2>1. UNCHANGED <<vars, case, rejection, a_revokes, b_sessions>>
    BY <1>2 DEF AtConfirmation, vars, aVars, bVars
  <2>2. CaseTypes' /\ JobInv' /\ SeenInv'
    BY <1>1, <1>2, <2>1 DEF CaseTypes, JobInv, SeenInv, Asked, Revoked
  <2>3. QED
    BY <2>1, <2>2, CaseMoves
<1>3. ASSUME AtRejection, rejection' \in {"rejected", "raised"},
             rejection' = "rejected" => Revoked(session_a)
      PROVE  CaseInv'
  <2>1. rejection = "polling" /\ UNCHANGED <<vars, case, confirmation, a_revokes, b_sessions>>
    BY <1>3 DEF AtRejection, vars, aVars, bVars
  <2>2. CaseTypes' /\ JobInv' /\ SeenInv'
    BY <1>1, <1>3, <2>1 DEF CaseTypes, JobInv, SeenInv, Asked, Revoked
  <2>3. QED
    BY <2>1, <2>2, CaseMoves
<1>4. RejectionObserved => CaseInv'
  BY <1>3, Validated DEF RejectionObserved
<1>5. QED
  BY <1>2, <1>3, <1>4 DEF ConfirmationObserved, ConfirmationRaises, RejectionRaises,
      DeadlinePasses

\* Every step keeps the invariant, and is one of the system or leaves it alone.
LEMMA CaseNextInv == CaseInv /\ [CaseNext]_allVars => CaseInv' /\ [Next]_vars
<1> SUFFICES ASSUME CaseInv, [CaseNext]_allVars
             PROVE  CaseInv' /\ [Next]_vars
  OBVIOUS
<1>1. CASE SystemStep
  <2>1. case \in Case /\ IInv /\ OnlyAAsked
    BY DEF CaseInv, CaseTypes
  <2>2. Next /\ OnlyAAsked'
    BY <1>1, <2>1, SystemStepIsNext, OnlyAStaysAsked
  <2>3. IInv'
    BY <2>1, <2>2, NextIInv
  <2>4. QED
    BY <1>1, <2>2, <2>3, SystemSteps DEF SystemStep
<1>2. CASE CaseProgress \/ CallRaises
  BY <1>2, CaseSteps, CaseStutters
<1>3. CASE \/ ConfirmationObserved \/ ConfirmationRaises
           \/ RejectionObserved \/ RejectionRaises
           \/ DeadlinePasses
  <2>1. UNCHANGED vars
    BY <1>3 DEF ConfirmationObserved, ConfirmationRaises, RejectionObserved, RejectionRaises,
        DeadlinePasses, AtConfirmation, AtRejection
  <2>2. QED
    BY <1>3, <2>1, PollerSteps
<1>4. CASE UNCHANGED allVars
  <2>1. UNCHANGED vars /\ UNCHANGED caseVars
    BY <1>4 DEF allVars
  <2>2. IInv' /\ OnlyAAsked'
    BY <2>1, NextIInv DEF CaseInv, OnlyAAsked, vars, aVars
  <2>3. QED
    BY <2>1, <2>2, SystemSteps
<1>5. QED
  BY <1>1, <1>2, <1>3, <1>4 DEF CaseNext

-----------------------------------------------------------------------------
(* Theorems.                                                               *)

\* CaseInv is inductive and holds in every reachable state: of the case, its two
\* pollers and the system, whatever calls time out and whatever was revoked when.
THEOREM CaseInvariance == CaseSpec => []CaseInv
<1>1. CaseInv /\ [CaseNext]_allVars => CaseInv'
  BY CaseNextInv
<1>2. QED
  BY <1>1, InitCaseInv, PTL DEF CaseSpec

\* A case changes nothing but through its requests: the services it runs against
\* behave as SessionRevocation says, so all that is proved of them holds under the
\* benchmark.
THEOREM CaseObserves == CaseSpec => Spec
<1>1. CaseInit => Init
  BY DEF CaseInit
<1>2. CaseInv /\ [CaseNext]_allVars => [Next]_vars
  BY CaseNextInv
<1>3. QED
  BY <1>1, <1>2, CaseInvariance, PTL DEF CaseSpec, Spec

\* The coroutine, the two tasks it gathers and the system keep their types: the answers
\* the case reports are answers Gateway B gives.
THEOREM CaseTypeCorrect == CaseSpec => []CaseTypeOK
<1>1. CaseInv => CaseTypeOK
  BY DEF CaseInv, CaseTypes, IInv, GatewaysInv, CaseTypeOK
<1>2. QED
  BY <1>1, CaseInvariance, PTL

\* What issue_revocation_case reports as ok is true of the services: session_a is revoked
\* by the job the case timed, its control session is not.
THEOREM CaseIsTruthful == CaseSpec => []CaseTruthful
<1>1. CaseInv => CaseTruthful
  <2> SUFFICES ASSUME CaseInv, case.pc = "ok"
               PROVE  CaseTruthful
    BY DEF CaseTruthful
  <2>1. /\ Revoked(session_a)
        /\ rejection = "rejected"
        /\ case.control \in {"authorized", "expired"}
        /\ case.reuse = "revoked"
    BY DEF CaseInv, SeenInv, Watched
  <2>2. case.job # None
    BY <2>1 DEF CaseInv, JobInv
  <2>3. QED
    BY <2>1, <2>2, ControlNotRevoked, RevokedByCase DEF CaseTruthful
<1>2. QED
  BY <1>1, CaseInvariance, PTL

\* wait_for_rejection sees a rejection only after the adapter confirmed the revocation
\* wait_for_revocation_confirmation waits for.
THEOREM RejectionConfirmed == CaseSpec => []RejectedAfterConfirmed
<1>1. CaseInv => RejectedAfterConfirmed
  <2> SUFFICES ASSUME CaseInv, rejection = "rejected"
               PROVE  restarts = 0 => revocation_records[case.job].status = "confirmed"
    BY DEF RejectedAfterConfirmed
  <2>1. Revoked(session_a) /\ case.job # None
    BY DEF CaseInv, SeenInv, JobInv
  <2>2. QED
    BY <2>1, RevokedByCase
<1>2. QED
  BY <1>1, CaseInvariance, PTL

\* Under the benchmark too, no session is revoked that nobody asked to revoke.
THEOREM CaseRevokesOnRequest == CaseSpec => []RevokedOnlyOnRequest
BY CaseObserves, RevokedRequested, PTL

\* Nor is one revoked by anything but its own confirmed revocation: neither the case's
\* polling nor its time-outs make the monitor believe more than the adapter confirmed.
THEOREM CaseEnforces == CaseSpec => []EnforcedOnlyIfConfirmed
BY CaseObserves, EnforcedConfirmed, PTL

\* The sessions of a case go through the stages of SessionLifecycle in their order.
THEOREM CaseKeepsOrder == CaseSpec => ImplementsLifecycle
BY CaseObserves, Implementation, PTL
=============================================================================
