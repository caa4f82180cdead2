------------------------ MODULE SessionEstablishment ------------------------
(***************************************************************************)
(* POST /sessions of Gateway A: the SAC's authorization, Gateway B's       *)
(* provisioning, the handshake with key confirmation in both directions,   *)
(* and the request that queues the session's commitment at the ledger.     *)
(*                                                                         *)
(* Every service is one asyncio process: a stretch of a handler between    *)
(* two awaits is one action.  A call is a request message and a response   *)
(* message.  Each is delivered at most once (httpx does not retry a POST)  *)
(* and possibly late or never; a caller may give up at any time on a call  *)
(* it awaits, and a request it gave up on may still be served.  An error   *)
(* answer is to the caller the same as no answer and is not sent.          *)
(*                                                                         *)
(* A session is named after the /sessions request it is drawn for: the     *)
(* SAC draws a fresh uuid4 per request and no caller repeats one.  Salts,  *)
(* nonces, pseudonym and ledger epoch are fixed by the session and checked *)
(* by honest parties against the same values, so what distinguishes two    *)
(* session keys is the key pair of Gateway B that the KEM was used with:   *)
(* a key is written as the generation of that key pair.                    *)
(***************************************************************************)
EXTENDS Naturals

CONSTANTS
    Sessions,     \* POST /sessions requests, each with the session drawn for it
    Actions,      \* actions a client may ask for
    Policy,       \* the actions DOMAIN_PAIR_POLICIES allows to this gateway pair
    MaxRestarts,  \* bound on the restarts of each service
    None          \* Python's None

ASSUME PolicyAssumption == Policy \subseteq Actions
ASSUME RestartAssumption == MaxRestarts \in Nat

VARIABLES
    messages,            \* requests and responses in flight
    a_runs,              \* Gateway A: the coroutine of each /sessions request
    a_sessions,          \* Gateway A: established_sessions
    a_kem,               \* Gateway A: gateway_b_public_key, fetched at startup
    sac_runs,            \* SAC: the coroutine of each /authorize request
    authorizations,      \* Gateway B: authorizations
    pending_handshakes,  \* Gateway B: pending_handshakes
    b_sessions,          \* Gateway B: established_sessions
    b_kem,               \* Gateway B: its key pair, a new one at each start
    expired,             \* sessions whose expires_at_ns has passed
    restarts             \* restarts of Gateway A and of the SAC so far

aVars == <<a_runs, a_sessions, a_kem>>
bVars == <<authorizations, pending_handshakes, b_sessions, b_kem>>
vars == <<messages, aVars, sac_runs, bVars, expired, restarts>>

-----------------------------------------------------------------------------
Kem == 0..MaxRestarts

\* The await a coroutine is suspended in, or how it ended.
Waiting == {"authorizing", "handshaking", "confirming"}
Run == [pc: {"idle", "committing", "done", "failed"} \cup Waiting,
        action: Actions \cup {None}, key: Kem \cup {None}]
SacRun == [pc: {"idle", "provisioning", "done", "failed"}, action: Actions \cup {None}]

\* EstablishedSessionRecord: the session key is what its commitment is
\* derived from; queued says that ledger_job_id is set.
ASession == [key: Kem, queued: BOOLEAN]
StoredAuthorization == [action: Actions, used: BOOLEAN]

ASSUME NoneAssumption ==
    None \notin Actions \cup Nat \cup ASession \cup StoredAuthorization

ToSac == [type: {"authorize"}, session: Sessions, action: Actions]
         \cup [type: {"provisioned"}, session: Sessions]
ToB == [type: {"provision"}, session: Sessions, action: Actions]
       \cup [type: {"handshake", "handshake-confirm"}, session: Sessions, key: Kem]
ToA == [type: {"authorization"}, session: Sessions, action: Actions]
       \cup [type: {"tag-b"}, session: Sessions, key: Kem]
       \cup [type: {"established", "queued"}, session: Sessions]
ToLedger == [type: {"commitment"}, session: Sessions]
Message == ToSac \cup ToB \cup ToA \cup ToLedger

TypeOK ==
    /\ messages \subseteq Message
    /\ a_runs \in [Sessions -> Run]
    /\ a_sessions \in [Sessions -> ASession \cup {None}]
    /\ a_kem \in Kem
    /\ sac_runs \in [Sessions -> SacRun]
    /\ authorizations \in [Sessions -> StoredAuthorization \cup {None}]
    /\ pending_handshakes \in [Sessions -> Kem \cup {None}]
    /\ b_sessions \in [Sessions -> Actions \cup {None}]
    /\ b_kem \in Kem
    /\ expired \subseteq Sessions
    /\ restarts \in [{"a", "sac"} -> 0..MaxRestarts]

Nothing == [s \in Sessions |-> None]

Init ==
    /\ messages = {}
    /\ a_runs = [s \in Sessions |-> [pc |-> "idle", action |-> None, key |-> None]]
    /\ a_sessions = Nothing
    /\ a_kem = 0
    /\ sac_runs = [s \in Sessions |-> [pc |-> "idle", action |-> None]]
    /\ authorizations = Nothing
    /\ pending_handshakes = Nothing
    /\ b_sessions = Nothing
    /\ b_kem = 0
    /\ expired = {}
    /\ restarts = [service \in {"a", "sac"} |-> 0]

-----------------------------------------------------------------------------
Send(m) == messages' = messages \cup {m}

\* Serve request m and answer it with r, or take response m and send request r.
Exchange(m, r) == m \in messages /\ messages' = (messages \ {m}) \cup {r}

Authorize(s, action) == [type |-> "authorize", session |-> s, action |-> action]
Provision(s, action) == [type |-> "provision", session |-> s, action |-> action]
Provisioned(s) == [type |-> "provisioned", session |-> s]
Authorization(s, action) == [type |-> "authorization", session |-> s, action |-> action]
Handshake(s, key) == [type |-> "handshake", session |-> s, key |-> key]
TagB(s, key) == [type |-> "tag-b", session |-> s, key |-> key]
HandshakeConfirm(s, key) == [type |-> "handshake-confirm", session |-> s, key |-> key]
Established(s) == [type |-> "established", session |-> s]
Commitment(s) == [type |-> "commitment", session |-> s]
Queued(s) == [type |-> "queued", session |-> s]

-----------------------------------------------------------------------------
(* Gateway A: establish_session                                            *)

StartSession(s, action) ==
    /\ a_runs[s].pc = "idle"
    /\ a_runs' = [a_runs EXCEPT ![s] =
            [pc |-> "authorizing", action |-> action, key |-> None]]
    /\ Send(Authorize(s, action))
    /\ UNCHANGED <<a_sessions, a_kem, sac_runs, bVars, expired, restarts>>

\* The package verifies and has not expired: encapsulate to the cached public
\* key of Gateway B, derive the session key and start the handshake.
SendHandshake(s) ==
    /\ a_runs[s].pc = "authorizing"
    /\ s \notin expired
    /\ Exchange(Authorization(s, a_runs[s].action), Handshake(s, a_kem))
    /\ a_runs' = [a_runs EXCEPT ![s] =
            [pc |-> "handshaking", action |-> a_runs[s].action, key |-> a_kem]]
    /\ UNCHANGED <<a_sessions, a_kem, sac_runs, bVars, expired, restarts>>

\* TagB verifies under A's own key: answer with TagA.
SendTagA(s) ==
    /\ a_runs[s].pc = "handshaking"
    /\ Exchange(TagB(s, a_runs[s].key), HandshakeConfirm(s, a_runs[s].key))
    /\ a_runs' = [a_runs EXCEPT ![s].pc = "confirming"]
    /\ UNCHANGED <<a_sessions, a_kem, sac_runs, bVars, expired, restarts>>

\* Mutant: Gateway A does not wait for Gateway B to accept TagA.
EstablishUnconfirmed(s) ==
    /\ a_runs[s].pc = "confirming"
    /\ Send(Commitment(s))
    /\ a_sessions' = [a_sessions EXCEPT ![s] = [key |-> a_runs[s].key, queued |-> FALSE]]
    /\ a_runs' = [a_runs EXCEPT ![s].pc = "committing"]
    /\ UNCHANGED <<a_kem, sac_runs, bVars, expired, restarts>>

\* Mutant: a late answer still establishes a session that was given up.
EstablishLate(s) ==
    /\ a_runs[s].pc \in {"confirming", "failed"}
    /\ Exchange(Established(s), Commitment(s))
    /\ a_sessions' = [a_sessions EXCEPT ![s] = [key |-> a_runs[s].key, queued |-> FALSE]]
    /\ a_runs' = [a_runs EXCEPT ![s].pc = "committing"]
    /\ UNCHANGED <<a_kem, sac_runs, bVars, expired, restarts>>

\* Gateway B accepted TagA: the session is established and is sent to the ledger.
Establish(s) ==
    /\ a_runs[s].pc = "confirming"
    /\ Exchange(Established(s), Commitment(s))
    /\ a_sessions' = [a_sessions EXCEPT ![s] = [key |-> a_runs[s].key, queued |-> FALSE]]
    /\ a_runs' = [a_runs EXCEPT ![s].pc = "committing"]
    /\ UNCHANGED <<a_kem, sac_runs, bVars, expired, restarts>>

\* The call failed, timed out or returned something that does not verify: the
\* handler raises and the client is answered 400 or 502.
RunFails(s) ==
    /\ a_runs[s].pc \in Waiting
    /\ a_runs' = [a_runs EXCEPT ![s].pc = "failed"]
    /\ UNCHANGED <<messages, a_sessions, a_kem, sac_runs, bVars, expired, restarts>>

CommitmentQueued(s) ==
    /\ a_runs[s].pc = "committing"
    /\ Queued(s) \in messages
    /\ messages' = messages \ {Queued(s)}
    /\ a_sessions' = [a_sessions EXCEPT ![s].queued = TRUE]
    /\ a_runs' = [a_runs EXCEPT ![s].pc = "done"]
    /\ UNCHANGED <<a_kem, sac_runs, bVars, expired, restarts>>

\* Mutant: the exception of the ledger call fails the request.
CommitmentFailsRequest(s) ==
    /\ a_runs[s].pc = "committing"
    /\ a_runs' = [a_runs EXCEPT ![s].pc = "failed"]
    /\ UNCHANGED <<messages, a_sessions, a_kem, sac_runs, bVars, expired, restarts>>

\* Any exception of the ledger call is only logged: the session stays usable.
CommitmentNotQueued(s) ==
    /\ a_runs[s].pc = "committing"
    /\ a_runs' = [a_runs EXCEPT ![s].pc = "done"]
    /\ UNCHANGED <<messages, a_sessions, a_kem, sac_runs, bVars, expired, restarts>>

Resume(s) ==
    \/ SendHandshake(s)
    \/ SendTagA(s)
    \/ Establish(s)
    \/ RunFails(s)
    \/ CommitmentQueued(s)
    \/ CommitmentNotQueued(s)

GatewayA(s) == Resume(s) \/ \E action \in Actions : StartSession(s, action)

-----------------------------------------------------------------------------
(* SAC: authorize                                                          *)

\* IF   the policy of the gateway pair allows the action
\* THEN draw the session, sign its package and provision Gateway B
IssueAuthorization(s, action) ==
    /\ action \in Policy
    /\ Exchange(Authorize(s, action), Provision(s, action))
    /\ sac_runs' = [sac_runs EXCEPT ![s] = [pc |-> "provisioning", action |-> action]]
    /\ UNCHANGED <<aVars, bVars, expired, restarts>>

ReplyAuthorization(s) ==
    /\ sac_runs[s].pc = "provisioning"
    /\ Exchange(Provisioned(s), Authorization(s, sac_runs[s].action))
    /\ sac_runs' = [sac_runs EXCEPT ![s].pc = "done"]
    /\ UNCHANGED <<aVars, bVars, expired, restarts>>

ProvisioningFails(s) ==
    /\ sac_runs[s].pc = "provisioning"
    /\ sac_runs' = [sac_runs EXCEPT ![s].pc = "failed"]
    /\ UNCHANGED <<messages, aVars, bVars, expired, restarts>>

Sac(s) ==
    \/ \E action \in Actions : IssueAuthorization(s, action)
    \/ ReplyAuthorization(s)
    \/ ProvisioningFails(s)

-----------------------------------------------------------------------------
(* Gateway B: provision_authorization, handshake, confirm_handshake        *)

StoreAuthorization(s, action) ==
    /\ s \notin expired
    /\ Exchange(Provision(s, action), Provisioned(s))
    /\ authorizations' = [authorizations EXCEPT ![s] = [action |-> action, used |-> FALSE]]
    /\ UNCHANGED <<aVars, sac_runs, pending_handshakes, b_sessions, b_kem, expired, restarts>>

Unused(s) == authorizations[s] \in [action: Actions, used: {FALSE}]

\* Mutants: the authorization is not consumed; a ciphertext made for an earlier
\* key pair is still decapsulated.
AnswerHandshakeAgain(s, key) ==
    /\ Unused(s)
    /\ s \notin expired
    /\ Exchange(Handshake(s, key), TagB(s, b_kem))
    /\ pending_handshakes' = [pending_handshakes EXCEPT ![s] = b_kem]
    /\ UNCHANGED <<aVars, sac_runs, authorizations, b_sessions, b_kem, expired, restarts>>

AnswerHandshakeOldKey(s, key) ==
    /\ Unused(s)
    /\ s \notin expired
    /\ Exchange(Handshake(s, key), TagB(s, key))
    /\ authorizations' = [authorizations EXCEPT ![s].used = TRUE]
    /\ pending_handshakes' = [pending_handshakes EXCEPT ![s] = key]
    /\ UNCHANGED <<aVars, sac_runs, b_sessions, b_kem, expired, restarts>>

\* IF   the authorization is there, unused and unexpired
\* THEN consume it, decapsulate with B's current key pair and answer TagB;
\*      a ciphertext made for another key pair yields another key, not an error
AnswerHandshake(s, key) ==
    /\ Unused(s)
    /\ s \notin expired
    /\ Exchange(Handshake(s, key), TagB(s, b_kem))
    /\ authorizations' = [authorizations EXCEPT ![s].used = TRUE]
    /\ pending_handshakes' = [pending_handshakes EXCEPT ![s] = b_kem]
    /\ UNCHANGED <<aVars, sac_runs, b_sessions, b_kem, expired, restarts>>

\* Mutant: the stored authorization is put where its action belongs.
AcceptTagAPackage(s, key) ==
    /\ pending_handshakes[s] = key
    /\ authorizations[s] # None
    /\ Exchange(HandshakeConfirm(s, key), Established(s))
    /\ b_sessions' = [b_sessions EXCEPT ![s] = authorizations[s]]
    /\ pending_handshakes' = [pending_handshakes EXCEPT ![s] = None]
    /\ UNCHANGED <<aVars, sac_runs, authorizations, b_kem, expired, restarts>>

\* IF   TagA verifies under the key of the pending handshake
\* THEN establish the session, however late it is
AcceptTagA(s, key) ==
    /\ pending_handshakes[s] = key
    /\ authorizations[s] # None
    /\ Exchange(HandshakeConfirm(s, key), Established(s))
    /\ b_sessions' = [b_sessions EXCEPT ![s] = authorizations[s].action]
    /\ pending_handshakes' = [pending_handshakes EXCEPT ![s] = None]
    /\ UNCHANGED <<aVars, sac_runs, authorizations, b_kem, expired, restarts>>

GatewayB(s) ==
    \/ \E action \in Actions : StoreAuthorization(s, action)
    \/ \E key \in Kem : AnswerHandshake(s, key) \/ AcceptTagA(s, key)

\* validate_session_action, as long as the session is not revoked.
Authorizes(s, action) ==
    /\ b_sessions[s] # None
    /\ s \notin expired
    /\ action = b_sessions[s]

-----------------------------------------------------------------------------
(* The ledger queues a commitment; a server answers a request with an      *)
(* error; time passes; containers restart.                                 *)

QueueCommitment(s) ==
    /\ Exchange(Commitment(s), Queued(s))
    /\ UNCHANGED <<aVars, sac_runs, bVars, expired, restarts>>

\* The request is answered with an error status (or its connection breaks
\* before it is served) and is gone.
Requests == {m \in messages : m.type \in
    {"authorize", "provision", "handshake", "handshake-confirm", "commitment"}}

Refuse(m) ==
    /\ messages' = messages \ {m}
    /\ UNCHANGED <<aVars, sac_runs, bVars, expired, restarts>>

Expire(s) ==
    /\ sac_runs[s].pc # "idle"
    /\ s \notin expired
    /\ expired' = expired \cup {s}
    /\ UNCHANGED <<messages, aVars, sac_runs, bVars, restarts>>

\* A restarted Gateway A fetches Gateway B's public key anew and forgets its
\* sessions; its requests may still be served.  What a_runs keeps of a dead
\* coroutine is history for the properties.
RestartA ==
    /\ restarts["a"] < MaxRestarts
    /\ restarts' = [restarts EXCEPT !["a"] = @ + 1]
    /\ a_runs' = [s \in Sessions |->
            IF a_runs[s].pc \in Waiting \cup {"committing"}
            THEN [a_runs[s] EXCEPT !.pc = "failed"] ELSE a_runs[s]]
    /\ a_sessions' = Nothing
    /\ a_kem' = b_kem
    /\ messages' = messages \ ToA
    /\ UNCHANGED <<sac_runs, bVars, expired>>

\* The SAC's keys and policy come from its environment: only calls are lost.
RestartSac ==
    /\ restarts["sac"] < MaxRestarts
    /\ restarts' = [restarts EXCEPT !["sac"] = @ + 1]
    /\ sac_runs' = [s \in Sessions |->
            IF sac_runs[s].pc = "provisioning"
            THEN [sac_runs[s] EXCEPT !.pc = "failed"] ELSE sac_runs[s]]
    /\ UNCHANGED <<messages, aVars, bVars, expired>>

\* A restarted Gateway B has a new key pair and forgets everything.  A request
\* of before is lost with its connection (Refuse) or reaches the new process;
\* an answer of the old process may still arrive.
RestartB ==
    /\ b_kem < MaxRestarts
    /\ b_kem' = b_kem + 1
    /\ authorizations' = Nothing
    /\ pending_handshakes' = Nothing
    /\ b_sessions' = Nothing
    /\ UNCHANGED <<messages, aVars, sac_runs, expired, restarts>>

Next ==
    \/ \E s \in Sessions : GatewayA(s) \/ Sac(s) \/ GatewayB(s)
                           \/ QueueCommitment(s) \/ Expire(s)
    \/ \E m \in Requests : Refuse(m)
    \/ RestartA
    \/ RestartSac
    \/ RestartB

Spec == Init /\ [][Next]_vars

\* Gateway A's event loop runs a coroutine whose call was answered or timed out.
FairSpec == Spec /\ \A s \in Sessions : WF_vars(Resume(s))

-----------------------------------------------------------------------------
(* Properties.                                                             *)

\* Gateway B holds a session only if the policy allows its action, and Gateway
\* A asked for that very action, checked TagB and answered under the key that
\* the present process of B derived: no key of an earlier process is accepted.
ConfirmedFor(s) ==
    b_sessions[s] # None =>
        /\ b_sessions[s] \in Policy
        /\ a_runs[s].action = b_sessions[s]
        /\ a_runs[s].key = b_kem
        /\ a_runs[s].pc \notin {"idle", "authorizing", "handshaking"}

KeyConfirmed == \A s \in Sessions : ConfirmedFor(s)

\* Gateway A holds a session, or has it sent to the ledger, only if Gateway B
\* accepted TagA for it under the same key and authorizes the action A asked
\* for, unless B has restarted since: no anchor without a session.
Agreement ==
    \A s \in Sessions :
        (\/ a_sessions[s] # None
         \/ Commitment(s) \in messages
         \/ Queued(s) \in messages)
        => (a_runs[s].key = b_kem => b_sessions[s] = a_runs[s].action)

\* One authorization makes one session: a handshake or a session goes with a
\* consumed authorization, and a session has no other handshake pending that
\* could replace it (and forget that it was revoked).
UsedOnceBy(s) ==
    /\ (pending_handshakes[s] # None \/ b_sessions[s] # None) =>
            authorizations[s] \in [action: Actions, used: {TRUE}]
    /\ b_sessions[s] # None => pending_handshakes[s] = None

SingleUse == \A s \in Sessions : UsedOnceBy(s)

\* Every POST /sessions is answered, whatever the SAC, Gateway B and the ledger
\* do: no failure of theirs leaves the request waiting.  Once the session is
\* established, the answer is no error, whatever becomes of its commitment:
\* only a restart, with which the session is gone, can still fail the request.
RequestsEnd ==
    \A s \in Sessions :
        /\ a_runs[s].pc # "idle" ~> a_runs[s].pc \in {"done", "failed"}
        /\ a_runs[s].pc = "committing" ~> a_runs[s].pc = "done" \/ a_sessions[s] = None

\* README.md:36: "The session becomes usable only after Gateway B accepts
\* TagA and Gateway A receives the successful confirmation response."  So a
\* session whose establishment ended in an error at A is not usable at B.
UsableOnlyIfConfirmedAtA ==
    \A s \in Sessions, action \in Actions :
        a_runs[s].pc = "failed" => ~Authorizes(s, action)

-----------------------------------------------------------------------------
(* The inductive invariant behind the safety properties.                   *)

\* Gateway A has not sent TagA yet.
Early == {"idle", "authorizing", "handshaking"}

\* The SAC issues what Gateway A asked for and the policy allows, once.
IssuedAsAsked(s) ==
    /\ a_runs[s].pc = "idle" => sac_runs[s].pc = "idle"
    /\ sac_runs[s].pc # "idle" =>
            sac_runs[s].action = a_runs[s].action /\ a_runs[s].action \in Policy
    /\ \A action \in Actions : Authorize(s, action) \in messages =>
            /\ a_runs[s].pc # "idle"
            /\ sac_runs[s].pc = "idle"
            /\ action = a_runs[s].action

\* Gateway B is provisioned with what the SAC issued, once.
ProvisionedAsIssued(s) ==
    /\ \A action \in Actions : Provision(s, action) \in messages =>
            /\ sac_runs[s].pc # "idle"
            /\ action = a_runs[s].action
            /\ authorizations[s] = None
    /\ authorizations[s] # None =>
            sac_runs[s].pc # "idle" /\ authorizations[s].action = a_runs[s].action

\* Gateway A has a key once it sends TagA and the session once it commits it.
RunHasKey(s) ==
    /\ a_runs[s].pc = "confirming" => a_runs[s].key # None
    /\ a_runs[s].pc = "committing" => a_sessions[s] # None

\* Gateway A uses no key pair Gateway B has yet to draw, and B's pending
\* handshake is under its present one.
KeysDrawn(s) ==
    /\ a_runs[s].key # None => a_runs[s].key <= b_kem
    /\ pending_handshakes[s] # None => pending_handshakes[s] = b_kem

\* TagA is sent under Gateway A's key.
ConfirmedAsDerived(s) ==
    \A key \in Kem : HandshakeConfirm(s, key) \in messages =>
        a_runs[s].pc \notin Early /\ key = a_runs[s].key

\* What shows that Gateway B accepted TagA.
Accepted(s) ==
    \/ Established(s) \in messages
    \/ Commitment(s) \in messages
    \/ Queued(s) \in messages
    \/ a_sessions[s] # None

\* It is about the session Gateway B has, or had before its restart.
AcceptedAtB(s) ==
    Accepted(s) =>
        /\ a_runs[s].pc \notin Early
        /\ a_runs[s].key = b_kem => b_sessions[s] = a_runs[s].action

SessionIInv(s) ==
    /\ ConfirmedFor(s)
    /\ UsedOnceBy(s)
    /\ IssuedAsAsked(s)
    /\ ProvisionedAsIssued(s)
    /\ RunHasKey(s)
    /\ KeysDrawn(s)
    /\ ConfirmedAsDerived(s)
    /\ AcceptedAtB(s)

IInv ==
    /\ TypeOK
    /\ a_kem <= b_kem
    /\ \A s \in Sessions : SessionIInv(s)
=============================================================================
