--------------------- MODULE SessionEstablishment_proofs ---------------------
(* Theorems about SessionEstablishment, for any sessions, actions, policy  *)
(* and number of restarts: its safety properties, and that it implements   *)
(* SessionSetup.                                                           *)
EXTENDS SessionEstablishmentToSetup, TLAPS

-----------------------------------------------------------------------------
(* Messages and types.                                                     *)

\* What the messages carry, which is all that tells them apart.
LEMMA Contents ==
    /\ \A s, action : /\ Authorize(s, action).type = "authorize"
                      /\ Authorize(s, action).session = s
                      /\ Authorize(s, action).action = action
    /\ \A s, action : /\ Provision(s, action).type = "provision"
                      /\ Provision(s, action).session = s
                      /\ Provision(s, action).action = action
    /\ \A s : Provisioned(s).type = "provisioned" /\ Provisioned(s).session = s
    /\ \A s, action : /\ Authorization(s, action).type = "authorization"
                      /\ Authorization(s, action).session = s
                      /\ Authorization(s, action).action = action
    /\ \A s, key : /\ Handshake(s, key).type = "handshake"
                   /\ Handshake(s, key).session = s
                   /\ Handshake(s, key).key = key
    /\ \A s, key : TagB(s, key).type = "tag-b" /\ TagB(s, key).session = s /\ TagB(s, key).key = key
    /\ \A s, key : /\ HandshakeConfirm(s, key).type = "handshake-confirm"
                   /\ HandshakeConfirm(s, key).session = s
                   /\ HandshakeConfirm(s, key).key = key
    /\ \A s : Established(s).type = "established" /\ Established(s).session = s
    /\ \A s : Commitment(s).type = "commitment" /\ Commitment(s).session = s
    /\ \A s : Queued(s).type = "queued" /\ Queued(s).session = s
BY DEF Authorize, Provision, Provisioned, Authorization, Handshake, TagB, HandshakeConfirm,
    Established, Commitment, Queued

\* Every message a service can send is a Message.
LEMMA Typed ==
    ASSUME NEW s \in Sessions
    PROVE  /\ \A action \in Actions : /\ Authorize(s, action) \in Message
                                      /\ Provision(s, action) \in Message
                                      /\ Authorization(s, action) \in Message
           /\ \A key \in Kem : /\ Handshake(s, key) \in Message
                               /\ TagB(s, key) \in Message
                               /\ HandshakeConfirm(s, key) \in Message
           /\ Provisioned(s) \in Message
           /\ Established(s) \in Message
           /\ Commitment(s) \in Message
           /\ Queued(s) \in Message
<1>1. \A action \in Actions : /\ Authorize(s, action) \in Message
                              /\ Provision(s, action) \in Message
                              /\ Authorization(s, action) \in Message
  BY SMT DEF Authorize, Provision, Authorization, Message, ToSac, ToB, ToA
<1>2. \A key \in Kem : /\ Handshake(s, key) \in Message
                       /\ TagB(s, key) \in Message
                       /\ HandshakeConfirm(s, key) \in Message
  BY SMT DEF Handshake, TagB, HandshakeConfirm, Message, ToB, ToA
<1>3. Provisioned(s) \in Message
  BY SMT DEF Provisioned, Message, ToSac
<1>4. Established(s) \in Message /\ Queued(s) \in Message
  BY SMT DEF Established, Queued, Message, ToA
<1>5. Commitment(s) \in Message
  BY SMT DEF Commitment, Message, ToLedger
<1>6. QED
  BY <1>1, <1>2, <1>3, <1>4, <1>5

\* A TagB on its way is under a key of Gateway B.
LEMMA Sent == \A s, key : TagB(s, key) \in Message => s \in Sessions /\ key \in Kem
<1> SUFFICES ASSUME NEW s, NEW key, TagB(s, key) \in Message
             PROVE  s \in Sessions /\ key \in Kem
  OBVIOUS
<1>1. \A m \in ToSac \cup ToB \cup ToLedger : m.type # "tag-b"
  BY SMT DEF ToSac, ToB, ToLedger
<1>2. \A m \in ToA : m.type = "tag-b" => m.session \in Sessions /\ m.key \in Kem
  BY SMT DEF ToA
<1>3. QED
  BY <1>1, <1>2, Contents, SMT DEF Message

\* Services that have just started are well typed.
LEMMA InitTypeOK == Init => TypeOK
BY RestartAssumption, SMT DEF Init, TypeOK, Nothing, Run, SacRun, Kem

\* Services that have just started satisfy the inductive invariant.
LEMMA InitIInv == Init => IInv
<1> SUFFICES ASSUME Init
             PROVE  IInv
  OBVIOUS
<1>1. ASSUME NEW s \in Sessions
      PROVE  SessionIInv(s)
  <2>1. a_runs[s] = [pc |-> "idle", action |-> None, key |-> None]
    BY DEF Init
  <2>2. sac_runs[s] = [pc |-> "idle", action |-> None]
    BY DEF Init
  <2>3. Nothing[s] = None
    BY DEF Nothing
  <2>4. /\ authorizations[s] = None /\ pending_handshakes[s] = None
        /\ a_sessions[s] = None /\ b_sessions[s] = None
    BY <2>3 DEF Init
  <2>5. messages = {}
    BY DEF Init
  <2>6. QED
    BY <2>1, <2>2, <2>4, <2>5, SMT DEF SessionIInv, ConfirmedFor, UsedOnceBy, IssuedAsAsked,
       ProvisionedAsIssued, RunHasKey, KeysDrawn, ConfirmedAsDerived, AcceptedAtB, Accepted
<1>2. a_kem <= b_kem
  BY DEF Init
<1>3. QED
  BY <1>1, <1>2, InitTypeOK DEF IInv

\* A step of POST /sessions at Gateway A keeps the types.
LEMMA GatewayATypeOK ==
    ASSUME TypeOK, NEW s \in Sessions, RunHasKey(s), GatewayA(s)
    PROVE  TypeOK'
<1> USE DEF TypeOK, Run
<1>1. \A m : m \in messages => m \in Message
  OBVIOUS
<1>2. ASSUME NEW action \in Actions, StartSession(s, action)
      PROVE  TypeOK'
  <2>1. messages' \subseteq Message
    BY <1>2, Typed, Zenon DEF StartSession, Send
  <2>2. a_runs' \in [Sessions -> Run]
    BY <1>2, SMT DEF StartSession, Waiting
  <2>3. QED
    BY <1>2, <2>1, <2>2, SMT DEF StartSession, bVars
<1>3. CASE SendHandshake(s)
  <2>1. messages' \subseteq Message
    BY <1>3, Typed, Zenon DEF SendHandshake, Exchange
  <2>2. a_runs' \in [Sessions -> Run]
    BY <1>3, SMT DEF SendHandshake, Waiting
  <2>3. QED
    BY <1>3, <2>1, <2>2, SMT DEF SendHandshake, bVars
<1>4. CASE SendTagA(s)
  <2>1. a_runs[s].key \in Kem
    <3>1. TagB(s, a_runs[s].key) \in Message
      BY <1>4 DEF SendTagA, Exchange
    <3>2. QED
      BY <3>1, Sent
  <2>2. messages' \subseteq Message
    BY <1>4, <2>1, Typed, Zenon DEF SendTagA, Exchange
  <2>3. a_runs' \in [Sessions -> Run]
    <3>1. a_runs' = [a_runs EXCEPT ![s].pc = "confirming"]
      BY <1>4 DEF SendTagA
    <3>2. QED
      BY <3>1, SMT DEF Waiting
  <2>4. QED
    BY <1>4, <2>2, <2>3, SMT DEF SendTagA, bVars
<1>5. CASE Establish(s)
  <2>1. a_runs[s].key \in Kem
    BY <1>5, SMT DEF RunHasKey, Establish
  <2>2. messages' \subseteq Message
    BY <1>5, Typed, Zenon DEF Establish, Exchange
  <2>3. a_runs' \in [Sessions -> Run]
    BY <1>5, SMT DEF Establish, Waiting
  <2>4. a_sessions' \in [Sessions -> ASession \cup {None}]
    BY <1>5, <2>1, SMT DEF Establish, ASession
  <2>5. QED
    BY <1>5, <2>2, <2>3, <2>4, SMT DEF Establish, bVars
<1>6. CASE RunFails(s)
  <2>1. a_runs' \in [Sessions -> Run]
    <3>1. a_runs' = [a_runs EXCEPT ![s].pc = "failed"]
      BY <1>6 DEF RunFails
    <3>2. QED
      BY <3>1, SMT DEF Waiting
  <2>2. QED
    BY <1>6, <2>1, SMT DEF RunFails, bVars
<1>7. CASE CommitmentQueued(s)
  <2>1. a_runs' \in [Sessions -> Run]
    <3>1. a_runs' = [a_runs EXCEPT ![s].pc = "done"]
      BY <1>7 DEF CommitmentQueued
    <3>2. QED
      BY <3>1, SMT DEF Waiting
  <2>2. a_sessions[s] \in ASession
    BY <1>7, SMT DEF RunHasKey, CommitmentQueued
  <2>3. a_sessions' \in [Sessions -> ASession \cup {None}]
    <3>1. a_sessions' = [a_sessions EXCEPT ![s].queued = TRUE]
      BY <1>7 DEF CommitmentQueued
    <3>2. QED
      <4>1. [a_sessions[s] EXCEPT !.queued = TRUE] \in ASession
        BY <2>2 DEF ASession
      <4>2. QED
        BY <3>1, <4>1
  <2>4. messages' \subseteq Message
    BY <1>7 DEF CommitmentQueued
  <2>5. QED
    BY <1>7, <2>1, <2>3, <2>4, SMT DEF CommitmentQueued, bVars
<1>8. CASE CommitmentNotQueued(s)
  <2>1. a_runs' \in [Sessions -> Run]
    <3>1. a_runs' = [a_runs EXCEPT ![s].pc = "done"]
      BY <1>8 DEF CommitmentNotQueued
    <3>2. QED
      BY <3>1, SMT DEF Waiting
  <2>2. QED
    BY <1>8, <2>1, SMT DEF CommitmentNotQueued, bVars
<1>9. QED
  BY <1>2, <1>3, <1>4, <1>5, <1>6, <1>7, <1>8 DEF GatewayA, Resume

\* A step of POST /authorize at the SAC keeps the types.
LEMMA SacTypeOK ==
    ASSUME TypeOK, NEW s \in Sessions, IssuedAsAsked(s), Sac(s)
    PROVE  TypeOK'
<1> USE DEF TypeOK, SacRun
<1>1. ASSUME NEW action \in Actions, IssueAuthorization(s, action)
      PROVE  TypeOK'
  <2>1. messages' \subseteq Message
    BY <1>1, Typed, Zenon DEF IssueAuthorization, Exchange
  <2>2. sac_runs' \in [Sessions -> SacRun]
    BY <1>1, SMT DEF IssueAuthorization
  <2>3. QED
    BY <1>1, <2>1, <2>2, SMT DEF IssueAuthorization, aVars, bVars
<1>2. CASE ReplyAuthorization(s)
  <2>1. sac_runs[s].action \in Actions
    BY <1>2, PolicyAssumption, SMT DEF ReplyAuthorization, IssuedAsAsked
  <2>2. messages' \subseteq Message
    BY <1>2, <2>1, Typed, Zenon DEF ReplyAuthorization, Exchange
  <2>3. sac_runs' \in [Sessions -> SacRun]
    <3>1. sac_runs' = [sac_runs EXCEPT ![s].pc = "done"]
      BY <1>2 DEF ReplyAuthorization
    <3>2. QED
      BY <3>1, SMT
  <2>4. QED
    BY <1>2, <2>2, <2>3, SMT DEF ReplyAuthorization, aVars, bVars
<1>3. CASE ProvisioningFails(s)
  <2>1. sac_runs' \in [Sessions -> SacRun]
    <3>1. sac_runs' = [sac_runs EXCEPT ![s].pc = "failed"]
      BY <1>3 DEF ProvisioningFails
    <3>2. QED
      BY <3>1, SMT
  <2>2. QED
    BY <1>3, <2>1, SMT DEF ProvisioningFails, aVars, bVars
<1>4. QED
  BY <1>1, <1>2, <1>3 DEF Sac

\* The handlers of Gateway B keep the types.
LEMMA GatewayBTypeOK ==
    ASSUME TypeOK, NEW s \in Sessions, GatewayB(s)
    PROVE  TypeOK'
<1> USE DEF TypeOK, StoredAuthorization
<1>1. ASSUME NEW action \in Actions, StoreAuthorization(s, action)
      PROVE  TypeOK'
  <2>1. messages' \subseteq Message
    BY <1>1, Typed, Zenon DEF StoreAuthorization, Exchange
  <2>2. authorizations' \in [Sessions -> StoredAuthorization \cup {None}]
    <3>1. [action |-> action, used |-> FALSE] \in StoredAuthorization
      OBVIOUS
    <3>2. authorizations' = [authorizations EXCEPT ![s] = [action |-> action, used |-> FALSE]]
      BY <1>1 DEF StoreAuthorization
    <3>3. QED
      BY <3>1, <3>2
  <2>3. QED
    BY <1>1, <2>1, <2>2, SMT DEF StoreAuthorization, aVars
<1>2. ASSUME NEW key \in Kem, AnswerHandshake(s, key)
      PROVE  TypeOK'
  <2>1. messages' \subseteq Message
    BY <1>2, Typed, Zenon DEF AnswerHandshake, Exchange
  <2>2. authorizations' \in [Sessions -> StoredAuthorization \cup {None}]
    <3>1. authorizations[s] \in StoredAuthorization
      BY <1>2 DEF AnswerHandshake, Unused
    <3>2. [authorizations[s] EXCEPT !.used = TRUE] \in StoredAuthorization
      BY <3>1
    <3>3. authorizations' = [authorizations EXCEPT ![s].used = TRUE]
      BY <1>2 DEF AnswerHandshake
    <3>4. QED
      BY <3>2, <3>3
  <2>3. pending_handshakes' \in [Sessions -> Kem \cup {None}]
    BY <1>2, SMT DEF AnswerHandshake
  <2>4. QED
    BY <1>2, <2>1, <2>2, <2>3, SMT DEF AnswerHandshake, aVars
<1>3. ASSUME NEW key \in Kem, AcceptTagA(s, key)
      PROVE  TypeOK'
  <2>1. messages' \subseteq Message
    BY <1>3, Typed, Zenon DEF AcceptTagA, Exchange
  <2>2. authorizations[s].action \in Actions
    BY <1>3, SMT DEF AcceptTagA
  <2>3. b_sessions' \in [Sessions -> Actions \cup {None}]
    BY <1>3, <2>2, SMT DEF AcceptTagA
  <2>4. pending_handshakes' \in [Sessions -> Kem \cup {None}]
    BY <1>3, SMT DEF AcceptTagA
  <2>5. QED
    BY <1>3, <2>1, <2>3, <2>4, SMT DEF AcceptTagA, aVars
<1>4. QED
  BY <1>1, <1>2, <1>3 DEF GatewayB

\* The ledger, lost requests, time and restarts keep the types.
LEMMA EnvironmentTypeOK ==
    ASSUME TypeOK,
           \/ \E s \in Sessions : QueueCommitment(s) \/ Expire(s)
           \/ \E m \in Requests : Refuse(m)
           \/ RestartA \/ RestartSac \/ RestartB
    PROVE  TypeOK'
<1> USE DEF TypeOK
<1>1. ASSUME NEW s \in Sessions, QueueCommitment(s)
      PROVE  TypeOK'
  <2>1. messages' \subseteq Message
    BY <1>1, Typed, Zenon DEF QueueCommitment, Exchange
  <2>2. QED
    BY <1>1, <2>1, SMT DEF QueueCommitment, aVars, bVars
<1>2. ASSUME NEW s \in Sessions, Expire(s)
      PROVE  TypeOK'
  BY <1>2, SMT DEF Expire, aVars, bVars
<1>3. ASSUME NEW m \in Requests, Refuse(m)
      PROVE  TypeOK'
  BY <1>3, SMT DEF Refuse, aVars, bVars
<1>4. CASE RestartA
  <2>1. a_runs' \in [Sessions -> Run]
    <3>1. ASSUME NEW s \in Sessions
          PROVE  [a_runs[s] EXCEPT !.pc = "failed"] \in Run
      BY SMT DEF Run
    <3>2. QED
      BY <1>4, <3>1, SMT DEF RestartA
  <2>2. a_sessions' \in [Sessions -> ASession \cup {None}]
    BY <1>4 DEF RestartA, Nothing
  <2>3. restarts' \in [{"a", "sac"} -> 0..MaxRestarts]
    BY <1>4, RestartAssumption, SMT DEF RestartA
  <2>4. messages' \subseteq Message
    BY <1>4 DEF RestartA
  <2>5. QED
    BY <1>4, <2>1, <2>2, <2>3, <2>4, SMT DEF RestartA, bVars
<1>5. CASE RestartSac
  <2>1. sac_runs' \in [Sessions -> SacRun]
    <3>1. ASSUME NEW s \in Sessions
          PROVE  [sac_runs[s] EXCEPT !.pc = "failed"] \in SacRun
      BY SMT DEF SacRun
    <3>2. QED
      BY <1>5, <3>1, SMT DEF RestartSac
  <2>2. restarts' \in [{"a", "sac"} -> 0..MaxRestarts]
    BY <1>5, RestartAssumption, SMT DEF RestartSac
  <2>3. QED
    BY <1>5, <2>1, <2>2, SMT DEF RestartSac, aVars, bVars
<1>6. CASE RestartB
  <2>1. b_kem' \in Kem
    BY <1>6, RestartAssumption, SMT DEF RestartB, Kem
  <2>2. authorizations' \in [Sessions -> StoredAuthorization \cup {None}]
    BY <1>6 DEF RestartB, Nothing
  <2>3. pending_handshakes' \in [Sessions -> Kem \cup {None}]
    BY <1>6 DEF RestartB, Nothing
  <2>4. b_sessions' \in [Sessions -> Actions \cup {None}]
    BY <1>6 DEF RestartB, Nothing
  <2>5. QED
    BY <1>6, <2>1, <2>2, <2>3, <2>4, SMT DEF RestartB, aVars
<1>7. QED
  BY <1>1, <1>2, <1>3, <1>4, <1>5, <1>6

\* Every step keeps the types.
LEMMA NextTypeOK == IInv /\ [Next]_vars => TypeOK'
<1> SUFFICES ASSUME IInv, [Next]_vars
             PROVE  TypeOK'
  OBVIOUS
<1>0. TypeOK
  BY DEF IInv
<1>1. ASSUME NEW s \in Sessions, GatewayA(s)
      PROVE  TypeOK'
  BY <1>0, <1>1, GatewayATypeOK DEF IInv, SessionIInv
<1>2. ASSUME NEW s \in Sessions, Sac(s)
      PROVE  TypeOK'
  BY <1>0, <1>2, SacTypeOK DEF IInv, SessionIInv
<1>3. ASSUME NEW s \in Sessions, GatewayB(s)
      PROVE  TypeOK'
  BY <1>0, <1>3, GatewayBTypeOK
<1>4. CASE UNCHANGED vars
  BY <1>0, <1>4 DEF TypeOK, vars, aVars, bVars
<1>5. QED
  BY <1>0, <1>1, <1>2, <1>3, <1>4, EnvironmentTypeOK DEF Next

-----------------------------------------------------------------------------
(* The inductive invariant.                                                *)

\* A step that gives session s no new message the invariant speaks of, does not
\* touch what Gateway B has of it, and at most ends its coroutines or takes
\* its record from Gateway A.
Undisturbed(s) ==
    /\ \A action : Authorize(s, action) \in messages' => Authorize(s, action) \in messages
    /\ \A action : Provision(s, action) \in messages' => Provision(s, action) \in messages
    /\ \A key : HandshakeConfirm(s, key) \in messages' => HandshakeConfirm(s, key) \in messages
    /\ Accepted(s)' => Accepted(s)
    /\ a_runs'[s].action = a_runs[s].action
    /\ a_runs'[s].key = a_runs[s].key
    /\ \/ a_runs'[s].pc = a_runs[s].pc /\ a_sessions'[s] = a_sessions[s]
       \/ a_runs[s].pc # "idle" /\ a_runs'[s].pc \in {"done", "failed"}
       \/ a_runs'[s].pc = a_runs[s].pc /\ a_runs[s].pc \in {"idle", "done", "failed"}
    /\ sac_runs'[s].action = sac_runs[s].action
    /\ sac_runs[s].pc = "idle" <=> sac_runs'[s].pc = "idle"
    /\ authorizations'[s] = authorizations[s]
    /\ pending_handshakes'[s] = pending_handshakes[s]
    /\ b_sessions'[s] = b_sessions[s]
    /\ b_kem' = b_kem

\* The invariant of an undisturbed session is kept.
LEMMA Frame ==
    ASSUME NEW s \in Sessions, SessionIInv(s), Undisturbed(s)
    PROVE  SessionIInv(s)'
<1> USE DEF SessionIInv, Undisturbed
<1>1. ConfirmedFor(s)'
  BY SMT DEF ConfirmedFor
<1>2. UsedOnceBy(s)'
  BY Zenon DEF UsedOnceBy
<1>3. IssuedAsAsked(s)'
  BY SMT DEF IssuedAsAsked
<1>4. ProvisionedAsIssued(s)'
  BY SMT DEF ProvisionedAsIssued
<1>5. RunHasKey(s)'
  BY SMT DEF RunHasKey
<1>6. KeysDrawn(s)'
  BY SMT DEF KeysDrawn
<1>7. ConfirmedAsDerived(s)'
  BY SMT DEF ConfirmedAsDerived, Early
<1>8. AcceptedAtB(s)'
  BY SMT DEF AcceptedAtB, Early
<1>9. QED
  BY <1>1, <1>2, <1>3, <1>4, <1>5, <1>6, <1>7, <1>8

\* A step about one session leaves the others undisturbed: what it adds to the
\* messages, if anything, is a message of its own session.
Apart(s) ==
    /\ \A m \in messages' : m \in messages \/ m.session = s
    /\ \A t \in Sessions \ {s} :
        /\ a_runs'[t] = a_runs[t]
        /\ a_sessions'[t] = a_sessions[t]
        /\ sac_runs'[t] = sac_runs[t]
        /\ authorizations'[t] = authorizations[t]
        /\ pending_handshakes'[t] = pending_handshakes[t]
        /\ b_sessions'[t] = b_sessions[t]
    /\ b_kem' = b_kem

\* A session a step is not about is undisturbed.
LEMMA Others ==
    ASSUME NEW s \in Sessions, Apart(s), NEW t \in Sessions \ {s}
    PROVE  Undisturbed(t)
<1>1. \A m : m.session = t /\ m \in messages' => m \in messages
  BY SMT DEF Apart
<1>2. /\ \A action : Authorize(t, action) \in messages' => Authorize(t, action) \in messages
      /\ \A action : Provision(t, action) \in messages' => Provision(t, action) \in messages
      /\ \A key : HandshakeConfirm(t, key) \in messages' => HandshakeConfirm(t, key) \in messages
  BY <1>1, Contents, SMT
<1>3. /\ Established(t) \in messages' => Established(t) \in messages
      /\ Commitment(t) \in messages' => Commitment(t) \in messages
      /\ Queued(t) \in messages' => Queued(t) \in messages
  BY <1>1, Contents, Zenon
<1>4. a_sessions'[t] = a_sessions[t]
  BY DEF Apart
<1>5. Accepted(t)' => Accepted(t)
  BY <1>3, <1>4, Zenon DEF Accepted, Established, Commitment, Queued
<1>6. QED
  BY <1>2, <1>4, <1>5, SMT DEF Undisturbed, Apart

\* A consumed authorization is not None.
LEMMA UsedIsAuthorization == None \notin [action: Actions, used: {TRUE}]
<1>1. [action: Actions, used: {TRUE}] \subseteq StoredAuthorization
  BY Zenon DEF StoredAuthorization
<1>2. QED
  BY <1>1, NoneAssumption

\* A new request: nothing of its session exists yet anywhere.
LEMMA StartSessionIInv ==
    ASSUME TypeOK, NEW s \in Sessions, SessionIInv(s), NEW action \in Actions,
           StartSession(s, action)
    PROVE  Apart(s) /\ SessionIInv(s)'
<1>1. messages' \subseteq messages \cup {Authorize(s, action)}
  BY Zenon DEF StartSession, Send
<1>2. Apart(s)
  <2>1. \A m \in messages' : m \in messages \/ m.session = s
    BY <1>1, Contents, SMT
  <2>2. \A t \in Sessions \ {s} : a_runs'[t] = a_runs[t]
    BY SMT DEF StartSession, TypeOK
  <2>3. QED
    BY <2>1, <2>2, Zenon DEF StartSession, Apart, bVars
<1>3. a_runs'[s] = [pc |-> "authorizing", action |-> action, key |-> None]
  BY SMT DEF StartSession, TypeOK
<1>4. a_runs'[s].pc = "authorizing" /\ a_runs'[s].action = action /\ a_runs'[s].key = None
  BY <1>3, SMT
<1>5. a_runs[s].pc = "idle" /\ sac_runs[s].pc = "idle"
  BY SMT DEF StartSession, SessionIInv, IssuedAsAsked
<1>6. b_sessions[s] = None /\ authorizations[s] = None /\ ~Accepted(s)
  BY <1>5, SMT DEF SessionIInv, ConfirmedFor, ProvisionedAsIssued, AcceptedAtB, Early
<1>7. pending_handshakes[s] = None
  BY <1>6, UsedIsAuthorization, Zenon DEF SessionIInv, UsedOnceBy
<1>8. /\ \A a : Authorize(s, a) \in messages' => Authorize(s, a) \in messages \/ a = action
      /\ \A a : Provision(s, a) \in messages' => Provision(s, a) \in messages
      /\ \A k : HandshakeConfirm(s, k) \in messages' => HandshakeConfirm(s, k) \in messages
      /\ Accepted(s)' => Accepted(s)
  BY <1>1, Contents, SMT DEF StartSession, Accepted
<1>9. b_kem' = b_kem /\ UNCHANGED <<a_sessions, sac_runs, bVars>>
  BY DEF StartSession, bVars
<1> USE DEF SessionIInv
<1>10. ConfirmedFor(s)' /\ RunHasKey(s)' /\ KeysDrawn(s)'
  BY <1>4, <1>6, <1>7, <1>9, SMT DEF ConfirmedFor, RunHasKey, KeysDrawn, bVars
<1>11. UsedOnceBy(s)'
  BY <1>6, <1>7, <1>9, Zenon DEF UsedOnceBy, bVars
<1>12. IssuedAsAsked(s)'
  BY <1>4, <1>5, <1>8, <1>9, SMT DEF IssuedAsAsked
<1>13. ProvisionedAsIssued(s)'
  BY <1>5, <1>6, <1>8, <1>9, SMT DEF ProvisionedAsIssued, bVars
<1>14. ConfirmedAsDerived(s)'
  BY <1>5, <1>8, SMT DEF ConfirmedAsDerived, Early
<1>15. AcceptedAtB(s)'
  BY <1>6, <1>8, SMT DEF AcceptedAtB
<1>16. QED
  BY <1>2, <1>10, <1>11, <1>12, <1>13, <1>14, <1>15

\* The key Gateway A derives is one Gateway B has drawn.
LEMMA SendHandshakeIInv ==
    ASSUME TypeOK, a_kem <= b_kem, NEW s \in Sessions, SessionIInv(s), SendHandshake(s)
    PROVE  Apart(s) /\ SessionIInv(s)'
<1>1. messages' \subseteq messages \cup {Handshake(s, a_kem)}
  BY Zenon DEF SendHandshake, Exchange
<1>2. Apart(s)
  <2>1. \A m \in messages' : m \in messages \/ m.session = s
    BY <1>1, Contents, SMT
  <2>2. \A t \in Sessions \ {s} : a_runs'[t] = a_runs[t]
    BY SMT DEF SendHandshake, TypeOK
  <2>3. QED
    BY <2>1, <2>2, Zenon DEF SendHandshake, Apart, bVars
<1>3. /\ a_runs[s].pc = "authorizing" /\ a_runs'[s].pc = "handshaking"
      /\ a_runs'[s].action = a_runs[s].action /\ a_runs'[s].key = a_kem
  BY SMT DEF SendHandshake, TypeOK
<1>4. /\ \A a : Authorize(s, a) \in messages' => Authorize(s, a) \in messages
      /\ \A a : Provision(s, a) \in messages' => Provision(s, a) \in messages
      /\ \A k : HandshakeConfirm(s, k) \in messages' => HandshakeConfirm(s, k) \in messages
      /\ Accepted(s)' => Accepted(s)
  BY <1>1, Contents, SMT DEF SendHandshake, Accepted
<1>5. UNCHANGED <<a_sessions, a_kem, sac_runs, bVars>>
  BY DEF SendHandshake
<1> USE DEF SessionIInv, bVars
<1>6. ConfirmedFor(s)' /\ RunHasKey(s)'
  BY <1>3, <1>5, SMT DEF ConfirmedFor, RunHasKey
<1>7. UsedOnceBy(s)'
  BY <1>5, Zenon DEF UsedOnceBy
<1>8. IssuedAsAsked(s)'
  BY <1>3, <1>4, <1>5, SMT DEF IssuedAsAsked
<1>9. ProvisionedAsIssued(s)'
  BY <1>3, <1>4, <1>5, SMT DEF ProvisionedAsIssued
<1>10. KeysDrawn(s)'
  BY <1>3, <1>5, SMT DEF KeysDrawn
<1>11. ConfirmedAsDerived(s)'
  BY <1>3, <1>4, SMT DEF ConfirmedAsDerived, Early
<1>12. AcceptedAtB(s)'
  BY <1>3, <1>4, SMT DEF AcceptedAtB, Early
<1>13. QED
  BY <1>2, <1>6, <1>7, <1>8, <1>9, <1>10, <1>11, <1>12

\* TagA goes out under the key TagB was checked with.
LEMMA SendTagAIInv ==
    ASSUME TypeOK, NEW s \in Sessions, SessionIInv(s), SendTagA(s)
    PROVE  Apart(s) /\ SessionIInv(s)'
<1>1. messages' \subseteq messages \cup {HandshakeConfirm(s, a_runs[s].key)}
  BY Zenon DEF SendTagA, Exchange
<1>2. Apart(s)
  <2>1. \A m \in messages' : m \in messages \/ m.session = s
    BY <1>1, Contents, SMT
  <2>2. \A t \in Sessions \ {s} : a_runs'[t] = a_runs[t]
    BY SMT DEF SendTagA, TypeOK
  <2>3. QED
    BY <2>1, <2>2, Zenon DEF SendTagA, Apart, bVars
<1>3. /\ a_runs[s].pc = "handshaking" /\ a_runs'[s].pc = "confirming"
      /\ a_runs'[s].action = a_runs[s].action /\ a_runs'[s].key = a_runs[s].key
  <2>1. a_runs' = [a_runs EXCEPT ![s].pc = "confirming"]
    BY DEF SendTagA
  <2>2. a_runs[s] \in Run /\ s \in DOMAIN a_runs
    BY DEF TypeOK
  <2>3. QED
    BY <2>1, <2>2, SMT DEF SendTagA, Run
<1>4. a_runs[s].key \in Kem
  <2>1. TagB(s, a_runs[s].key) \in Message
    BY DEF SendTagA, Exchange, TypeOK
  <2>2. QED
    BY <2>1, Sent
<1>5. /\ \A a : Authorize(s, a) \in messages' => Authorize(s, a) \in messages
      /\ \A a : Provision(s, a) \in messages' => Provision(s, a) \in messages
      /\ \A k : HandshakeConfirm(s, k) \in messages' =>
             HandshakeConfirm(s, k) \in messages \/ k = a_runs[s].key
      /\ Accepted(s)' => Accepted(s)
  BY <1>1, Contents, SMT DEF SendTagA, Accepted
<1>6. UNCHANGED <<a_sessions, sac_runs, bVars>>
  BY DEF SendTagA
<1> USE DEF SessionIInv, bVars
<1>7. ConfirmedFor(s)' /\ KeysDrawn(s)'
  BY <1>3, <1>6, SMT DEF ConfirmedFor, KeysDrawn
<1>8. RunHasKey(s)'
  BY <1>3, <1>4, NoneAssumption, SMT DEF RunHasKey, Kem
<1>9. UsedOnceBy(s)'
  BY <1>6, Zenon DEF UsedOnceBy
<1>10. IssuedAsAsked(s)'
  BY <1>3, <1>5, <1>6, SMT DEF IssuedAsAsked
<1>11. ProvisionedAsIssued(s)'
  BY <1>3, <1>5, <1>6, SMT DEF ProvisionedAsIssued
<1>12. ConfirmedAsDerived(s)'
  BY <1>3, <1>5, SMT DEF ConfirmedAsDerived, Early
<1>13. AcceptedAtB(s)'
  BY <1>3, <1>5, SMT DEF AcceptedAtB, Early
<1>14. QED
  BY <1>2, <1>7, <1>8, <1>9, <1>10, <1>11, <1>12, <1>13

\* Gateway A establishes what Gateway B has accepted.
LEMMA EstablishIInv ==
    ASSUME TypeOK, NEW s \in Sessions, SessionIInv(s), Establish(s)
    PROVE  Apart(s) /\ SessionIInv(s)'
<1>1. messages' \subseteq messages \cup {Commitment(s)}
  BY Zenon DEF Establish, Exchange
<1>2. Apart(s)
  <2>1. \A m \in messages' : m \in messages \/ m.session = s
    BY <1>1, Contents, SMT
  <2>2. \A t \in Sessions \ {s} : a_runs'[t] = a_runs[t] /\ a_sessions'[t] = a_sessions[t]
    BY SMT DEF Establish, TypeOK
  <2>3. QED
    BY <2>1, <2>2, Zenon DEF Establish, Apart, bVars
<1>3. /\ a_runs[s].pc = "confirming" /\ a_runs'[s].pc = "committing"
      /\ a_runs'[s].action = a_runs[s].action /\ a_runs'[s].key = a_runs[s].key
  <2>1. a_runs' = [a_runs EXCEPT ![s].pc = "committing"]
    BY DEF Establish
  <2>2. a_runs[s] \in Run /\ s \in DOMAIN a_runs
    BY DEF TypeOK
  <2>3. QED
    BY <2>1, <2>2, SMT DEF Establish, Run
<1>4. a_sessions'[s] # None
  <2>1. a_sessions'[s] = [key |-> a_runs[s].key, queued |-> FALSE]
    BY DEF Establish, TypeOK
  <2>2. a_runs[s].key \in Kem
    BY <1>3, SMT DEF SessionIInv, RunHasKey, TypeOK, Run
  <2>3. [key |-> a_runs[s].key, queued |-> FALSE] \in ASession
    BY <2>2 DEF ASession
  <2>4. QED
    BY <2>1, <2>3, NoneAssumption
<1>5. /\ \A a : Authorize(s, a) \in messages' => Authorize(s, a) \in messages
      /\ \A a : Provision(s, a) \in messages' => Provision(s, a) \in messages
      /\ \A k : HandshakeConfirm(s, k) \in messages' => HandshakeConfirm(s, k) \in messages
  BY <1>1, Contents, SMT
<1>6. Accepted(s)
  BY DEF Establish, Exchange, Accepted
<1>7. UNCHANGED <<sac_runs, bVars>>
  BY DEF Establish
<1> USE DEF SessionIInv, bVars
<1>8. ConfirmedFor(s)' /\ KeysDrawn(s)'
  BY <1>3, <1>7, SMT DEF ConfirmedFor, KeysDrawn
<1>9. RunHasKey(s)'
  BY <1>3, <1>4, SMT DEF RunHasKey
<1>10. UsedOnceBy(s)'
  BY <1>7, Zenon DEF UsedOnceBy
<1>11. IssuedAsAsked(s)'
  BY <1>3, <1>5, <1>7, SMT DEF IssuedAsAsked
<1>12. ProvisionedAsIssued(s)'
  BY <1>3, <1>5, <1>7, SMT DEF ProvisionedAsIssued
<1>13. ConfirmedAsDerived(s)'
  BY <1>3, <1>5, SMT DEF ConfirmedAsDerived, Early
<1>14. AcceptedAtB(s)'
  BY <1>3, <1>6, <1>7, SMT DEF AcceptedAtB, Early
<1>15. QED
  BY <1>2, <1>8, <1>9, <1>10, <1>11, <1>12, <1>13, <1>14

\* A coroutine of Gateway A that ends disturbs no one.
LEMMA RunEndsIInv ==
    ASSUME TypeOK, NEW s \in Sessions, SessionIInv(s),
           RunFails(s) \/ CommitmentNotQueued(s)
    PROVE  Apart(s) /\ SessionIInv(s)'
<1>1. PICK pc \in {"done", "failed"} : a_runs' = [a_runs EXCEPT ![s].pc = pc]
  BY DEF RunFails, CommitmentNotQueued
<1>2. a_runs[s].pc # "idle"
  BY SMT DEF RunFails, CommitmentNotQueued, Waiting
<1>3. UNCHANGED <<messages, a_sessions, sac_runs, bVars>>
  BY DEF RunFails, CommitmentNotQueued
<1>4. Apart(s)
  <2>1. \A m \in messages' : m \in messages \/ m.session = s
    BY <1>3, Contents, SMT
  <2>2. \A t \in Sessions \ {s} : a_runs'[t] = a_runs[t]
    BY <1>1, SMT DEF TypeOK
  <2>3. QED
    BY <1>3, <2>1, <2>2, Zenon DEF Apart, bVars
<1>5. /\ a_runs'[s].pc = pc /\ a_runs'[s].action = a_runs[s].action
      /\ a_runs'[s].key = a_runs[s].key
  <2>1. a_runs[s] \in Run /\ s \in DOMAIN a_runs
    BY DEF TypeOK
  <2>2. QED
    BY <1>1, <2>1, SMT DEF Run
<1>6. Undisturbed(s)
  BY <1>2, <1>3, <1>5, SMT DEF Undisturbed, Accepted, bVars
<1>7. QED
  BY <1>4, <1>6, Frame

\* So does the answer of the ledger.
LEMMA CommitmentQueuedIInv ==
    ASSUME TypeOK, NEW s \in Sessions, SessionIInv(s), CommitmentQueued(s)
    PROVE  Apart(s) /\ SessionIInv(s)'
<1>1. messages' \subseteq messages
  BY DEF CommitmentQueued
<1>2. Apart(s)
  <2>1. \A m \in messages' : m \in messages \/ m.session = s
    BY <1>1, Contents, SMT
  <2>2. \A t \in Sessions \ {s} : a_runs'[t] = a_runs[t] /\ a_sessions'[t] = a_sessions[t]
    BY SMT DEF CommitmentQueued, TypeOK
  <2>3. QED
    BY <2>1, <2>2, Zenon DEF CommitmentQueued, Apart, bVars
<1>3. /\ a_runs[s].pc = "committing" /\ a_runs'[s].pc = "done"
      /\ a_runs'[s].action = a_runs[s].action /\ a_runs'[s].key = a_runs[s].key
  <2>1. a_runs' = [a_runs EXCEPT ![s].pc = "done"]
    BY DEF CommitmentQueued
  <2>2. a_runs[s] \in Run /\ s \in DOMAIN a_runs
    BY DEF TypeOK
  <2>3. QED
    BY <2>1, <2>2, SMT DEF CommitmentQueued, Run
<1>4. Accepted(s)
  BY DEF CommitmentQueued, Accepted
<1>5. UNCHANGED <<sac_runs, bVars>>
  BY DEF CommitmentQueued
<1>6. Undisturbed(s)
  BY <1>1, <1>3, <1>4, <1>5, SMT DEF Undisturbed, bVars
<1>7. QED
  BY <1>2, <1>6, Frame

\* The SAC issues what was asked for; the request is served only once.
LEMMA IssueAuthorizationIInv ==
    ASSUME TypeOK, NEW s \in Sessions, SessionIInv(s), NEW action \in Actions,
           IssueAuthorization(s, action)
    PROVE  Apart(s) /\ SessionIInv(s)'
<1>1. /\ Authorize(s, action) \in messages
      /\ messages' = (messages \ {Authorize(s, action)}) \cup {Provision(s, action)}
  BY DEF IssueAuthorization, Exchange
<1>2. Apart(s)
  <2>1. \A m \in messages' : m \in messages \/ m.session = s
    BY <1>1, Contents, SMT
  <2>2. \A t \in Sessions \ {s} : sac_runs'[t] = sac_runs[t]
    BY SMT DEF IssueAuthorization, TypeOK
  <2>3. QED
    BY <2>1, <2>2, Zenon DEF IssueAuthorization, Apart, aVars, bVars
<1> USE DEF SessionIInv, aVars, bVars
<1>3. /\ sac_runs[s].pc = "idle" /\ a_runs[s].pc # "idle" /\ action = a_runs[s].action
      /\ action \in Policy /\ authorizations[s] = None
  BY <1>1, SMT DEF IssueAuthorization, IssuedAsAsked, ProvisionedAsIssued
<1>4. sac_runs'[s].pc = "provisioning" /\ sac_runs'[s].action = action
  BY SMT DEF IssueAuthorization, TypeOK
<1>5. /\ \A a \in Actions : Authorize(s, a) \notin messages'
      /\ \A a : Provision(s, a) \in messages' => Provision(s, a) \in messages \/ a = action
      /\ \A k : HandshakeConfirm(s, k) \in messages' => HandshakeConfirm(s, k) \in messages
      /\ Accepted(s)' => Accepted(s)
  <2>1. \A a \in Actions : Authorize(s, a) \in messages => a = action
    BY <1>3, SMT DEF IssuedAsAsked
  <2>2. QED
    BY <1>1, <2>1, Contents, SMT DEF IssueAuthorization, Accepted
<1>6. UNCHANGED <<aVars, bVars>>
  BY DEF IssueAuthorization
<1>7. ConfirmedFor(s)' /\ KeysDrawn(s)' /\ RunHasKey(s)'
  BY <1>6, SMT DEF ConfirmedFor, KeysDrawn, RunHasKey
<1>8. UsedOnceBy(s)'
  BY <1>6, Zenon DEF UsedOnceBy
<1>9. IssuedAsAsked(s)'
  BY <1>3, <1>4, <1>5, <1>6, SMT DEF IssuedAsAsked
<1>10. ProvisionedAsIssued(s)'
  BY <1>3, <1>4, <1>5, <1>6, SMT DEF ProvisionedAsIssued
<1>11. ConfirmedAsDerived(s)' /\ AcceptedAtB(s)'
  BY <1>5, <1>6, SMT DEF ConfirmedAsDerived, AcceptedAtB
<1>12. QED
  BY <1>2, <1>7, <1>8, <1>9, <1>10, <1>11

\* The end of POST /authorize disturbs no one.
LEMMA AuthorizeEndsIInv ==
    ASSUME TypeOK, NEW s \in Sessions, SessionIInv(s),
           ReplyAuthorization(s) \/ ProvisioningFails(s)
    PROVE  Apart(s) /\ SessionIInv(s)'
<1>1. messages' \subseteq messages \cup {Authorization(s, sac_runs[s].action)}
  BY Zenon DEF ReplyAuthorization, ProvisioningFails, Exchange
<1>2. PICK pc \in {"done", "failed"} : sac_runs' = [sac_runs EXCEPT ![s].pc = pc]
  BY DEF ReplyAuthorization, ProvisioningFails
<1>3. sac_runs[s].pc # "idle"
  BY SMT DEF ReplyAuthorization, ProvisioningFails
<1>4. UNCHANGED <<aVars, bVars>>
  BY DEF ReplyAuthorization, ProvisioningFails
<1>5. Apart(s)
  <2>1. \A m \in messages' : m \in messages \/ m.session = s
    BY <1>1, Contents, SMT
  <2>2. \A t \in Sessions \ {s} : sac_runs'[t] = sac_runs[t]
    BY <1>2, SMT DEF TypeOK
  <2>3. QED
    BY <1>4, <2>1, <2>2, Zenon DEF Apart, aVars, bVars
<1>6. sac_runs'[s].pc = pc /\ sac_runs'[s].action = sac_runs[s].action
  <2>1. sac_runs[s] \in SacRun /\ s \in DOMAIN sac_runs
    BY DEF TypeOK
  <2>2. QED
    BY <1>2, <2>1, SMT DEF SacRun
<1>7. a_sessions' = a_sessions
  BY <1>4 DEF aVars
<1>8. /\ \A a : Authorize(s, a) \in messages' => Authorize(s, a) \in messages
      /\ \A a : Provision(s, a) \in messages' => Provision(s, a) \in messages
      /\ \A k : HandshakeConfirm(s, k) \in messages' => HandshakeConfirm(s, k) \in messages
      /\ Accepted(s)' => Accepted(s)
  BY <1>1, <1>7, Contents, SMT DEF Accepted
<1>9. Undisturbed(s)
  BY <1>3, <1>4, <1>6, <1>8, SMT DEF Undisturbed, aVars, bVars
<1>10. QED
  BY <1>5, <1>9, Frame

\* The package is stored once, before any handshake of its session.
LEMMA StoreAuthorizationIInv ==
    ASSUME TypeOK, NEW s \in Sessions, SessionIInv(s), NEW action \in Actions,
           StoreAuthorization(s, action)
    PROVE  Apart(s) /\ SessionIInv(s)'
<1>1. /\ Provision(s, action) \in messages
      /\ messages' = (messages \ {Provision(s, action)}) \cup {Provisioned(s)}
  BY DEF StoreAuthorization, Exchange
<1>2. Apart(s)
  <2>1. \A m \in messages' : m \in messages \/ m.session = s
    BY <1>1, Contents, SMT
  <2>2. \A t \in Sessions \ {s} : authorizations'[t] = authorizations[t]
    BY SMT DEF StoreAuthorization, TypeOK
  <2>3. QED
    BY <2>1, <2>2, Zenon DEF StoreAuthorization, Apart, aVars
<1> USE DEF SessionIInv, aVars
<1>3. sac_runs[s].pc # "idle" /\ action = a_runs[s].action /\ authorizations[s] = None
  BY <1>1, SMT DEF ProvisionedAsIssued
<1>4. pending_handshakes[s] = None /\ b_sessions[s] = None
  BY <1>3, UsedIsAuthorization, Zenon DEF UsedOnceBy
<1>5. authorizations'[s].action = action
  BY SMT DEF StoreAuthorization, TypeOK
<1>6. UNCHANGED <<aVars, sac_runs, pending_handshakes, b_sessions, b_kem>>
  BY DEF StoreAuthorization
<1>7. /\ \A a : Authorize(s, a) \in messages' => Authorize(s, a) \in messages
      /\ \A a \in Actions : Provision(s, a) \notin messages'
      /\ \A k : HandshakeConfirm(s, k) \in messages' => HandshakeConfirm(s, k) \in messages
      /\ Accepted(s)' => Accepted(s)
  <2>1. \A a \in Actions : Provision(s, a) \in messages => a = action
    BY <1>3, SMT DEF ProvisionedAsIssued
  <2>2. QED
    BY <1>1, <1>6, <2>1, Contents, SMT DEF Accepted
<1>8. ConfirmedFor(s)' /\ KeysDrawn(s)' /\ RunHasKey(s)'
  BY <1>6, SMT DEF ConfirmedFor, KeysDrawn, RunHasKey
<1>9. UsedOnceBy(s)'
  BY <1>4, <1>6, Zenon DEF UsedOnceBy
<1>10. IssuedAsAsked(s)'
  BY <1>6, <1>7, SMT DEF IssuedAsAsked
<1>11. ProvisionedAsIssued(s)'
  BY <1>3, <1>5, <1>6, <1>7, SMT DEF ProvisionedAsIssued
<1>12. ConfirmedAsDerived(s)' /\ AcceptedAtB(s)'
  BY <1>6, <1>7, SMT DEF ConfirmedAsDerived, AcceptedAtB
<1>13. QED
  BY <1>2, <1>8, <1>9, <1>10, <1>11, <1>12

\* An unused authorization has no session; it is consumed.
LEMMA AnswerHandshakeIInv ==
    ASSUME TypeOK, NEW s \in Sessions, SessionIInv(s), NEW key \in Kem,
           AnswerHandshake(s, key)
    PROVE  Apart(s) /\ SessionIInv(s)'
<1>1. messages' \subseteq messages \cup {TagB(s, b_kem)}
  BY Zenon DEF AnswerHandshake, Exchange
<1>2. Apart(s)
  <2>1. \A m \in messages' : m \in messages \/ m.session = s
    BY <1>1, Contents, SMT
  <2>2. \A t \in Sessions \ {s} : /\ authorizations'[t] = authorizations[t]
                                /\ pending_handshakes'[t] = pending_handshakes[t]
    BY SMT DEF AnswerHandshake, TypeOK
  <2>3. QED
    BY <2>1, <2>2, Zenon DEF AnswerHandshake, Apart, aVars
<1> USE DEF SessionIInv, aVars
<1>3. authorizations[s] \in [action: Actions, used: {FALSE}]
  BY DEF AnswerHandshake, Unused
<1>4. /\ authorizations'[s] \in [action: Actions, used: {TRUE}]
      /\ authorizations'[s].action = authorizations[s].action
  <2>1. authorizations'[s] = [authorizations[s] EXCEPT !.used = TRUE]
    BY DEF AnswerHandshake, TypeOK
  <2>2. QED
    BY <1>3, <2>1
<1>5. authorizations[s] # None
  <2>1. authorizations[s] \in StoredAuthorization
    BY <1>3 DEF StoredAuthorization
  <2>2. QED
    BY <2>1, NoneAssumption
<1>6. b_sessions[s] = None
  <2>1. authorizations[s] \notin [action: Actions, used: {TRUE}]
    BY <1>3
  <2>2. QED
    BY <2>1, Zenon DEF UsedOnceBy
<1>7. pending_handshakes'[s] = b_kem
  BY SMT DEF AnswerHandshake, TypeOK
<1>8. UNCHANGED <<aVars, sac_runs, b_sessions, b_kem>>
  BY DEF AnswerHandshake
<1>9. /\ \A a : Authorize(s, a) \in messages' => Authorize(s, a) \in messages
      /\ \A a : Provision(s, a) \in messages' => Provision(s, a) \in messages
      /\ \A k : HandshakeConfirm(s, k) \in messages' => HandshakeConfirm(s, k) \in messages
      /\ Accepted(s)' => Accepted(s)
  BY <1>1, <1>8, Contents, SMT DEF Accepted
<1>10. ConfirmedFor(s)' /\ KeysDrawn(s)' /\ RunHasKey(s)'
  BY <1>7, <1>8, SMT DEF ConfirmedFor, KeysDrawn, RunHasKey
<1>11. UsedOnceBy(s)'
  BY <1>4, <1>6, <1>8, Zenon DEF UsedOnceBy
<1>12. IssuedAsAsked(s)'
  BY <1>8, <1>9, SMT DEF IssuedAsAsked
<1>13. ProvisionedAsIssued(s)'
  BY <1>4, <1>5, <1>8, <1>9, SMT DEF ProvisionedAsIssued
<1>14. ConfirmedAsDerived(s)' /\ AcceptedAtB(s)'
  BY <1>8, <1>9, SMT DEF ConfirmedAsDerived, AcceptedAtB
<1>15. QED
  BY <1>2, <1>10, <1>11, <1>12, <1>13, <1>14

\* TagA verifies: both gateways have the key of the present Gateway B.
LEMMA AcceptTagAIInv ==
    ASSUME TypeOK, NEW s \in Sessions, SessionIInv(s), NEW key \in Kem,
           AcceptTagA(s, key)
    PROVE  Apart(s) /\ SessionIInv(s)'
<1>1. /\ HandshakeConfirm(s, key) \in messages
      /\ messages' \subseteq messages \cup {Established(s)}
  BY Zenon DEF AcceptTagA, Exchange
<1>2. Apart(s)
  <2>1. \A m \in messages' : m \in messages \/ m.session = s
    BY <1>1, Contents, SMT
  <2>2. \A t \in Sessions \ {s} : /\ b_sessions'[t] = b_sessions[t]
                                /\ pending_handshakes'[t] = pending_handshakes[t]
    BY SMT DEF AcceptTagA, TypeOK
  <2>3. QED
    BY <2>1, <2>2, Zenon DEF AcceptTagA, Apart, aVars
<1> USE DEF SessionIInv, aVars
<1>3. key # None
  BY NoneAssumption, SMT DEF Kem
<1>4. pending_handshakes[s] = key /\ authorizations[s] # None
  BY DEF AcceptTagA
<1>5. key = b_kem /\ key = a_runs[s].key /\ a_runs[s].pc \notin Early
  BY <1>1, <1>3, <1>4, SMT DEF KeysDrawn, ConfirmedAsDerived
<1>6. authorizations[s].action = a_runs[s].action /\ a_runs[s].action \in Policy
  BY <1>4, SMT DEF ProvisionedAsIssued, IssuedAsAsked
<1>7. authorizations[s] \in [action: Actions, used: {TRUE}]
  BY <1>3, <1>4, Zenon DEF UsedOnceBy
<1>8. b_sessions'[s] = authorizations[s].action /\ pending_handshakes'[s] = None
  BY SMT DEF AcceptTagA, TypeOK
<1>9. UNCHANGED <<aVars, sac_runs, authorizations, b_kem>>
  BY DEF AcceptTagA
<1>10. /\ \A a : Authorize(s, a) \in messages' => Authorize(s, a) \in messages
       /\ \A a : Provision(s, a) \in messages' => Provision(s, a) \in messages
       /\ \A k : HandshakeConfirm(s, k) \in messages' => HandshakeConfirm(s, k) \in messages
  BY <1>1, Contents, SMT
<1>11. ConfirmedFor(s)'
  <2>1. b_sessions'[s] \in Policy /\ b_sessions'[s] = a_runs'[s].action
    BY <1>6, <1>8, <1>9
  <2>2. a_runs'[s].key = b_kem' /\ a_runs'[s].pc \notin Early
    BY <1>5, <1>9
  <2>3. QED
    BY <2>1, <2>2 DEF ConfirmedFor, Early
<1>12. KeysDrawn(s)' /\ RunHasKey(s)'
  BY <1>8, <1>9, SMT DEF KeysDrawn, RunHasKey
<1>13. UsedOnceBy(s)'
  BY <1>7, <1>8, <1>9, Zenon DEF UsedOnceBy
<1>14. IssuedAsAsked(s)' /\ ProvisionedAsIssued(s)'
  BY <1>9, <1>10, SMT DEF IssuedAsAsked, ProvisionedAsIssued
<1>15. ConfirmedAsDerived(s)'
  BY <1>9, <1>10, SMT DEF ConfirmedAsDerived
<1>16. AcceptedAtB(s)'
  BY <1>5, <1>6, <1>8, <1>9, SMT DEF AcceptedAtB
<1>17. QED
  BY <1>2, <1>11, <1>12, <1>13, <1>14, <1>15, <1>16

\* The ledger is only asked about accepted sessions.
LEMMA QueueCommitmentIInv ==
    ASSUME NEW s \in Sessions, SessionIInv(s), QueueCommitment(s)
    PROVE  Apart(s) /\ SessionIInv(s)'
<1>1. /\ Commitment(s) \in messages
      /\ messages' \subseteq messages \cup {Queued(s)}
  BY Zenon DEF QueueCommitment, Exchange
<1>2. UNCHANGED <<aVars, sac_runs, bVars>>
  BY DEF QueueCommitment
<1>3. Apart(s)
  <2>1. \A m \in messages' : m \in messages \/ m.session = s
    BY <1>1, Contents, SMT
  <2>2. QED
    BY <1>2, <2>1, Zenon DEF Apart, aVars, bVars
<1>4. Accepted(s)
  BY <1>1 DEF Accepted
<1>5. /\ \A a : Authorize(s, a) \in messages' => Authorize(s, a) \in messages
      /\ \A a : Provision(s, a) \in messages' => Provision(s, a) \in messages
      /\ \A k : HandshakeConfirm(s, k) \in messages' => HandshakeConfirm(s, k) \in messages
  BY <1>1, Contents, SMT
<1>6. Undisturbed(s)
  <2>1. /\ a_runs'[s] = a_runs[s] /\ a_sessions'[s] = a_sessions[s]
        /\ sac_runs'[s] = sac_runs[s] /\ authorizations'[s] = authorizations[s]
        /\ pending_handshakes'[s] = pending_handshakes[s]
        /\ b_sessions'[s] = b_sessions[s] /\ b_kem' = b_kem
    BY <1>2 DEF aVars, bVars
  <2>2. QED
    BY <1>4, <1>5, <2>1, Zenon DEF Undisturbed
<1>7. QED
  BY <1>3, <1>6, Frame

\* Lost requests, passing time and a restart of the SAC disturb no one.
LEMMA LostOrLateIInv ==
    ASSUME TypeOK, NEW s \in Sessions, SessionIInv(s),
           messages' \subseteq messages, UNCHANGED <<a_runs, a_sessions, bVars>>,
           sac_runs' = sac_runs \/ RestartSac
    PROVE  SessionIInv(s)'
<1>1. /\ sac_runs'[s].action = sac_runs[s].action
      /\ sac_runs[s].pc = "idle" <=> sac_runs'[s].pc = "idle"
  <2>1. CASE sac_runs' = sac_runs
    BY <2>1
  <2>2. CASE RestartSac
    <3>1. \/ sac_runs'[s] = sac_runs[s]
          \/ sac_runs[s].pc = "provisioning" /\ sac_runs'[s] = [sac_runs[s] EXCEPT !.pc = "failed"]
      BY <2>2, Zenon DEF RestartSac
    <3>2. sac_runs[s] \in SacRun
      BY DEF TypeOK
    <3>3. QED
      BY <3>1, <3>2, SMT DEF SacRun
  <2>3. QED
    BY <2>1, <2>2
<1>2. Accepted(s)' => Accepted(s)
  BY DEF Accepted
<1>3. Undisturbed(s)
  BY <1>1, <1>2, Zenon DEF Undisturbed, bVars
<1>4. QED
  BY <1>3, Frame

\* A restart of Gateway A ends its coroutines and drops its records.
LEMMA RestartAIInv ==
    ASSUME TypeOK, NEW s \in Sessions, SessionIInv(s), RestartA
    PROVE  SessionIInv(s)'
<1>1. \/ a_runs'[s] = a_runs[s] /\ a_runs[s].pc \in {"idle", "done", "failed"}
      \/ a_runs[s].pc # "idle" /\ a_runs'[s] = [a_runs[s] EXCEPT !.pc = "failed"]
  <2>1. a_runs[s] \in Run
    BY DEF TypeOK
  <2>2. a_runs[s].pc \in {"idle", "committing", "done", "failed"} \cup Waiting
    BY <2>1, SMT DEF Run
  <2>3. CASE a_runs[s].pc \in Waiting \cup {"committing"}
    BY <2>3, Zenon DEF RestartA, Waiting
  <2>4. CASE a_runs[s].pc \notin Waiting \cup {"committing"}
    <3>1. a_runs'[s] = a_runs[s]
      BY <2>4, Zenon DEF RestartA
    <3>2. QED
      BY <2>2, <2>4, <3>1, SMT
  <2>5. QED
    BY <2>3, <2>4
<1>2. /\ a_runs'[s].action = a_runs[s].action /\ a_runs'[s].key = a_runs[s].key
      /\ \/ a_runs[s].pc # "idle" /\ a_runs'[s].pc = "failed"
         \/ a_runs'[s].pc = a_runs[s].pc /\ a_runs[s].pc \in {"idle", "done", "failed"}
  <2>1. a_runs[s] \in Run
    BY DEF TypeOK
  <2>2. QED
    BY <1>1, <2>1, SMT DEF Run
<1>3. messages' \subseteq messages /\ a_sessions'[s] = None /\ UNCHANGED <<sac_runs, bVars>>
  BY DEF RestartA, Nothing
<1>4. Accepted(s)' => Accepted(s)
  BY <1>3 DEF Accepted
<1>5. Undisturbed(s)
  BY <1>2, <1>3, <1>4, SMT DEF Undisturbed, bVars
<1>6. QED
  BY <1>5, Frame

\* A restart of Gateway B drops its records, and no key derived before is its own.
LEMMA RestartBIInv ==
    ASSUME TypeOK, NEW s \in Sessions, SessionIInv(s), RestartB
    PROVE  SessionIInv(s)'
<1>1. /\ authorizations'[s] = None /\ pending_handshakes'[s] = None /\ b_sessions'[s] = None
      /\ b_kem' = b_kem + 1
      /\ UNCHANGED <<messages, a_runs, a_sessions, sac_runs>>
  BY DEF RestartB, Nothing, aVars
<1>2. a_runs[s].key \in Kem \cup {None} /\ b_kem \in Kem
  <2>1. a_runs[s] \in Run
    BY DEF TypeOK
  <2>2. QED
    BY <2>1, SMT DEF Run, TypeOK
<1>3. b_kem \in Nat /\ (a_runs[s].key # None => a_runs[s].key \in Nat)
  BY <1>2, SMT DEF Kem
<1>4. a_runs[s].key # b_kem' /\ (a_runs[s].key # None => a_runs[s].key <= b_kem')
  BY <1>1, <1>3, NoneAssumption, SMT DEF SessionIInv, KeysDrawn
<1> USE DEF SessionIInv
<1>5. ConfirmedFor(s)' /\ UsedOnceBy(s)'
  BY <1>1, Zenon DEF ConfirmedFor, UsedOnceBy
<1>6. IssuedAsAsked(s)' /\ ProvisionedAsIssued(s)' /\ RunHasKey(s)'
  BY <1>1, SMT DEF IssuedAsAsked, ProvisionedAsIssued, RunHasKey
<1>7. KeysDrawn(s)' /\ ConfirmedAsDerived(s)'
  BY <1>1, <1>4, SMT DEF KeysDrawn, ConfirmedAsDerived
<1>8. AcceptedAtB(s)'
  BY <1>1, <1>4, SMT DEF AcceptedAtB, Accepted
<1>9. QED
  BY <1>5, <1>6, <1>7, <1>8

\* A service's step about a session keeps that session's invariant.
LEMMA SessionStep ==
    ASSUME IInv, NEW s \in Sessions,
           GatewayA(s) \/ Sac(s) \/ GatewayB(s) \/ QueueCommitment(s)
    PROVE  Apart(s) /\ SessionIInv(s)'
<1>1. TypeOK /\ a_kem <= b_kem /\ SessionIInv(s)
  BY DEF IInv
<1>2. CASE GatewayA(s)
  BY <1>1, <1>2, StartSessionIInv, SendHandshakeIInv, SendTagAIInv, EstablishIInv, RunEndsIInv,
     CommitmentQueuedIInv DEF GatewayA, Resume
<1>3. CASE Sac(s)
  BY <1>1, <1>3, IssueAuthorizationIInv, AuthorizeEndsIInv DEF Sac
<1>4. CASE GatewayB(s)
  BY <1>1, <1>4, StoreAuthorizationIInv, AnswerHandshakeIInv, AcceptTagAIInv DEF GatewayB
<1>5. CASE QueueCommitment(s)
  BY <1>1, <1>5, QueueCommitmentIInv
<1>6. QED
  BY <1>2, <1>3, <1>4, <1>5

\* Every step keeps every session's invariant.
LEMMA NextSessionIInv ==
    ASSUME IInv, [Next]_vars, NEW t \in Sessions
    PROVE  SessionIInv(t)'
<1>1. TypeOK /\ SessionIInv(t)
  BY DEF IInv
<1>2. ASSUME NEW s \in Sessions, GatewayA(s) \/ Sac(s) \/ GatewayB(s) \/ QueueCommitment(s)
      PROVE  SessionIInv(t)'
  <2>1. Apart(s) /\ SessionIInv(s)'
    BY <1>2, SessionStep
  <2>2. CASE t = s
    BY <2>1, <2>2
  <2>3. CASE t # s
    <3>1. Undisturbed(t)
      BY <2>1, <2>3, Others
    <3>2. QED
      BY <1>1, <3>1, Frame
  <2>4. QED
    BY <2>2, <2>3
<1>3. ASSUME NEW s \in Sessions, Expire(s)
      PROVE  SessionIInv(t)'
  BY <1>1, <1>3, LostOrLateIInv DEF Expire, aVars
<1>4. ASSUME NEW m \in Requests, Refuse(m)
      PROVE  SessionIInv(t)'
  BY <1>1, <1>4, LostOrLateIInv DEF Refuse, aVars
<1>5. CASE RestartA
  BY <1>1, <1>5, RestartAIInv
<1>6. CASE RestartSac
  BY <1>1, <1>6, LostOrLateIInv DEF RestartSac, aVars
<1>7. CASE RestartB
  BY <1>1, <1>7, RestartBIInv
<1>8. CASE UNCHANGED vars
  BY <1>1, <1>8, LostOrLateIInv DEF vars, aVars
<1>9. QED
  BY <1>2, <1>3, <1>4, <1>5, <1>6, <1>7, <1>8 DEF Next

\* Gateway A's copy of Gateway B's public key is never ahead of it.
LEMMA NextDrawn == IInv /\ [Next]_vars => a_kem' <= b_kem'
<1> SUFFICES ASSUME IInv, [Next]_vars
             PROVE  a_kem' <= b_kem'
  OBVIOUS
<1>1. a_kem <= b_kem /\ a_kem \in Nat /\ b_kem \in Nat
  BY SMT DEF IInv, TypeOK, Kem
<1>2. CASE RestartA
  BY <1>1, <1>2, SMT DEF RestartA, bVars
<1>3. CASE RestartB
  BY <1>1, <1>3, SMT DEF RestartB, aVars
<1>4. CASE RestartSac \/ \E m \in Requests : Refuse(m)
  BY <1>1, <1>4 DEF RestartSac, Refuse, aVars, bVars
<1>5. CASE UNCHANGED vars
  BY <1>1, <1>5 DEF vars, aVars, bVars
<1>6. ASSUME NEW s \in Sessions, GatewayA(s) \/ Sac(s) \/ QueueCommitment(s) \/ Expire(s)
      PROVE  a_kem' <= b_kem'
  <2>1. UNCHANGED <<a_kem, b_kem>>
    BY <1>6, Zenon DEF GatewayA, Resume, StartSession, SendHandshake, SendTagA, Establish, RunFails,
       CommitmentQueued, CommitmentNotQueued, Sac, IssueAuthorization, ReplyAuthorization,
       ProvisioningFails, QueueCommitment, Expire, aVars, bVars
  <2>2. QED
    BY <1>1, <2>1
<1>7. ASSUME NEW s \in Sessions, GatewayB(s)
      PROVE  a_kem' <= b_kem'
  <2>1. UNCHANGED <<a_kem, b_kem>>
    BY <1>7, Zenon DEF GatewayB, StoreAuthorization, AnswerHandshake, AcceptTagA, aVars
  <2>2. QED
    BY <1>1, <2>1
<1>8. QED
  BY <1>2, <1>3, <1>4, <1>5, <1>6, <1>7 DEF Next

-----------------------------------------------------------------------------
(* The safety properties.                                                  *)

\* IInv is inductive and holds in every reachable state.
THEOREM Invariance == Spec => []IInv
<1>1. IInv /\ [Next]_vars => IInv'
  <2>1. IInv /\ [Next]_vars => \A s \in Sessions : SessionIInv(s)'
    BY NextSessionIInv
  <2>2. QED
    BY <2>1, NextTypeOK, NextDrawn DEF IInv
<1>2. QED
  BY <1>1, InitIInv, PTL DEF Spec

\* The variables of the three services, and every message in flight, keep their
\* types: no coroutine carries on with a key or an action it does not have.
THEOREM TypeCorrect == Spec => []TypeOK
<1>1. IInv => TypeOK
  BY DEF IInv
<1>2. QED
  BY <1>1, Invariance, PTL

\* A session of Gateway B is for an action the policy allows and Gateway A asked
\* for, under a key both derived with B's present key pair, and A had checked
\* TagB: confirm_handshake never establishes one by an earlier process's key.
THEOREM Confirmed == Spec => []KeyConfirmed
<1>1. IInv => KeyConfirmed
  BY DEF IInv, SessionIInv, KeyConfirmed
<1>2. QED
  BY <1>1, Invariance, PTL

\* One authorization makes at most one session at Gateway B, and an established
\* session is not replaced: handshake consumes what confirm_handshake builds on.
THEOREM UsedOnce == Spec => []SingleUse
<1>1. IInv => SingleUse
  BY DEF IInv, SessionIInv, SingleUse
<1>2. QED
  BY <1>1, Invariance, PTL

\* Whatever Gateway A has established or sent to the ledger, Gateway B accepted
\* under the same key and holds for the same action, unless it has restarted.
THEOREM Agreed == Spec => []Agreement
<1>1. IInv => Agreement
  BY DEF IInv, SessionIInv, AcceptedAtB, Accepted, Agreement
<1>2. QED
  BY <1>1, Invariance, PTL

-----------------------------------------------------------------------------
(* What the halves of a session rest on.                                   *)

\* Gateway A has decided by the time it holds or posts a session, a commitment is
\* in one place, and what Gateway B accepted and lost it cannot accept again.
SetupInv(s) ==
    /\ a_sessions[s] # None => ~Undecided(s)
    /\ Commitment(s) \in messages \/ Queued(s) \in messages => ~Undecided(s)
    /\ Commitment(s) \in messages => ~KnownQueued(s)
    /\ Accepted(s) /\ b_sessions[s] = None => ~MayAccept(s)

SetupIInv == \A s \in Sessions : SetupInv(s)

\* Nothing that the halves of s and its commitment are read off has changed.
AsBefore(s) ==
    /\ b_sessions'[s] = b_sessions[s]
    /\ MayAccept(s)' <=> MayAccept(s)
    /\ Established(s) \in messages' <=> Established(s) \in messages
    /\ a_sessions'[s] = None <=> a_sessions[s] = None
    /\ Undecided(s)' <=> Undecided(s)
    /\ Commitment(s) \in messages' <=> Commitment(s) \in messages
    /\ Queued(s) \in messages' => Queued(s) \in messages
    /\ KnownQueued(s)' <=> KnownQueued(s)

\* They are what they were, and so is their invariant.
Stays(s) ==
    /\ HalfAtB(s)' = HalfAtB(s)
    /\ HalfAtA(s)' = HalfAtA(s)
    /\ CommitmentOf(s)' = CommitmentOf(s)
    /\ SetupInv(s) => SetupInv(s)'

LEMMA NothingRead ==
    ASSUME NEW s, AsBefore(s)
    PROVE  Stays(s)
<1> USE DEF AsBefore
<1>1. HalfAtB(s)' = HalfAtB(s)
  BY Zenon DEF HalfAtB
<1>2. HalfAtA(s)' = HalfAtA(s)
  BY Zenon DEF HalfAtA
<1>3. CommitmentOf(s)' = CommitmentOf(s)
  BY Zenon DEF CommitmentOf
<1>4. SetupInv(s) => SetupInv(s)'
  BY Zenon DEF SetupInv, Accepted
<1>5. QED
  BY <1>1, <1>2, <1>3, <1>4 DEF Stays

\* The messages the halves are read off are there or not as before.
MessagesAsBefore(s) ==
    /\ \A action : Provision(s, action) \in messages' <=> Provision(s, action) \in messages
    /\ Established(s) \in messages' <=> Established(s) \in messages
    /\ Commitment(s) \in messages' <=> Commitment(s) \in messages
    /\ Queued(s) \in messages' <=> Queued(s) \in messages

LEMMA Unread ==
    ASSUME NEW s, MessagesAsBefore(s), b_sessions'[s] = b_sessions[s],
           authorizations'[s] = None <=> authorizations[s] = None,
           sac_runs'[s].pc = "idle" <=> sac_runs[s].pc = "idle",
           a_sessions'[s] = a_sessions[s], Undecided(s)' <=> Undecided(s)
    PROVE  AsBefore(s)
<1>1. MayAccept(s)' <=> MayAccept(s)
  BY Zenon DEF MayAccept, MessagesAsBefore
<1>2. KnownQueued(s)' <=> KnownQueued(s)
  BY Zenon DEF KnownQueued, MessagesAsBefore, Kem
<1>3. QED
  BY <1>1, <1>2, Zenon DEF AsBefore, MessagesAsBefore

\* A call that none of this is read off.
LEMMA OtherMessages ==
    ASSUME NEW m, NEW r, NEW s,
           \A n : n \in messages' <=> (n \in messages /\ n # m) \/ n = r,
           m.type \notin {"provision", "established", "commitment", "queued"},
           r.type \notin {"provision", "established", "commitment", "queued"}
    PROVE  MessagesAsBefore(s)
<1>1. \A n : n.type \in {"provision", "established", "commitment", "queued"} =>
            (n \in messages' <=> n \in messages)
  OBVIOUS
<1>2. /\ \A action : Provision(s, action).type = "provision"
      /\ Established(s).type = "established" /\ Commitment(s).type = "commitment"
      /\ Queued(s).type = "queued"
  BY Contents
<1>3. QED
  BY <1>1, <1>2, Zenon DEF MessagesAsBefore

\* A step that takes at most one message, of session s, takes no other session's.
TakesOwn(s) == \A n \in messages : n.session # s => n \in messages'

LEMMA Takes ==
    ASSUME NEW s, NEW m, m.session = s, messages \ {m} \subseteq messages'
    PROVE  TakesOwn(s)
BY Zenon DEF TakesOwn

LEMMA SessionStepTakesOwn ==
    ASSUME NEW s \in Sessions, GatewayA(s) \/ Sac(s) \/ GatewayB(s) \/ QueueCommitment(s)
    PROVE  TakesOwn(s)
<1>1. /\ \A action : /\ Authorize(s, action).session = s
                     /\ Provision(s, action).session = s
                     /\ Authorization(s, action).session = s
      /\ \A key : /\ Handshake(s, key).session = s
                  /\ TagB(s, key).session = s
                  /\ HandshakeConfirm(s, key).session = s
      /\ Provisioned(s).session = s /\ Established(s).session = s
      /\ Commitment(s).session = s /\ Queued(s).session = s
  BY Contents
<1>2. ASSUME messages \subseteq messages'
      PROVE  TakesOwn(s)
  BY <1>2 DEF TakesOwn
<1> USE DEF Exchange
<1>3. CASE GatewayA(s)
  <2>1. ASSUME NEW action \in Actions, StartSession(s, action)
        PROVE  TakesOwn(s)
    BY <1>2, <2>1 DEF StartSession, Send
  <2>2. CASE SendHandshake(s)
    <3>1. messages \ {Authorization(s, a_runs[s].action)} \subseteq messages'
      BY <2>2 DEF SendHandshake
    <3>2. QED
      BY <1>1, <3>1, Takes
  <2>3. CASE SendTagA(s)
    <3>1. messages \ {TagB(s, a_runs[s].key)} \subseteq messages'
      BY <2>3 DEF SendTagA
    <3>2. QED
      BY <1>1, <3>1, Takes
  <2>4. CASE Establish(s)
    <3>1. messages \ {Established(s)} \subseteq messages'
      BY <2>4 DEF Establish
    <3>2. QED
      BY <1>1, <3>1, Takes
  <2>5. CASE RunFails(s) \/ CommitmentNotQueued(s)
    BY <1>2, <2>5 DEF RunFails, CommitmentNotQueued
  <2>6. CASE CommitmentQueued(s)
    <3>1. messages \ {Queued(s)} \subseteq messages'
      BY <2>6 DEF CommitmentQueued
    <3>2. QED
      BY <1>1, <3>1, Takes
  <2>7. QED
    BY <1>3, <2>1, <2>2, <2>3, <2>4, <2>5, <2>6 DEF GatewayA, Resume
<1>4. CASE Sac(s)
  <2>1. ASSUME NEW action \in Actions, IssueAuthorization(s, action)
        PROVE  TakesOwn(s)
    <3>1. messages \ {Authorize(s, action)} \subseteq messages'
      BY <2>1 DEF IssueAuthorization
    <3>2. QED
      BY <1>1, <3>1, Takes
  <2>2. CASE ReplyAuthorization(s)
    <3>1. messages \ {Provisioned(s)} \subseteq messages'
      BY <2>2 DEF ReplyAuthorization
    <3>2. QED
      BY <1>1, <3>1, Takes
  <2>3. CASE ProvisioningFails(s)
    BY <1>2, <2>3 DEF ProvisioningFails
  <2>4. QED
    BY <1>4, <2>1, <2>2, <2>3 DEF Sac
<1>5. CASE GatewayB(s)
  <2>1. ASSUME NEW action \in Actions, StoreAuthorization(s, action)
        PROVE  TakesOwn(s)
    <3>1. messages \ {Provision(s, action)} \subseteq messages'
      BY <2>1 DEF StoreAuthorization
    <3>2. QED
      BY <1>1, <3>1, Takes
  <2>2. ASSUME NEW key \in Kem, AnswerHandshake(s, key)
        PROVE  TakesOwn(s)
    <3>1. messages \ {Handshake(s, key)} \subseteq messages'
      BY <2>2 DEF AnswerHandshake
    <3>2. QED
      BY <1>1, <3>1, Takes
  <2>3. ASSUME NEW key \in Kem, AcceptTagA(s, key)
        PROVE  TakesOwn(s)
    <3>1. messages \ {HandshakeConfirm(s, key)} \subseteq messages'
      BY <2>3 DEF AcceptTagA
    <3>2. QED
      BY <1>1, <3>1, Takes
  <2>4. QED
    BY <1>5, <2>1, <2>2, <2>3 DEF GatewayB
<1>6. CASE QueueCommitment(s)
  <2>1. messages \ {Commitment(s)} \subseteq messages'
    BY <1>6 DEF QueueCommitment
  <2>2. QED
    BY <1>1, <2>1, Takes
<1>7. QED
  BY <1>3, <1>4, <1>5, <1>6

LEMMA OthersStay ==
    ASSUME NEW s \in Sessions, Apart(s), TakesOwn(s), NEW t \in Sessions \ {s}
    PROVE  AsBefore(t)
<1>1. \A m : m.session = t => (m \in messages' <=> m \in messages)
  BY DEF Apart, TakesOwn
<1>2. MessagesAsBefore(t)
  <2>1. /\ \A action : Provision(t, action).session = t
        /\ Established(t).session = t /\ Commitment(t).session = t /\ Queued(t).session = t
    BY Contents, Zenon
  <2>2. QED
    BY <1>1, <2>1, Zenon DEF MessagesAsBefore
<1>3. /\ a_runs'[t] = a_runs[t] /\ a_sessions'[t] = a_sessions[t] /\ sac_runs'[t] = sac_runs[t]
      /\ authorizations'[t] = authorizations[t] /\ b_sessions'[t] = b_sessions[t]
  BY DEF Apart
<1>4. Undecided(t)' <=> Undecided(t)
  BY <1>3 DEF Undecided
<1>5. QED
  BY <1>2, <1>3, <1>4, Unread

-----------------------------------------------------------------------------
(* Steps that change nothing the halves are read off.                      *)

\* A session's record is not None, queued or not.
LEMMA QueuedIsSession == None \notin [key: Kem, queued: {TRUE}]
<1>1. [key: Kem, queued: {TRUE}] \subseteq ASession
  BY Zenon DEF ASession
<1>2. QED
  BY <1>1, NoneAssumption

\* Gateway A's and the SAC's coroutines up to the confirmation.
LEMMA SetupGoesOn ==
    ASSUME TypeOK, NEW s \in Sessions,
           \/ \E action \in Actions : StartSession(s, action)
           \/ SendHandshake(s) \/ SendTagA(s)
           \/ CommitmentNotQueued(s)
           \/ ReplyAuthorization(s) \/ ProvisioningFails(s)
    PROVE  AsBefore(s)
<1> USE DEF aVars, bVars, Exchange
<1>1. ASSUME NEW action \in Actions, StartSession(s, action)
      PROVE  AsBefore(s)
  <2>1. MessagesAsBefore(s)
    <3>1. Authorize(s, action).type = "authorize"
      BY Contents
    <3>2. \A n : n \in messages' <=> (n \in messages /\ n # Authorize(s, action)) \/ n = Authorize(s, action)
      BY <1>1, Zenon DEF StartSession, Send
    <3>3. QED
      BY <3>1, <3>2, OtherMessages
  <2>2. a_runs'[s] = [pc |-> "authorizing", action |-> action, key |-> None]
    BY <1>1 DEF StartSession, TypeOK
  <2>3. Undecided(s) /\ Undecided(s)'
    BY <1>1, <2>2 DEF Undecided, Waiting, StartSession
  <2>4. QED
    BY <1>1, <2>1, <2>3, Unread DEF StartSession
<1>2. CASE SendHandshake(s)
  <2>1. MessagesAsBefore(s)
    <3>1. /\ Authorization(s, a_runs[s].action).type = "authorization"
          /\ Handshake(s, a_kem).type = "handshake"
      BY Contents
    <3>2. \A n : n \in messages' <=> \/ n \in messages /\ n # Authorization(s, a_runs[s].action)
                                     \/ n = Handshake(s, a_kem)
      BY <1>2, Zenon DEF SendHandshake
    <3>3. QED
      BY <3>1, <3>2, OtherMessages
  <2>2. a_runs'[s] = [pc |-> "handshaking", action |-> a_runs[s].action, key |-> a_kem]
    BY <1>2 DEF SendHandshake, TypeOK
  <2>3. Undecided(s) /\ Undecided(s)'
    BY <1>2, <2>2 DEF Undecided, Waiting, SendHandshake
  <2>4. QED
    BY <1>2, <2>1, <2>3, Unread DEF SendHandshake
<1>3. CASE SendTagA(s)
  <2>1. MessagesAsBefore(s)
    <3>1. /\ TagB(s, a_runs[s].key).type = "tag-b"
          /\ HandshakeConfirm(s, a_runs[s].key).type = "handshake-confirm"
      BY Contents
    <3>2. \A n : n \in messages' <=> \/ n \in messages /\ n # TagB(s, a_runs[s].key)
                                     \/ n = HandshakeConfirm(s, a_runs[s].key)
      BY <1>3, Zenon DEF SendTagA
    <3>3. QED
      BY <3>1, <3>2, OtherMessages
  <2>2. a_runs'[s].pc = "confirming"
    BY <1>3, SMT DEF SendTagA, TypeOK, Run
  <2>3. Undecided(s) /\ Undecided(s)'
    BY <1>3, <2>2 DEF Undecided, Waiting, SendTagA
  <2>4. QED
    BY <1>3, <2>1, <2>3, Unread DEF SendTagA
<1>4. CASE CommitmentNotQueued(s)
  <2>1. a_runs'[s].pc = "done"
    BY <1>4, SMT DEF CommitmentNotQueued, TypeOK, Run
  <2>2. ~Undecided(s) /\ ~Undecided(s)'
    BY <1>4, <2>1 DEF Undecided, Waiting, CommitmentNotQueued
  <2>3. QED
    BY <1>4, <2>2, Unread DEF CommitmentNotQueued, MessagesAsBefore
<1>5. CASE ReplyAuthorization(s)
  <2>1. MessagesAsBefore(s)
    <3>1. /\ Provisioned(s).type = "provisioned"
          /\ Authorization(s, sac_runs[s].action).type = "authorization"
      BY Contents
    <3>2. \A n : n \in messages' <=> \/ n \in messages /\ n # Provisioned(s)
                                     \/ n = Authorization(s, sac_runs[s].action)
      BY <1>5, Zenon DEF ReplyAuthorization
    <3>3. QED
      BY <3>1, <3>2, OtherMessages
  <2>2. sac_runs[s].pc # "idle" /\ sac_runs'[s].pc # "idle"
    BY <1>5, SMT DEF ReplyAuthorization, TypeOK, SacRun
  <2>3. Undecided(s)' <=> Undecided(s)
    BY <1>5 DEF Undecided, ReplyAuthorization
  <2>4. QED
    BY <1>5, <2>1, <2>2, <2>3, Unread DEF ReplyAuthorization
<1>6. CASE ProvisioningFails(s)
  <2>1. sac_runs[s].pc # "idle" /\ sac_runs'[s].pc # "idle"
    BY <1>6, SMT DEF ProvisioningFails, TypeOK, SacRun
  <2>2. Undecided(s)' <=> Undecided(s)
    BY <1>6 DEF Undecided, ProvisioningFails
  <2>3. QED
    BY <1>6, <2>1, <2>2, Unread DEF ProvisioningFails, MessagesAsBefore
<1>7. QED
  BY <1>1, <1>2, <1>3, <1>4, <1>5, <1>6

\* An authorization on its way to Gateway B: B may accept the session before and after.
LEMMA AuthorizationMoves ==
    ASSUME TypeOK, NEW s \in Sessions, SessionIInv(s), NEW action \in Actions,
           IssueAuthorization(s, action) \/ StoreAuthorization(s, action)
    PROVE  AsBefore(s)
<1> USE DEF aVars, bVars, Exchange
<1>1. /\ Authorize(s, action).type = "authorize" /\ Provision(s, action).type = "provision"
      /\ Provisioned(s).type = "provisioned"
      /\ Established(s).type = "established" /\ Commitment(s).type = "commitment"
      /\ Queued(s).type = "queued"
  BY Contents
<1>2. \A n : n.type \in {"established", "commitment", "queued"} =>
            (n \in messages' <=> n \in messages)
  BY <1>1, Zenon DEF IssueAuthorization, StoreAuthorization
<1>3. /\ Established(s) \in messages' <=> Established(s) \in messages
      /\ Commitment(s) \in messages' <=> Commitment(s) \in messages
      /\ Queued(s) \in messages' <=> Queued(s) \in messages
  BY <1>1, <1>2
<1>4. UNCHANGED <<a_runs, a_sessions, b_sessions>>
  BY DEF IssueAuthorization, StoreAuthorization
<1>5. MayAccept(s)
  <2>1. CASE IssueAuthorization(s, action)
    BY <2>1, Zenon DEF IssueAuthorization, SessionIInv, IssuedAsAsked, MayAccept
  <2>2. CASE StoreAuthorization(s, action)
    BY <2>2, Zenon DEF StoreAuthorization, MayAccept
  <2>3. QED
    BY <2>1, <2>2
<1>6. MayAccept(s)'
  <2>1. CASE IssueAuthorization(s, action)
    <3>1. Provision(s, action) \in messages'
      BY <2>1, Zenon DEF IssueAuthorization
    <3>2. QED
      BY <3>1, Zenon DEF MayAccept
  <2>2. CASE StoreAuthorization(s, action)
    <3>1. authorizations'[s] = [action |-> action, used |-> FALSE]
      BY <2>2 DEF StoreAuthorization, TypeOK
    <3>2. [action |-> action, used |-> FALSE] \in StoredAuthorization
      BY DEF StoredAuthorization
    <3>3. authorizations'[s] # None
      BY <3>1, <3>2, NoneAssumption
    <3>4. QED
      BY <3>3, Zenon DEF MayAccept
  <2>3. QED
    BY <2>1, <2>2
<1>7. (Undecided(s)' <=> Undecided(s)) /\ (KnownQueued(s)' <=> KnownQueued(s))
  BY <1>3, <1>4 DEF Undecided, KnownQueued, Kem
<1>8. QED
  BY <1>3, <1>4, <1>5, <1>6, <1>7 DEF AsBefore

\* A consumed authorization may still lead to the session it was consumed for.
LEMMA AnswerHandshakeReads ==
    ASSUME TypeOK, NEW s \in Sessions, NEW key \in Kem, AnswerHandshake(s, key)
    PROVE  AsBefore(s)
<1> USE DEF aVars, Exchange
<1>1. MessagesAsBefore(s)
  <2>1. Handshake(s, key).type = "handshake" /\ TagB(s, b_kem).type = "tag-b"
    BY Contents
  <2>2. \A n : n \in messages' <=> (n \in messages /\ n # Handshake(s, key)) \/ n = TagB(s, b_kem)
    BY Zenon DEF AnswerHandshake
  <2>3. QED
    BY <2>1, <2>2, OtherMessages
<1>2. authorizations[s] \in StoredAuthorization
  BY DEF AnswerHandshake, Unused, StoredAuthorization
<1>3. authorizations'[s] \in StoredAuthorization
  BY <1>2 DEF AnswerHandshake, StoredAuthorization, TypeOK
<1>4. authorizations[s] # None /\ authorizations'[s] # None
  BY <1>2, <1>3, NoneAssumption
<1>5. Undecided(s)' <=> Undecided(s)
  BY DEF AnswerHandshake, Undecided
<1>6. QED
  BY <1>1, <1>4, <1>5, Unread DEF AnswerHandshake

\* The ledger's answer is known to be on its way, and then to have arrived.
LEMMA CommitmentQueuedReads ==
    ASSUME TypeOK, NEW s \in Sessions, SessionIInv(s), CommitmentQueued(s)
    PROVE  AsBefore(s)
<1> USE DEF bVars
<1>1. /\ \A action : Provision(s, action).type = "provision"
      /\ Established(s).type = "established" /\ Commitment(s).type = "commitment"
      /\ Queued(s).type = "queued"
  BY Contents
<1>2. messages' = messages \ {Queued(s)} /\ Queued(s) \in messages
  BY DEF CommitmentQueued
<1>3. /\ \A action : Provision(s, action) \in messages' <=> Provision(s, action) \in messages
      /\ Established(s) \in messages' <=> Established(s) \in messages
      /\ Commitment(s) \in messages' <=> Commitment(s) \in messages
      /\ Queued(s) \in messages' => Queued(s) \in messages
  BY <1>1, <1>2, Zenon
<1>4. a_sessions[s] \in ASession
  BY DEF CommitmentQueued, SessionIInv, RunHasKey, TypeOK
<1>5. a_sessions'[s] \in [key: Kem, queued: {TRUE}]
  BY <1>4 DEF CommitmentQueued, TypeOK, ASession
<1>6. a_sessions[s] # None /\ a_sessions'[s] # None
  BY <1>4, <1>5, QueuedIsSession, NoneAssumption
<1>7. KnownQueued(s) /\ KnownQueued(s)'
  BY <1>2, <1>5, Zenon DEF KnownQueued, Kem
<1>8. ~Undecided(s) /\ ~Undecided(s)'
  <2>1. a_runs'[s].pc = "done"
    BY SMT DEF CommitmentQueued, TypeOK, Run
  <2>2. QED
    BY <2>1 DEF CommitmentQueued, Undecided, Waiting
<1>9. UNCHANGED <<sac_runs, authorizations, b_sessions>>
  BY DEF CommitmentQueued
<1>10. MayAccept(s)' <=> MayAccept(s)
  BY <1>3, <1>9, Zenon DEF MayAccept
<1>11. QED
  BY <1>3, <1>6, <1>7, <1>8, <1>9, <1>10, Zenon DEF AsBefore

\* Time passes, or the SAC restarts.
LEMMA SetupUnmoved ==
    ASSUME TypeOK, NEW s \in Sessions,
           UNCHANGED <<messages, a_runs, a_sessions, authorizations, b_sessions>>,
           sac_runs' = sac_runs \/ RestartSac
    PROVE  AsBefore(s)
<1>1. sac_runs'[s].pc = "idle" <=> sac_runs[s].pc = "idle"
  <2>1. CASE sac_runs' = sac_runs
    BY <2>1
  <2>2. CASE RestartSac
    <3>1. \/ sac_runs'[s] = sac_runs[s]
          \/ sac_runs[s].pc = "provisioning" /\ sac_runs'[s] = [sac_runs[s] EXCEPT !.pc = "failed"]
      BY <2>2, Zenon DEF RestartSac
    <3>2. sac_runs[s] \in SacRun
      BY DEF TypeOK
    <3>3. QED
      BY <3>1, <3>2, SMT DEF SacRun
  <2>3. QED
    BY <2>1, <2>2
<1>2. Undecided(s)' <=> Undecided(s)
  BY DEF Undecided
<1>3. QED
  BY <1>1, <1>2, Unread DEF MessagesAsBefore

-----------------------------------------------------------------------------
(* Steps of the abstract specification.                                    *)

SetupStep == [Setup!Next]_(Setup!vars)

\* What a step makes of the halves of s and of its commitment.
Becomes(s, b, a, c) == HalfAtB(s)' = b /\ HalfAtA(s)' = a /\ CommitmentOf(s)' = c

\* The halves of s move as one step of SessionSetup moves them, or not at all.
Moves(s) ==
    \/ Becomes(s, HalfAtB(s), HalfAtA(s), CommitmentOf(s))
    \/ HalfAtB(s) = "open" /\ HalfAtA(s) # "held" /\ Becomes(s, "held", HalfAtA(s), CommitmentOf(s))
    \/ /\ HalfAtA(s) = "open" /\ CommitmentOf(s) = "none"
       /\ \/ HalfAtB(s) = "held" /\ Becomes(s, "held", "held", "posted")
          \/ HalfAtB(s) = "vouched" /\ Becomes(s, "over", "held", "posted")
    \/ HalfAtB(s) = "open" /\ Becomes(s, "over", HalfAtA(s), CommitmentOf(s))
    \/ HalfAtA(s) = "open" /\ Becomes(s, HalfAtB(s), "over", CommitmentOf(s))
    \/ CommitmentOf(s) = "posted" /\ Becomes(s, HalfAtB(s), HalfAtA(s), "queued")
    \/ CommitmentOf(s) = "posted" /\ Becomes(s, HalfAtB(s), HalfAtA(s), "none")

LEMMA StaysMoves ==
    ASSUME NEW s, SetupInv(s), Stays(s)
    PROVE  SetupInv(s)' /\ Moves(s)
BY DEF Stays, Moves, Becomes

\* A step that moves no session's halves is none of SessionSetup's ...
LEMMA NoneMoves ==
    ASSUME \A t \in Sessions : Stays(t)
    PROVE  SetupStep
BY DEF Setup!vars, Stays, SetupStep

\* ... and one that moves the halves of one session is a step of that session.
LEMMA OneMoves ==
    ASSUME NEW s \in Sessions, \A t \in Sessions \ {s} : Stays(t), Moves(s)
    PROVE  SetupStep
<1> DEFINE B == [t \in Sessions |-> HalfAtB(t)]
           A == [t \in Sessions |-> HalfAtA(t)]
           C == [t \in Sessions |-> CommitmentOf(t)]
<1>1. ASSUME NEW b, NEW a, NEW c, Becomes(s, b, a, c)
      PROVE  /\ B' = [B EXCEPT ![s] = b] /\ (b = HalfAtB(s) => B' = B)
             /\ A' = [A EXCEPT ![s] = a] /\ (a = HalfAtA(s) => A' = A)
             /\ C' = [C EXCEPT ![s] = c] /\ (c = CommitmentOf(s) => C' = C)
  BY <1>1 DEF Becomes, Stays
<1>2. B[s] = HalfAtB(s) /\ A[s] = HalfAtA(s) /\ C[s] = CommitmentOf(s)
  OBVIOUS
<1> HIDE DEF B, A, C
<1>3. CASE Becomes(s, HalfAtB(s), HalfAtA(s), CommitmentOf(s))
  BY <1>1, <1>3 DEF SetupStep, Setup!vars, A, B, C
<1>4. CASE /\ HalfAtB(s) = "open" /\ HalfAtA(s) # "held"
           /\ Becomes(s, "held", HalfAtA(s), CommitmentOf(s))
  <2>1. Setup!Accept(s)
    BY <1>1, <1>2, <1>4 DEF Setup!Accept, A, B, C
  <2>2. QED
    BY <2>1 DEF SetupStep, Setup!Next
<1>5. CASE /\ HalfAtA(s) = "open" /\ CommitmentOf(s) = "none"
           /\ \/ HalfAtB(s) = "held" /\ Becomes(s, "held", "held", "posted")
              \/ HalfAtB(s) = "vouched" /\ Becomes(s, "over", "held", "posted")
  <2>1. Setup!Hold(s)
    BY <1>1, <1>2, <1>5 DEF Setup!Hold, A, B, C
  <2>2. QED
    BY <2>1 DEF SetupStep, Setup!Next
<1>6. CASE HalfAtB(s) = "open" /\ Becomes(s, "over", HalfAtA(s), CommitmentOf(s))
  <2>1. Setup!GiveUpAtB(s)
    BY <1>1, <1>2, <1>6 DEF Setup!GiveUpAtB, A, B, C
  <2>2. QED
    BY <2>1 DEF SetupStep, Setup!Next
<1>7. CASE HalfAtA(s) = "open" /\ Becomes(s, HalfAtB(s), "over", CommitmentOf(s))
  <2>1. Setup!GiveUpAtA(s)
    BY <1>1, <1>2, <1>7 DEF Setup!GiveUpAtA, A, B, C
  <2>2. QED
    BY <2>1 DEF SetupStep, Setup!Next
<1>8. CASE CommitmentOf(s) = "posted" /\ Becomes(s, HalfAtB(s), HalfAtA(s), "queued")
  <2>1. Setup!Queue(s)
    BY <1>1, <1>2, <1>8 DEF Setup!Queue, A, B, C
  <2>2. QED
    BY <2>1 DEF SetupStep, Setup!Next
<1>9. CASE CommitmentOf(s) = "posted" /\ Becomes(s, HalfAtB(s), HalfAtA(s), "none")
  <2>1. Setup!Lose(s)
    BY <1>1, <1>2, <1>9 DEF Setup!Lose, A, B, C
  <2>2. QED
    BY <2>1 DEF SetupStep, Setup!Next
<1>10. QED
  BY <1>3, <1>4, <1>5, <1>6, <1>7, <1>8, <1>9, Zenon DEF Moves

-----------------------------------------------------------------------------
(* The steps that move the halves of a session.                            *)

\* What the halves are when Gateway B may still accept, and when it never will again.
LEMMA MayStillAccept ==
    ASSUME NEW s \in Sessions, SessionIInv(s), SetupInv(s),
           MayAccept(s), authorizations[s] = None \/ b_sessions[s] = None
    PROVE  HalfAtB(s) = "open" /\ b_sessions[s] = None /\ ~Accepted(s)
<1>1. b_sessions[s] = None
  BY UsedIsAuthorization, Zenon DEF SessionIInv, UsedOnceBy
<1>2. ~Accepted(s)
  BY <1>1, Zenon DEF SetupInv
<1>3. QED
  BY <1>1, <1>2 DEF HalfAtB

\* TagA is accepted: B gains its half, which A cannot hold yet.
LEMMA AcceptTagAMoves ==
    ASSUME TypeOK, NEW s \in Sessions, SessionIInv(s), SetupInv(s), NEW key \in Kem,
           AcceptTagA(s, key)
    PROVE  SetupInv(s)' /\ Moves(s)
<1> USE DEF aVars
<1>1. key # None
  BY NoneAssumption, SMT DEF Kem
<1>2. authorizations[s] # None /\ b_sessions[s] = None
  BY <1>1, Zenon DEF AcceptTagA, SessionIInv, UsedOnceBy
<1>3. MayAccept(s)
  BY <1>2, Zenon DEF MayAccept
<1>4. HalfAtB(s) = "open" /\ ~Accepted(s)
  BY <1>2, <1>3, MayStillAccept
<1>5. HalfAtA(s) # "held"
  BY <1>4 DEF HalfAtA, Accepted
<1>6. b_sessions'[s] # None
  <2>1. b_sessions'[s] = authorizations[s].action
    BY DEF AcceptTagA, TypeOK
  <2>2. authorizations[s].action \in Actions
    BY <1>2 DEF TypeOK, StoredAuthorization
  <2>3. QED
    BY <2>1, <2>2, NoneAssumption
<1>7. /\ Commitment(s) \in messages' <=> Commitment(s) \in messages
      /\ Queued(s) \in messages' <=> Queued(s) \in messages
  <2>1. /\ Commitment(s).type = "commitment" /\ Queued(s).type = "queued"
        /\ HandshakeConfirm(s, key).type = "handshake-confirm"
        /\ Established(s).type = "established"
    BY Contents
  <2>2. QED
    BY <2>1, Zenon DEF AcceptTagA, Exchange
<1>8. UNCHANGED <<a_runs, a_sessions>>
  BY DEF AcceptTagA
<1>9. (KnownQueued(s)' <=> KnownQueued(s)) /\ (Undecided(s)' <=> Undecided(s))
  BY <1>7, <1>8 DEF KnownQueued, Undecided, Kem
<1>10. Becomes(s, "held", HalfAtA(s), CommitmentOf(s))
  BY <1>6, <1>7, <1>8, <1>9 DEF Becomes, HalfAtB, HalfAtA, CommitmentOf
<1>11. SetupInv(s)'
  BY <1>6, <1>7, <1>8, <1>9 DEF SetupInv
<1>12. QED
  BY <1>4, <1>5, <1>10, <1>11 DEF Moves

\* A takes B's word, which is used up, and posts the commitment, the first one.
LEMMA EstablishMoves ==
    ASSUME TypeOK, NEW s \in Sessions, SessionIInv(s), SetupInv(s), Establish(s)
    PROVE  SetupInv(s)' /\ Moves(s)
<1> USE DEF bVars
<1>1. a_runs[s].pc = "confirming" /\ a_runs'[s].pc = "committing"
  BY SMT DEF Establish, TypeOK, Run
<1>2. Undecided(s) /\ ~Undecided(s)'
  BY <1>1 DEF Undecided, Waiting
<1>3. a_sessions[s] = None /\ Commitment(s) \notin messages /\ Queued(s) \notin messages
  BY <1>2 DEF SetupInv
<1>4. ~KnownQueued(s)
  BY <1>3, QueuedIsSession, Zenon DEF KnownQueued, Kem
<1>5. HalfAtA(s) = "open" /\ CommitmentOf(s) = "none"
  BY <1>2, <1>3, <1>4 DEF HalfAtA, CommitmentOf
<1>6. HalfAtB(s) \in {"held", "vouched"}
  <2>1. Accepted(s) /\ Established(s) \in messages
    BY DEF Establish, Exchange, Accepted
  <2>2. QED
    BY <2>1 DEF HalfAtB, SetupInv
<1>7. /\ \A action : Provision(s, action) \in messages' <=> Provision(s, action) \in messages
      /\ Established(s) \notin messages'
      /\ Queued(s) \notin messages'
      /\ Commitment(s) \in messages'
  <2>1. /\ \A action : Provision(s, action).type = "provision"
        /\ Established(s).type = "established" /\ Commitment(s).type = "commitment"
        /\ Queued(s).type = "queued"
    BY Contents
  <2>2. \A n : n \in messages' <=> (n \in messages /\ n # Established(s)) \/ n = Commitment(s)
    BY Zenon DEF Establish, Exchange
  <2>3. QED
    BY <1>3, <2>1, <2>2, Zenon
<1>8. UNCHANGED <<sac_runs, authorizations, b_sessions>>
  BY DEF Establish
<1>9. MayAccept(s)' <=> MayAccept(s)
  BY <1>7, <1>8, Zenon DEF MayAccept
<1>10. a_sessions'[s] = [key |-> a_runs[s].key, queued |-> FALSE]
  BY DEF Establish, TypeOK
<1>11. ~KnownQueued(s)'
  BY <1>7, <1>10, SMT DEF KnownQueued, Kem
<1>12. a_sessions'[s] # None
  <2>1. a_runs[s].key \in Kem
    BY <1>1, SMT DEF SessionIInv, RunHasKey, TypeOK, Run
  <2>2. [key |-> a_runs[s].key, queued |-> FALSE] \in ASession
    BY <2>1 DEF ASession
  <2>3. QED
    BY <1>10, <2>2, NoneAssumption
<1>13. HalfAtA(s)' = "held" /\ CommitmentOf(s)' = "posted"
  BY <1>7, <1>11, <1>12 DEF HalfAtA, CommitmentOf
<1>14. HalfAtB(s)' = IF HalfAtB(s) = "held" THEN "held" ELSE "over"
  BY <1>6, <1>7, <1>8, <1>9 DEF HalfAtB
<1>15. Moves(s)
  BY <1>5, <1>6, <1>13, <1>14 DEF Moves, Becomes
<1>16. SetupInv(s)'
  <2>1. Accepted(s)
    BY DEF Establish, Exchange, Accepted
  <2>2. QED
    BY <1>2, <1>8, <1>9, <1>11, <2>1 DEF SetupInv
<1>17. QED
  BY <1>15, <1>16

\* The request ends in an error before A holds the session.
LEMMA RunFailsMoves ==
    ASSUME TypeOK, NEW s \in Sessions, SetupInv(s), RunFails(s)
    PROVE  SetupInv(s)' /\ Moves(s)
<1> USE DEF bVars
<1>1. a_runs'[s].pc = "failed"
  BY SMT DEF RunFails, TypeOK, Run
<1>2. Undecided(s) /\ ~Undecided(s)'
  BY <1>1 DEF Undecided, Waiting, RunFails
<1>3. UNCHANGED <<messages, sac_runs, a_sessions, authorizations, b_sessions>>
  BY DEF RunFails
<1>4. a_sessions[s] = None
  BY <1>2 DEF SetupInv
<1>5. HalfAtA(s) = "open" /\ HalfAtA(s)' = "over"
  BY <1>2, <1>3, <1>4 DEF HalfAtA
<1>6. (MayAccept(s)' <=> MayAccept(s)) /\ (KnownQueued(s)' <=> KnownQueued(s))
  BY <1>3, Zenon DEF MayAccept, KnownQueued, Kem
<1>7. HalfAtB(s)' = HalfAtB(s) /\ CommitmentOf(s)' = CommitmentOf(s)
  BY <1>3, <1>6 DEF HalfAtB, CommitmentOf
<1>8. SetupInv(s)'
  BY <1>2, <1>3, <1>6 DEF SetupInv, Accepted
<1>9. QED
  BY <1>5, <1>7, <1>8 DEF Moves, Becomes

\* The ledger queues a commitment it was not asked to queue before.
LEMMA QueueCommitmentMoves ==
    ASSUME NEW s \in Sessions, SetupInv(s), QueueCommitment(s)
    PROVE  SetupInv(s)' /\ Moves(s)
<1> USE DEF aVars, bVars
<1>1. /\ \A action : Provision(s, action) \in messages' <=> Provision(s, action) \in messages
      /\ Established(s) \in messages' <=> Established(s) \in messages
      /\ Commitment(s) \in messages /\ Commitment(s) \notin messages'
      /\ Queued(s) \in messages'
  <2>1. /\ \A action : Provision(s, action).type = "provision"
        /\ Established(s).type = "established" /\ Commitment(s).type = "commitment"
        /\ Queued(s).type = "queued"
    BY Contents
  <2>2. QED
    BY <2>1, Zenon DEF QueueCommitment, Exchange
<1>2. UNCHANGED <<a_runs, a_sessions, sac_runs, authorizations, b_sessions>>
  BY DEF QueueCommitment
<1>3. ~KnownQueued(s) /\ KnownQueued(s)'
  BY <1>1 DEF SetupInv, KnownQueued
<1>4. (MayAccept(s)' <=> MayAccept(s)) /\ (Undecided(s)' <=> Undecided(s))
  BY <1>1, <1>2, Zenon DEF MayAccept, Undecided
<1>5. CommitmentOf(s) = "posted" /\ CommitmentOf(s)' = "queued"
  BY <1>1, <1>3 DEF CommitmentOf
<1>6. HalfAtB(s)' = HalfAtB(s) /\ HalfAtA(s)' = HalfAtA(s)
  BY <1>1, <1>2, <1>4 DEF HalfAtB, HalfAtA
<1>7. SetupInv(s)'
  BY <1>1, <1>2, <1>4 DEF SetupInv, Accepted
<1>8. QED
  BY <1>5, <1>6, <1>7 DEF Moves, Becomes

\* A service's step about a session, for that session.
LEMMA OwnMoves ==
    ASSUME IInv, NEW s \in Sessions, SetupInv(s),
           GatewayA(s) \/ Sac(s) \/ GatewayB(s) \/ QueueCommitment(s)
    PROVE  SetupInv(s)' /\ Moves(s)
<1>1. TypeOK /\ SessionIInv(s)
  BY DEF IInv
<1>2. CASE AsBefore(s)
  BY <1>2, NothingRead, StaysMoves
<1>3. CASE GatewayA(s)
  BY <1>1, <1>2, <1>3, SetupGoesOn, EstablishMoves, RunFailsMoves, CommitmentQueuedReads
     DEF GatewayA, Resume
<1>4. CASE Sac(s)
  BY <1>1, <1>2, <1>4, SetupGoesOn, AuthorizationMoves DEF Sac
<1>5. CASE GatewayB(s)
  BY <1>1, <1>2, <1>5, AuthorizationMoves, AnswerHandshakeReads, AcceptTagAMoves DEF GatewayB
<1>6. QED
  BY <1>3, <1>4, <1>5, QueueCommitmentMoves

\* A lost request can end what Gateway B may accept, or take the commitment with it.
LEMMA RefuseMoves ==
    ASSUME TypeOK, NEW s \in Sessions, SessionIInv(s), SetupInv(s),
           NEW m \in Requests, Refuse(m)
    PROVE  SetupInv(s)' /\ Moves(s)
<1> USE DEF aVars, bVars
<1>1. messages' = messages \ {m}
  BY DEF Refuse
<1>2. UNCHANGED <<a_runs, a_sessions, sac_runs, authorizations, b_sessions>>
  BY DEF Refuse
<1>3. m.type \in {"authorize", "provision", "handshake", "handshake-confirm", "commitment"}
  BY DEF Requests
<1>4. /\ \A action : Provision(s, action).type = "provision"
      /\ Established(s).type = "established" /\ Commitment(s).type = "commitment"
      /\ Queued(s).type = "queued"
  BY Contents
<1>5. /\ Established(s) \in messages' <=> Established(s) \in messages
      /\ Queued(s) \in messages' <=> Queued(s) \in messages
  BY <1>1, <1>3, <1>4, Zenon
<1>6. Undecided(s)' <=> Undecided(s)
  BY <1>2 DEF Undecided
<1>7. KnownQueued(s)' <=> KnownQueued(s)
  BY <1>2, <1>5 DEF KnownQueued, Kem
<1>8. HalfAtA(s)' = HalfAtA(s)
  BY <1>2, <1>6 DEF HalfAtA
<1>9. CASE m = Commitment(s)
  <2>1. \A action : Provision(s, action) \in messages' <=> Provision(s, action) \in messages
    BY <1>1, <1>4, <1>9, Zenon
  <2>2. MayAccept(s)' <=> MayAccept(s)
    BY <1>2, <2>1, Zenon DEF MayAccept
  <2>3. Commitment(s) \in messages /\ Commitment(s) \notin messages'
    BY <1>1, <1>9 DEF Requests
  <2>4. CommitmentOf(s) = "posted" /\ CommitmentOf(s)' = "none"
    BY <1>7, <2>3 DEF CommitmentOf, SetupInv
  <2>5. HalfAtB(s)' = HalfAtB(s)
    BY <1>2, <1>5, <2>2 DEF HalfAtB
  <2>6. SetupInv(s)'
    BY <1>2, <1>5, <1>6, <2>2, <2>3 DEF SetupInv, Accepted
  <2>7. QED
    BY <1>8, <2>4, <2>5, <2>6 DEF Moves, Becomes
<1>10. CASE m # Commitment(s)
  <2>1. Commitment(s) \in messages' <=> Commitment(s) \in messages
    BY <1>1, <1>10
  <2>2. CommitmentOf(s)' = CommitmentOf(s)
    BY <1>7, <2>1 DEF CommitmentOf
  <2>3. MayAccept(s)' => MayAccept(s)
    BY <1>1, <1>2, Zenon DEF MayAccept
  <2>4. SetupInv(s)'
    BY <1>2, <1>5, <1>6, <1>7, <2>1, <2>3 DEF SetupInv, Accepted
  <2>5. CASE MayAccept(s)'
    BY <1>2, <1>5, <1>8, <2>2, <2>3, <2>4, <2>5 DEF HalfAtB, Moves, Becomes
  <2>6. CASE ~MayAccept(s)
    BY <1>2, <1>5, <1>8, <2>2, <2>3, <2>4, <2>6 DEF HalfAtB, Moves, Becomes
  <2>7. CASE MayAccept(s) /\ ~MayAccept(s)'
    <3>1. \E action \in Actions : Provision(s, action) \in messages
      BY <1>2, <2>7, Zenon DEF MayAccept
    <3>2. authorizations[s] = None
      BY <3>1, Zenon DEF SessionIInv, ProvisionedAsIssued
    <3>3. HalfAtB(s) = "open" /\ b_sessions[s] = None /\ ~Accepted(s)
      BY <2>7, <3>2, MayStillAccept
    <3>4. HalfAtB(s)' = "over"
      BY <1>2, <1>5, <2>7, <3>3 DEF HalfAtB, Accepted
    <3>5. QED
      BY <1>8, <2>2, <2>4, <3>3, <3>4 DEF Moves, Becomes
  <2>8. QED
    BY <2>5, <2>6, <2>7
<1>11. QED
  BY <1>9, <1>10

\* It is a request of one session.
LEMMA RefuseOthers ==
    ASSUME NEW m \in Requests, Refuse(m), NEW t \in Sessions, t # m.session
    PROVE  AsBefore(t)
<1>1. /\ \A action : Provision(t, action).session = t
      /\ Established(t).session = t /\ Commitment(t).session = t /\ Queued(t).session = t
  BY Contents
<1>2. MessagesAsBefore(t)
  BY <1>1, Zenon DEF Refuse, MessagesAsBefore
<1>3. UNCHANGED <<a_runs, a_sessions, sac_runs, authorizations, b_sessions>>
  BY DEF Refuse, aVars, bVars
<1>4. Undecided(t)' <=> Undecided(t)
  BY <1>3 DEF Undecided
<1>5. QED
  BY <1>2, <1>3, <1>4, Unread

\* What a restart of Gateway A makes of a session.
LEMMA RestartASession ==
    ASSUME TypeOK, NEW s \in Sessions, SetupInv(s), RestartA
    PROVE  /\ SetupInv(s)'
           /\ HalfAtA(s)' \in {"open", "over"}
           /\ HalfAtA(s)' = "open" => HalfAtA(s) = "open"
           /\ HalfAtB(s)' = IF HalfAtB(s) = "vouched" THEN "over" ELSE HalfAtB(s)
           /\ CommitmentOf(s)' = IF CommitmentOf(s) = "queued" THEN "none" ELSE CommitmentOf(s)
<1> USE DEF bVars
<1>1. a_sessions'[s] = None /\ UNCHANGED <<sac_runs, authorizations, b_sessions>>
  BY DEF RestartA, Nothing
<1>2. /\ \A action : Provision(s, action) \in messages' <=> Provision(s, action) \in messages
      /\ Commitment(s) \in messages' <=> Commitment(s) \in messages
      /\ Established(s) \notin messages' /\ Queued(s) \notin messages'
  <2>1. \A n \in ToA : n.type \in {"authorization", "tag-b", "established", "queued"}
    BY SMT DEF ToA
  <2>2. (\A action : Provision(s, action).type = "provision") /\ Commitment(s).type = "commitment"
    BY Contents
  <2>3. Established(s) \in ToA /\ Queued(s) \in ToA
    BY SMT DEF Established, Queued, ToA
  <2>4. messages' = messages \ ToA
    BY DEF RestartA
  <2>5. QED
    BY <2>1, <2>2, <2>3, <2>4, Zenon
<1>3. MayAccept(s)' <=> MayAccept(s)
  BY <1>1, <1>2, Zenon DEF MayAccept
<1>4. ~KnownQueued(s)'
  BY <1>1, <1>2, QueuedIsSession DEF KnownQueued, Kem
<1>5. Undecided(s)' => Undecided(s)
  <2>1. \/ a_runs'[s] = a_runs[s]
        \/ a_runs'[s] = [a_runs[s] EXCEPT !.pc = "failed"]
    BY DEF RestartA
  <2>2. a_runs[s] \in Run
    BY DEF TypeOK
  <2>3. a_runs'[s] = a_runs[s] \/ a_runs'[s].pc = "failed"
    BY <2>1, <2>2, SMT DEF Run
  <2>4. QED
    BY <2>3, Zenon DEF Undecided, Waiting
<1>6. HalfAtA(s)' = IF Undecided(s)' THEN "open" ELSE "over"
  BY <1>1 DEF HalfAtA
<1>7. HalfAtA(s)' = "open" => HalfAtA(s) = "open"
  BY <1>5, <1>6 DEF HalfAtA, SetupInv
<1>8. HalfAtB(s)' = IF HalfAtB(s) = "vouched" THEN "over" ELSE HalfAtB(s)
  BY <1>1, <1>2, <1>3 DEF HalfAtB
<1>9. CommitmentOf(s)' = IF CommitmentOf(s) = "queued" THEN "none" ELSE CommitmentOf(s)
  BY <1>2, <1>4 DEF CommitmentOf, SetupInv
<1>10. SetupInv(s)'
  BY <1>1, <1>2, <1>3, <1>4, <1>5 DEF SetupInv, Accepted
<1>11. QED
  BY <1>6, <1>7, <1>8, <1>9, <1>10

\* And one of Gateway B: what is not yet provisioned may still come.
LEMMA RestartBSession ==
    ASSUME TypeOK, NEW s \in Sessions, SessionIInv(s), SetupInv(s), RestartB
    PROVE  /\ SetupInv(s)'
           /\ HalfAtA(s)' = HalfAtA(s)
           /\ CommitmentOf(s)' = CommitmentOf(s)
           /\ HalfAtB(s)' \in {"open", "vouched", "over"}
           /\ HalfAtB(s)' = "open" => HalfAtB(s) = "open"
           /\ HalfAtB(s)' = "vouched" => HalfAtB(s) \in {"held", "vouched"}
<1> USE DEF aVars
<1>1. /\ authorizations'[s] = None /\ b_sessions'[s] = None
      /\ UNCHANGED <<messages, a_runs, a_sessions, sac_runs>>
  BY DEF RestartB, Nothing
<1>2. (Undecided(s)' <=> Undecided(s)) /\ (KnownQueued(s)' <=> KnownQueued(s))
  BY <1>1 DEF Undecided, KnownQueued, Kem
<1>3. HalfAtA(s)' = HalfAtA(s) /\ CommitmentOf(s)' = CommitmentOf(s)
  BY <1>1, <1>2 DEF HalfAtA, CommitmentOf
<1>4. MayAccept(s)' => MayAccept(s) /\ b_sessions[s] = None
  <2>1. MayAccept(s)' => MayAccept(s) /\ authorizations[s] = None
    BY <1>1, Zenon DEF MayAccept, SessionIInv, ProvisionedAsIssued
  <2>2. QED
    BY <2>1, MayStillAccept
<1>5. SetupInv(s)'
  BY <1>1, <1>2, <1>4 DEF SetupInv, Accepted
<1>6. QED
  BY <1>1, <1>3, <1>4, <1>5 DEF HalfAtB, SetupInv, Accepted

-----------------------------------------------------------------------------
(* The refinement.                                                         *)

LEMMA InitSetup ==
    ASSUME Init
    PROVE  SetupIInv /\ Setup!Init
<1>1. ASSUME NEW s \in Sessions
      PROVE  /\ SetupInv(s)
             /\ HalfAtB(s) = "open" /\ HalfAtA(s) = "open" /\ CommitmentOf(s) = "none"
  <2>1. /\ messages = {} /\ sac_runs[s].pc = "idle" /\ a_runs[s].pc = "idle"
        /\ a_sessions[s] = None /\ b_sessions[s] = None
    BY DEF Init, Nothing
  <2>2. MayAccept(s) /\ Undecided(s) /\ ~KnownQueued(s)
    BY <2>1, QueuedIsSession, Zenon DEF MayAccept, Undecided, KnownQueued, Kem
  <2>3. QED
    BY <2>1, <2>2 DEF SetupInv, Accepted, HalfAtB, HalfAtA, CommitmentOf
<1>2. QED
  BY <1>1 DEF SetupIInv, Setup!Init

\* Every step keeps the invariant and is one of SessionSetup's, or none.
LEMMA NextSetup ==
    ASSUME IInv, SetupIInv, [Next]_vars
    PROVE  SetupIInv' /\ SetupStep
<1>1. TypeOK /\ \A s \in Sessions : SessionIInv(s) /\ SetupInv(s)
  BY DEF IInv, SetupIInv
<1>2. ASSUME NEW s \in Sessions, SetupInv(s)' /\ Moves(s),
             \A t \in Sessions \ {s} : Stays(t)
      PROVE  SetupIInv' /\ SetupStep
  <2>1. \A t \in Sessions \ {s} : SetupInv(t)'
    BY <1>1, <1>2 DEF Stays
  <2>2. QED
    BY <1>2, <2>1, OneMoves DEF SetupIInv
<1>3. ASSUME \A t \in Sessions : AsBefore(t)
      PROVE  SetupIInv' /\ SetupStep
  <2>1. \A t \in Sessions : Stays(t)
    BY <1>3, NothingRead
  <2>2. QED
    BY <1>1, <2>1, NoneMoves DEF SetupIInv, Stays
<1>4. ASSUME NEW s \in Sessions, GatewayA(s) \/ Sac(s) \/ GatewayB(s) \/ QueueCommitment(s)
      PROVE  SetupIInv' /\ SetupStep
  <2>1. SetupInv(s)' /\ Moves(s)
    BY <1>1, <1>4, OwnMoves
  <2>2. Apart(s) /\ TakesOwn(s)
    BY <1>4, SessionStep, SessionStepTakesOwn
  <2>3. \A t \in Sessions \ {s} : Stays(t)
    BY <2>2, OthersStay, NothingRead
  <2>4. QED
    BY <1>2, <2>1, <2>3
<1>5. ASSUME NEW m \in Requests, Refuse(m)
      PROVE  SetupIInv' /\ SetupStep
  <2>1. m.session \in Sessions
    BY <1>1, SMT DEF Requests, TypeOK, Message, ToSac, ToB, ToA, ToLedger
  <2>2. SetupInv(m.session)' /\ Moves(m.session)
    BY <1>1, <1>5, <2>1, RefuseMoves
  <2>3. \A t \in Sessions \ {m.session} : Stays(t)
    BY <1>5, RefuseOthers, NothingRead
  <2>4. QED
    BY <1>2, <2>1, <2>2, <2>3
<1>6. CASE RestartSac \/ (\E s \in Sessions : Expire(s)) \/ UNCHANGED vars
  <2>1. /\ UNCHANGED <<messages, a_runs, a_sessions, authorizations, b_sessions>>
        /\ sac_runs' = sac_runs \/ RestartSac
    BY <1>6 DEF RestartSac, Expire, vars, aVars, bVars
  <2>2. QED
    BY <1>1, <1>3, <2>1, SetupUnmoved
<1>7. CASE RestartA
  <2>1. SetupIInv'
    BY <1>1, <1>7, RestartASession DEF SetupIInv
  <2>2. Setup!RestartA
    BY <1>1, <1>7, RestartASession DEF Setup!RestartA
  <2>3. QED
    BY <2>1, <2>2 DEF SetupStep, Setup!Next
<1>8. CASE RestartB
  <2>1. SetupIInv'
    BY <1>1, <1>8, RestartBSession DEF SetupIInv
  <2>2. Setup!RestartB
    BY <1>1, <1>8, RestartBSession DEF Setup!RestartB
  <2>3. QED
    BY <2>1, <2>2 DEF SetupStep, Setup!Next
<1>9. QED
  BY <1>4, <1>5, <1>6, <1>7, <1>8 DEF Next

\* Whatever is lost, late or restarted, every step of POST /sessions is a step of
\* SessionSetup: a session is accepted at most once, held at Gateway A only on B's
\* word, its commitment posted once, and no gateway gets back a half it gave up.
THEOREM Implementation == Spec => ImplementsSetup
<1>1. Init => SetupIInv /\ Setup!Init
  BY InitSetup
<1>2. IInv /\ SetupIInv /\ [Next]_vars => SetupIInv' /\ [Setup!Next]_(Setup!vars)
  BY NextSetup DEF SetupStep
<1>3. QED
  BY <1>1, <1>2, Invariance, PTL DEF Spec, ImplementsSetup, Setup!Spec

\* What Gateway B has no more of a session it cannot accept again.
Gone == {"vouched", "over"}

\* A half that is over stays over in every step of SessionSetup.
LEMMA OverStays ==
    ASSUME SetupStep, NEW s \in Sessions
    PROVE  /\ HalfAtA(s) = "over" => HalfAtA(s)' = "over"
           /\ HalfAtB(s) \in Gone => HalfAtB(s)' \in Gone
<1> DEFINE B == [t \in Sessions |-> HalfAtB(t)]
           A == [t \in Sessions |-> HalfAtA(t)]
           C == [t \in Sessions |-> CommitmentOf(t)]
<1> HIDE DEF A, B, C
<1>1. /\ A[s] = HalfAtA(s) /\ A'[s] = HalfAtA(s)' /\ DOMAIN A = Sessions
      /\ B[s] = HalfAtB(s) /\ B'[s] = HalfAtB(s)' /\ DOMAIN B = Sessions
  BY DEF A, B
<1>2. CASE UNCHANGED <<B, A, C>>
  BY <1>1, <1>2
<1>3. ASSUME NEW t \in Sessions,
             \/ Setup!Accept(t) \/ Setup!Hold(t) \/ Setup!GiveUpAtB(t) \/ Setup!GiveUpAtA(t)
             \/ Setup!Queue(t) \/ Setup!Lose(t)
      PROVE  (A[s] = "over" => A'[s] = "over") /\ (B[s] \in Gone => B'[s] \in Gone)
  BY <1>1, <1>3 DEF Gone, Setup!Accept, Setup!Hold, Setup!GiveUpAtB, Setup!GiveUpAtA, Setup!Queue,
     Setup!Lose, A, B
<1>4. CASE Setup!RestartA
  BY <1>1, <1>4 DEF Gone, Setup!RestartA, A, B
<1>5. CASE Setup!RestartB
  BY <1>1, <1>5 DEF Gone, Setup!RestartB, A, B
<1>6. QED
  BY <1>1, <1>2, <1>3, <1>4, <1>5 DEF SetupStep, Setup!Next, Setup!vars, A, B, C

\* What is given up is given up for good: a request Gateway A answered with an error
\* or lost in a restart never gains its session later, not even on Gateway B's late
\* answer, and a session Gateway B lost is not established there a second time.
THEOREM GivenUpForGood ==
    Spec => [][\A s \in Sessions :
                   /\ a_sessions[s] = None /\ ~Undecided(s) => a_sessions'[s] = None
                   /\ b_sessions[s] = None /\ ~MayAccept(s) => b_sessions'[s] = None]_vars
<1>1. ASSUME IInv, SetupIInv, [Next]_vars, NEW s \in Sessions
      PROVE  /\ a_sessions[s] = None /\ ~Undecided(s) => a_sessions'[s] = None
             /\ b_sessions[s] = None /\ ~MayAccept(s) => b_sessions'[s] = None
  <2>1. SetupStep
    BY <1>1, NextSetup
  <2>2. a_sessions[s] = None /\ ~Undecided(s) => a_sessions'[s] = None
    BY <2>1, OverStays DEF HalfAtA
  <2>3. b_sessions[s] = None /\ ~MayAccept(s) => b_sessions'[s] = None
    BY <2>1, OverStays DEF HalfAtB, Gone
  <2>4. QED
    BY <2>2, <2>3
<1>2. IInv /\ SetupIInv /\ [Next]_vars =>
          SetupIInv' /\ [\A s \in Sessions :
              /\ a_sessions[s] = None /\ ~Undecided(s) => a_sessions'[s] = None
              /\ b_sessions[s] = None /\ ~MayAccept(s) => b_sessions'[s] = None]_vars
  BY <1>1, NextSetup
<1>3. Init => SetupIInv
  BY InitSetup
<1>4. QED
  BY <1>2, <1>3, Invariance, PTL DEF Spec
=============================================================================
