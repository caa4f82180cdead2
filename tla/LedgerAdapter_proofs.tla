------------------------ MODULE LedgerAdapter_proofs ------------------------
(* Theorems about LedgerAdapter, for any sessions, jobs, workers, mode and *)
(* number of restarts.                                                     *)
EXTENDS LedgerAdapter, TLAPS

-----------------------------------------------------------------------------
(* Type correctness.                                                       *)

\* A process that has just started is well typed.
LEMMA InitTypeOK == Init => TypeOK
BY RestartAssumption, SMT DEF Init, TypeOK, NoCommitments, NoRevocations, NoJobs, IdleWorkers,
    CommitmentRecord, RevocationRecord, NoCommitment, NoRevocation, Worker, IdleWorker,
    Status, InProgress, TxState

\* The POST handlers keep the types.
LEMMA ClientTypeOK == TypeOK /\ ClientRequest => TypeOK'
<1> SUFFICES ASSUME TypeOK, NEW s \in Sessions, NEW j \in Jobs,
                    \/ SubmitCommitment(s, j)
                    \/ \E anchor \in Jobs : SubmitRevocation(s, anchor, j)
             PROVE  TypeOK'
  BY DEF ClientRequest
<1> USE DEF TypeOK, CommitmentRecord, RevocationRecord, Status, InProgress
<1>1. CASE SubmitCommitment(s, j)
  <2>1. queue' \in Seq(Jobs)
    BY <1>1, SMT DEF SubmitCommitment
  <2>2. records' \in [Jobs -> CommitmentRecord]
    BY <1>1, SMT DEF SubmitCommitment
  <2>3. QED
    BY <1>1, <2>1, <2>2, SMT DEF SubmitCommitment, revocationVars
<1>2. ASSUME NEW anchor \in Jobs, SubmitRevocation(s, anchor, j)
      PROVE  TypeOK'
  <2>1. revocation_queue' \in Seq(Jobs)
    BY <1>2, SMT DEF SubmitRevocation
  <2>2. revocation_records' \in [Jobs -> RevocationRecord]
    BY <1>2, SMT DEF SubmitRevocation
  <2>3. QED
    BY <1>2, <2>1, <2>2, SMT DEF SubmitRevocation, commitmentVars
<1>3. QED
  BY <1>1, <1>2

\* Each step of a commitment worker keeps the types.
LEMMA CommitmentWorkerTypeOK ==
    ASSUME TypeOK, NEW w \in Workers, CommitmentWorker(w)
    PROVE  TypeOK'
<1> USE DEF TypeOK, CommitmentRecord, Worker, Status, InProgress
<1>1. CASE CommitmentGet(w)
  <2>1. Head(queue) \in Jobs /\ Tail(queue) \in Seq(Jobs)
    BY <1>1, SMT DEF CommitmentGet
  <2>2. records' \in [Jobs -> CommitmentRecord]
    BY <1>1, <2>1, SMT DEF CommitmentGet, CommitmentNow
  <2>3. commitment_workers' \in [Workers -> Worker]
    BY <1>1, <2>1, SMT DEF CommitmentGet, FirstPhase
  <2>4. QED
    BY <1>1, <2>1, <2>2, <2>3, SMT DEF CommitmentGet, revocationVars
<1>2. CASE CommitmentSubmitted(w)
  <2>1. records' \in [Jobs -> CommitmentRecord]
    <3>1. commitment_workers[w].job \in Jobs
      BY <1>2, SMT DEF CommitmentSubmitted
    <3>2. QED
      BY <1>2, <3>1, SMT DEF CommitmentSubmitted, CommitmentNow
  <2>2. commitment_workers' \in [Workers -> Worker]
    BY <1>2, SMT DEF CommitmentSubmitted
  <2>3. QED
    BY <1>2, <2>1, <2>2, SMT DEF CommitmentSubmitted, revocationVars
<1>3. ASSUME NEW status \in Status, NEW identifier,
             commitment_workers[w].phase # "idle",
             commitment_workers[w].job \in Jobs => identifier \in Jobs \cup {None},
             CommitmentEnds(w, status, identifier)
      PROVE  TypeOK'
  <2>1. records' \in [Jobs -> CommitmentRecord]
    <3>1. commitment_workers[w].job \in Jobs
      BY <1>3, SMT DEF CommitmentEnds
    <3>2. QED
      BY <1>3, <3>1, SMT DEF CommitmentEnds, CommitmentNow
  <2>2. commitment_workers' \in [Workers -> Worker]
    BY <1>3, SMT DEF CommitmentEnds, IdleWorker
  <2>3. QED
    BY <1>3, <2>1, <2>2, SMT DEF CommitmentEnds, revocationVars
<1>4. CASE CommitmentSimulatedFinality(w)
  BY <1>4, <1>3, SMT DEF CommitmentSimulatedFinality
<1>5. CASE CommitmentCommandFails(w)
  BY <1>5, <1>3, SMT DEF CommitmentCommandFails
<1>6. CASE CommitmentConfirmed(w)
  BY <1>6, <1>3, SMT DEF CommitmentConfirmed
<1>7. CASE CommitmentLookupFails(w)
  BY <1>7, <1>3, SMT DEF CommitmentLookupFails
<1>8. QED
  BY <1>1, <1>2, <1>4, <1>5, <1>6, <1>7 DEF CommitmentWorker

\* Each step of a revocation worker keeps the types.
LEMMA RevocationWorkerTypeOK ==
    ASSUME TypeOK, NEW w \in Workers, RevocationWorker(w)
    PROVE  TypeOK'
<1> USE DEF TypeOK, RevocationRecord, Worker, Status, InProgress
<1>1. CASE RevocationGet(w)
  <2>1. Head(revocation_queue) \in Jobs /\ Tail(revocation_queue) \in Seq(Jobs)
    BY <1>1, SMT DEF RevocationGet
  <2>2. revocation_records' \in [Jobs -> RevocationRecord]
    BY <1>1, <2>1, SMT DEF RevocationGet, RevocationNow
  <2>3. revocation_workers' \in [Workers -> Worker]
    BY <1>1, <2>1, SMT DEF RevocationGet, FirstPhase
  <2>4. QED
    BY <1>1, <2>1, <2>2, <2>3, SMT DEF RevocationGet, commitmentVars
<1>2. CASE RevocationSubmitted(w)
  <2>1. revocation_records' \in [Jobs -> RevocationRecord]
    <3>1. revocation_workers[w].job \in Jobs
      BY <1>2, SMT DEF RevocationSubmitted
    <3>2. QED
      BY <1>2, <3>1, SMT DEF RevocationSubmitted, RevocationNow
  <2>2. revocation_workers' \in [Workers -> Worker]
    BY <1>2, SMT DEF RevocationSubmitted
  <2>3. QED
    BY <1>2, <2>1, <2>2, SMT DEF RevocationSubmitted, commitmentVars
<1>3. ASSUME NEW status \in Status, NEW identifier,
             revocation_workers[w].phase # "idle",
             revocation_workers[w].job \in Jobs => identifier \in Jobs \cup {None},
             RevocationEnds(w, status, identifier)
      PROVE  TypeOK'
  <2>1. revocation_records' \in [Jobs -> RevocationRecord]
    <3>1. revocation_workers[w].job \in Jobs
      BY <1>3, SMT DEF RevocationEnds
    <3>2. QED
      BY <1>3, <3>1, SMT DEF RevocationEnds, RevocationNow
  <2>2. revocation_workers' \in [Workers -> Worker]
    BY <1>3, SMT DEF RevocationEnds, IdleWorker
  <2>3. QED
    BY <1>3, <2>1, <2>2, SMT DEF RevocationEnds, commitmentVars
<1>4. CASE RevocationSimulatedFinality(w)
  BY <1>4, <1>3, SMT DEF RevocationSimulatedFinality
<1>5. CASE RevocationCommandFails(w)
  BY <1>5, <1>3, SMT DEF RevocationCommandFails
<1>6. CASE RevocationConfirmed(w)
  BY <1>6, <1>3, SMT DEF RevocationConfirmed
<1>7. CASE RevocationLookupFails(w)
  BY <1>7, <1>3, SMT DEF RevocationLookupFails
<1>8. QED
  BY <1>1, <1>2, <1>4, <1>5, <1>6, <1>7 DEF RevocationWorker

\* The chain and a restart keep the types.
LEMMA EnvironmentTypeOK ==
    TypeOK /\ (Restart \/ \E j \in Jobs : Chain(j)) => TypeOK'
<1> SUFFICES ASSUME TypeOK, Restart \/ \E j \in Jobs : Chain(j)
             PROVE  TypeOK'
  OBVIOUS
<1>1. CASE Restart
  BY <1>1, RestartAssumption, SMT DEF Restart, TypeOK, NoCommitments, NoRevocations, NoJobs,
      IdleWorkers, CommitmentRecord, RevocationRecord, NoCommitment, NoRevocation, Worker,
      IdleWorker, Status, InProgress
<1>2. ASSUME NEW j \in Jobs, Chain(j)
      PROVE  TypeOK'
  BY <1>2, SMT DEF Chain, ChainReceive, ChainExecute, ChainCheckpoint, ChainStep, TypeOK,
      TxState, commitmentVars, revocationVars
<1>3. QED
  BY <1>1, <1>2

\* So does every step.
LEMMA NextTypeOK == TypeOK /\ [Next]_vars => TypeOK'
<1>1. TypeOK /\ UNCHANGED vars => TypeOK'
  BY SMT DEF TypeOK, vars, commitmentVars, revocationVars
<1>2. QED
  BY <1>1, ClientTypeOK, CommitmentWorkerTypeOK, RevocationWorkerTypeOK, EnvironmentTypeOK
  DEF Next, WorkerStep

-----------------------------------------------------------------------------
(* Where the jobs are: the four ways a job moves keep Owned.               *)

\* A fresh job joins the queue.
LEMMA OwnedSubmit ==
    ASSUME NEW q \in Seq(Jobs), NEW recs, NEW recs2, NEW workers, NEW j \in Jobs,
           Owned(q, recs, workers),
           recs[j].status = "absent", recs2[j].status = "queued",
           \A k \in Jobs \ {j} : recs2[k].status = recs[k].status
    PROVE  Owned(Append(q, j), recs2, workers)
<1> DEFINE q2 == Append(q, j)
<1>1. /\ Len(q2) = Len(q) + 1
      /\ Len(q) \in Nat
      /\ \A i \in 1..Len(q) : q2[i] = q[i] /\ q[i] \in Jobs
      /\ q2[Len(q) + 1] = j
  BY SMT
<1>2. \A i \in 1..Len(q) : q[i] # j
  BY <1>1, SMT DEF Owned
<1>3. \A i, k \in 1..Len(q2) : q2[i] = q2[k] => i = k
  BY <1>1, <1>2, SMT DEF Owned
<1>4. \A k \in Jobs : recs2[k].status = "queued" <=> \E i \in 1..Len(q2) : q2[i] = k
  BY <1>1, <1>2, SMT DEF Owned
<1>5. \A k \in Jobs : recs2[k].status \in InProgress <=> recs[k].status \in InProgress
  BY SMT DEF InProgress
<1>6. QED
  BY <1>3, <1>4, <1>5, SMT DEF Owned

\* An idle worker takes the head of the queue.
LEMMA OwnedGet ==
    ASSUME NEW q \in Seq(Jobs), q # << >>, NEW recs, NEW recs2,
           NEW workers \in [Workers -> Worker], NEW w \in Workers, NEW phase,
           Owned(q, recs, workers),
           workers[w].phase = "idle",
           recs2[Head(q)].status = "submitting",
           \A k \in Jobs \ {Head(q)} : recs2[k].status = recs[k].status
    PROVE  Owned(Tail(q), recs2,
                 [workers EXCEPT ![w] = [phase |-> phase, job |-> Head(q)]])
<1> DEFINE q2 == Tail(q)
           workers2 == [workers EXCEPT ![w] = [phase |-> phase, job |-> Head(q)]]
<1>1. /\ Len(q) \in Nat \ {0}
      /\ Len(q2) = Len(q) - 1
      /\ Head(q) = q[1]
      /\ \A i \in 1..Len(q) : q[i] \in Jobs
      /\ \A i \in 1..Len(q2) : q2[i] = q[i + 1]
  BY SMT
<1>2. \A i, k \in 1..Len(q2) : q2[i] = q2[k] => i = k
  BY <1>1, SMT DEF Owned
<1>3. ASSUME NEW k \in Jobs
      PROVE  recs2[k].status = "queued" <=> \E i \in 1..Len(q2) : q2[i] = k
  <2>1. CASE k = Head(q)
    BY <1>1, <2>1, SMT DEF Owned
  <2>2. CASE k # Head(q)
    <3>1. (\E i \in 1..Len(q) : q[i] = k) => \E i \in 1..Len(q2) : q2[i] = k
      <4> SUFFICES ASSUME NEW i \in 1..Len(q), q[i] = k
                   PROVE  \E h \in 1..Len(q2) : q2[h] = k
        OBVIOUS
      <4>1. i - 1 \in 1..Len(q2) /\ q2[i - 1] = k
        BY <1>1, <2>2, SMT
      <4>2. QED
        BY <4>1
    <3>2. (\E i \in 1..Len(q2) : q2[i] = k) => \E i \in 1..Len(q) : q[i] = k
      BY <1>1, SMT
    <3>3. QED
      BY <2>2, <3>1, <3>2, SMT DEF Owned
  <2>3. QED
    BY <2>1, <2>2
<1>4. workers[w].job \notin Jobs /\ Head(q) \in Jobs
  BY <1>1, NoneAssumption, SMT DEF Worker
<1>5. workers2[w].job = Head(q) /\ \A v \in Workers \ {w} : workers2[v] = workers[v]
  BY SMT
<1>6. ASSUME NEW k \in Jobs
      PROVE  /\ recs2[k].status \in InProgress <=> Held(workers2, k) # {}
             /\ \A u, v \in Held(workers2, k) : u = v
  <2> HIDE DEF workers2
  <2>1. CASE k = Head(q)
    <3>1. recs[k].status = "queued"
      BY <1>1, <2>1, SMT DEF Owned
    <3>2. Held(workers, k) = {}
      BY <3>1, SMT DEF Owned, InProgress
    <3>3. w \in Held(workers2, k)
      BY <1>5, <2>1 DEF Held
    <3>4. ASSUME NEW v \in Held(workers2, k)
          PROVE  v = w
      <4>1. v \in Workers /\ workers2[v].job = k
        BY DEF Held
      <4>2. workers[v].job # k
        BY <3>2, <4>1, Zenon DEF Held
      <4>3. QED
        BY <1>5, <4>1, <4>2, Zenon
    <3>5. recs2[k].status \in InProgress
      BY <2>1, SMT DEF InProgress
    <3>6. QED
      BY <3>3, <3>4, <3>5, Zenon
  <2>2. CASE k # Head(q)
    <3>1. Held(workers2, k) = Held(workers, k)
      BY <1>4, <1>5, <2>2, Zenon DEF Held
    <3>2. QED
      BY <3>1, <2>2, SMT DEF Owned
  <2>3. QED
    BY <2>1, <2>2
<1>7. QED
  BY <1>2, <1>3, <1>6, Zenon DEF Owned

\* A worker goes on with its job.
LEMMA OwnedContinue ==
    ASSUME NEW q, NEW recs, NEW recs2, NEW workers \in [Workers -> Worker], NEW w \in Workers,
           NEW phase, Owned(q, recs, workers),
           workers[w].job \in Jobs,
           recs2[workers[w].job].status \in InProgress,
           \A k \in Jobs \ {workers[w].job} : recs2[k].status = recs[k].status
    PROVE  Owned(q, recs2, [workers EXCEPT ![w].phase = phase])
<1> DEFINE workers2 == [workers EXCEPT ![w].phase = phase]
<1>1. w \in Held(workers, workers[w].job)
  BY DEF Held
<1>2. recs[workers[w].job].status \in InProgress
  BY <1>1, SMT DEF Owned
<1>3. \A k \in Jobs : /\ recs2[k].status \in InProgress <=> recs[k].status \in InProgress
                      /\ recs2[k].status = "queued" <=> recs[k].status = "queued"
  BY <1>2, SMT DEF InProgress
<1>4. workers2[w].job = workers[w].job
  BY SMT DEF Worker
<1>5. \A v \in Workers \ {w} : workers2[v] = workers[v]
  BY SMT
<1>6. \A k \in Jobs : Held(workers2, k) = Held(workers, k)
  <2> HIDE DEF workers2
  <2>1. \A v \in Workers : workers2[v].job = workers[v].job
    BY <1>4, <1>5, Zenon
  <2>2. QED
    BY <2>1, Zenon DEF Held
<1>7. QED
  <2> HIDE DEF workers2
  <2>1. Owned(q, recs2, workers2)
    BY <1>3, <1>6, SMT DEF Owned
  <2>2. QED
    BY <2>1 DEF workers2

\* A worker settles its job.
LEMMA OwnedEnd ==
    ASSUME NEW q, NEW recs, NEW recs2, NEW workers \in [Workers -> Worker], NEW w \in Workers,
           Owned(q, recs, workers),
           workers[w].job \in Jobs,
           recs2[workers[w].job].status \in {"confirmed", "failed"},
           \A k \in Jobs \ {workers[w].job} : recs2[k].status = recs[k].status
    PROVE  Owned(q, recs2, [workers EXCEPT ![w] = IdleWorker])
<1> DEFINE j == workers[w].job
           workers2 == [workers EXCEPT ![w] = IdleWorker]
<1>1. w \in Held(workers, j)
  BY DEF Held
<1>2. recs[j].status \in InProgress /\ Held(workers, j) = {w}
  BY <1>1, SMT DEF Owned
<1>3. \A k \in Jobs : recs2[k].status = "queued" <=> recs[k].status = "queued"
  BY <1>2, SMT DEF InProgress
<1>4. IdleWorker.job \notin Jobs
  BY NoneAssumption DEF IdleWorker
<1>5. workers2[w] = IdleWorker /\ \A v \in Workers \ {w} : workers2[v] = workers[v]
  BY SMT
<1>6. Held(workers2, j) = {} /\ \A k \in Jobs \ {j} : Held(workers2, k) = Held(workers, k)
  <2> HIDE DEF workers2
  <2>1. ASSUME NEW v \in Held(workers2, j)
        PROVE  FALSE
    <3>1. v \in Workers /\ workers2[v].job = j
      BY DEF Held
    <3>2. v # w
      BY <3>1, <1>4, <1>5, Zenon
    <3>3. v \in Held(workers, j)
      BY <3>1, <3>2, <1>5, Zenon DEF Held
    <3>4. QED
      BY <3>2, <3>3, <1>2, Zenon
  <2>2. ASSUME NEW k \in Jobs, k # j
        PROVE  Held(workers2, k) = Held(workers, k)
    BY <2>2, <1>4, <1>5, Zenon DEF Held
  <2>3. QED
    BY <2>1, <2>2
<1>7. ASSUME NEW k \in Jobs
      PROVE  /\ recs2[k].status \in InProgress <=> Held(workers2, k) # {}
             /\ \A u, v \in Held(workers2, k) : u = v
  <2> HIDE DEF workers2
  <2>1. CASE k = j
    <3>1. recs2[k].status \notin InProgress
      BY <2>1, SMT DEF InProgress
    <3>2. QED
      BY <2>1, <3>1, <1>6, Zenon
  <2>2. CASE k # j
    <3>1. recs2[k].status = recs[k].status /\ Held(workers2, k) = Held(workers, k)
      BY <2>2, <1>6
    <3>2. /\ recs[k].status \in InProgress <=> Held(workers, k) # {}
          /\ \A u, v \in Held(workers, k) : u = v
      BY Zenon DEF Owned
    <3>3. QED
      BY <3>1, <3>2, Zenon
  <2>3. QED
    BY <2>1, <2>2
<1>8. QED
  BY <1>3, <1>7, Zenon DEF Owned
-----------------------------------------------------------------------------
(* The inductive invariant, by parts.                                      *)

\* What the records and the chain say about each other.
RecordsOK ==
    /\ OneLiveCommitment
    /\ RevocationsAnchored
    /\ ConfirmedIsFinal
    /\ UnissuedAbsent
    /\ RecordsNameSessions

\* The memory of a process that has just started.
MemoryEmpty ==
    /\ queue = << >>
    /\ records = NoCommitments
    /\ commitment_jobs_by_session = NoJobs
    /\ commitment_workers = IdleWorkers
    /\ revocation_queue = << >>
    /\ revocation_records = NoRevocations
    /\ revocation_jobs_by_session = NoJobs
    /\ revocation_workers = IdleWorkers

\* What a commitment worker holds is in progress.
LEMMA CommitmentHeld ==
    ASSUME TypeOK, JobsOwned, NEW w \in Workers, commitment_workers[w].phase # "idle"
    PROVE  /\ commitment_workers[w].job \in Jobs
           /\ records[commitment_workers[w].job].status \in InProgress
<1>1. commitment_workers[w].job \in Jobs
  BY SMT DEF TypeOK, Worker
<1>2. w \in Held(commitment_workers, commitment_workers[w].job)
  BY DEF Held
<1>3. QED
  BY <1>1, <1>2, SMT DEF JobsOwned, CommitmentJobsOwned, Owned

\* What a revocation worker holds is in progress.
LEMMA RevocationHeld ==
    ASSUME TypeOK, JobsOwned, NEW w \in Workers, revocation_workers[w].phase # "idle"
    PROVE  /\ revocation_workers[w].job \in Jobs
           /\ revocation_records[revocation_workers[w].job].status \in InProgress
<1>1. revocation_workers[w].job \in Jobs
  BY SMT DEF TypeOK, Worker
<1>2. w \in Held(revocation_workers, revocation_workers[w].job)
  BY DEF Held
<1>3. QED
  BY <1>1, <1>2, SMT DEF JobsOwned, RevocationJobsOwned, Owned

\* The head of a queue is queued.
LEMMA HeadQueued ==
    /\ (TypeOK /\ JobsOwned /\ queue # << >>) =>
           Head(queue) \in Jobs /\ records[Head(queue)].status = "queued"
    /\ (TypeOK /\ JobsOwned /\ revocation_queue # << >>) =>
           /\ Head(revocation_queue) \in Jobs
           /\ revocation_records[Head(revocation_queue)].status = "queued"
<1>1. ASSUME NEW q \in Seq(Jobs), q # << >>
      PROVE  1 \in 1..Len(q) /\ Head(q) = q[1] /\ q[1] \in Jobs
  BY <1>1, SMT
<1>2. ASSUME TypeOK, JobsOwned, queue # << >>
      PROVE  Head(queue) \in Jobs /\ records[Head(queue)].status = "queued"
  BY <1>1, <1>2, SMT DEF TypeOK, JobsOwned, CommitmentJobsOwned, Owned
<1>3. ASSUME TypeOK, JobsOwned, revocation_queue # << >>
      PROVE  /\ Head(revocation_queue) \in Jobs
             /\ revocation_records[Head(revocation_queue)].status = "queued"
  BY <1>1, <1>3, SMT DEF TypeOK, JobsOwned, RevocationJobsOwned, Owned
<1>4. QED
  BY <1>2, <1>3

\* A queued or running commitment moves on, to "confirmed" only when its
\* transaction is final in iota mode.
LEMMA CommitmentMoves ==
    ASSUME TypeOK, RecordsOK, NEW j \in Jobs, NEW status, NEW identifier,
           records[j].status \in InProgress \cup {"queued"},
           status \in InProgress \cup {"confirmed", "failed"},
           LedgerMode = "iota" /\ status = "confirmed" => chain[j] = "final",
           records' = [records EXCEPT ![j] = CommitmentNow(@, status, identifier)],
           UNCHANGED <<commitment_jobs_by_session, revocation_records, issued, chain>>
    PROVE  RecordsOK'
<1>1. /\ records'[j] = CommitmentNow(records[j], status, identifier)
      /\ \A k \in Jobs \ {j} : records'[k] = records[k]
  BY SMT DEF TypeOK
<1>2. records'[j].status = status /\ records'[j].session = records[j].session
  BY <1>1 DEF CommitmentNow
<1>3. OneLiveCommitment'
  BY <1>1, <1>2, SMT DEF RecordsOK, OneLiveCommitment, InProgress
<1>4. RevocationsAnchored'
  BY <1>1, <1>2, SMT DEF RecordsOK, RevocationsAnchored, InProgress, TypeOK, RecordsNameSessions
<1>5. ConfirmedIsFinal'
  BY <1>1, <1>2, SMT DEF RecordsOK, ConfirmedIsFinal
<1>6. UnissuedAbsent'
  BY <1>1, <1>2, SMT DEF RecordsOK, UnissuedAbsent, InProgress
<1>7. RecordsNameSessions'
  BY <1>1, <1>2, SMT DEF RecordsOK, RecordsNameSessions, InProgress
<1>8. QED
  BY <1>3, <1>4, <1>5, <1>6, <1>7 DEF RecordsOK

\* The same for a revocation, whose session and anchor stay as they were.
LEMMA RevocationMoves ==
    ASSUME TypeOK, RecordsOK, NEW j \in Jobs, NEW status, NEW identifier,
           revocation_records[j].status \in InProgress \cup {"queued"},
           status \in InProgress \cup {"confirmed", "failed"},
           LedgerMode = "iota" /\ status = "confirmed" => chain[j] = "final",
           revocation_records' = [revocation_records EXCEPT
                ![j] = RevocationNow(@, status, identifier)],
           UNCHANGED <<commitment_jobs_by_session, records, issued, chain>>
    PROVE  RecordsOK'
<1>1. /\ revocation_records'[j] = RevocationNow(revocation_records[j], status, identifier)
      /\ \A k \in Jobs \ {j} : revocation_records'[k] = revocation_records[k]
  BY SMT DEF TypeOK
<1>2. /\ revocation_records'[j].status = status
      /\ revocation_records'[j].session = revocation_records[j].session
      /\ revocation_records'[j].session_anchor = revocation_records[j].session_anchor
  BY <1>1 DEF RevocationNow
<1>3. OneLiveCommitment'
  BY <1>1, <1>2, SMT DEF RecordsOK, OneLiveCommitment
<1>4. RevocationsAnchored'
  BY <1>1, <1>2, SMT DEF RecordsOK, RevocationsAnchored, InProgress
<1>5. ConfirmedIsFinal'
  BY <1>1, <1>2, SMT DEF RecordsOK, ConfirmedIsFinal
<1>6. UnissuedAbsent'
  BY <1>1, <1>2, SMT DEF RecordsOK, UnissuedAbsent, InProgress
<1>7. RecordsNameSessions'
  BY <1>1, <1>2, SMT DEF RecordsOK, RecordsNameSessions, InProgress
<1>8. QED
  BY <1>3, <1>4, <1>5, <1>6, <1>7 DEF RecordsOK

\* A new commitment and a new revocation.
LEMMA SubmitRecords ==
    ASSUME TypeOK, RecordsOK, NEW s \in Sessions, NEW j \in Jobs,
           \/ SubmitCommitment(s, j)
           \/ \E anchor \in Jobs : SubmitRevocation(s, anchor, j)
    PROVE  RecordsOK'
<1>1. CASE SubmitCommitment(s, j)
  <2>1. /\ records'[j] = [status |-> "queued", session |-> s, ledger_identifier |-> None]
        /\ \A k \in Jobs \ {j} : records'[k] = records[k]
        /\ commitment_jobs_by_session'[s] = j
        /\ \A t \in Sessions \ {s} :
               commitment_jobs_by_session'[t] = commitment_jobs_by_session[t]
        /\ revocation_records' = revocation_records /\ chain' = chain
        /\ issued' = issued \cup {j}
    BY <1>1, SMT DEF TypeOK, SubmitCommitment, revocationVars
  <2>2. records[j].status = "absent" /\ CommitmentAccepted(s)
    BY <1>1 DEF SubmitCommitment, RecordsOK, UnissuedAbsent
  <2>3. OneLiveCommitment'
    BY <2>1, <2>2, SMT DEF TypeOK, RecordsOK, OneLiveCommitment, RecordsNameSessions,
        CommitmentAccepted
  <2>4. RevocationsAnchored'
    <3> SUFFICES ASSUME NEW r \in Jobs, revocation_records[r].status # "absent"
                 PROVE  LET c == commitment_jobs_by_session'[revocation_records[r].session]
                        IN  /\ c # None
                            /\ records'[c].status = "confirmed"
                            /\ revocation_records[r].session_anchor
                                   = records'[c].ledger_identifier
      BY <2>1 DEF RevocationsAnchored
    <3> DEFINE t == revocation_records[r].session
               c == commitment_jobs_by_session[t]
    <3>1. t \in Sessions /\ c \in Jobs
      BY SMT DEF RecordsOK, RevocationsAnchored, RecordsNameSessions, TypeOK
    <3>2. /\ records[c].status = "confirmed"
          /\ revocation_records[r].session_anchor = records[c].ledger_identifier
      BY SMT DEF RecordsOK, RevocationsAnchored
    <3>3. t # s /\ c # j
      BY <2>2, <3>1, <3>2, SMT DEF CommitmentAccepted
    <3>4. QED
      BY <2>1, <3>1, <3>2, <3>3, NoneAssumption, SMT
  <2>5. ConfirmedIsFinal'
    BY <2>1, SMT DEF RecordsOK, ConfirmedIsFinal
  <2>6. UnissuedAbsent'
    BY <2>1, SMT DEF RecordsOK, UnissuedAbsent
  <2>7. RecordsNameSessions'
    BY <2>1, SMT DEF RecordsOK, RecordsNameSessions
  <2>8. QED
    BY <2>3, <2>4, <2>5, <2>6, <2>7 DEF RecordsOK
<1>2. ASSUME NEW anchor \in Jobs, SubmitRevocation(s, anchor, j)
      PROVE  RecordsOK'
  <2>1. /\ revocation_records'[j] =
               [status |-> "queued", session |-> s,
                ledger_identifier |-> None, session_anchor |-> anchor]
        /\ \A k \in Jobs \ {j} : revocation_records'[k] = revocation_records[k]
        /\ records' = records /\ chain' = chain
        /\ commitment_jobs_by_session' = commitment_jobs_by_session
        /\ issued' = issued \cup {j}
    BY <1>2, SMT DEF TypeOK, SubmitRevocation, commitmentVars
  <2>2. RevocationAccepted(s, anchor)
    BY <1>2 DEF SubmitRevocation
  <2>3. OneLiveCommitment'
    BY <2>1, SMT DEF RecordsOK, OneLiveCommitment
  <2>4. RevocationsAnchored'
    BY <2>1, <2>2, SMT DEF RecordsOK, RevocationsAnchored, RevocationAccepted
  <2>5. ConfirmedIsFinal'
    BY <2>1, SMT DEF RecordsOK, ConfirmedIsFinal
  <2>6. UnissuedAbsent'
    BY <2>1, SMT DEF RecordsOK, UnissuedAbsent
  <2>7. RecordsNameSessions'
    BY <2>1, SMT DEF RecordsOK, RecordsNameSessions
  <2>8. QED
    BY <2>3, <2>4, <2>5, <2>6, <2>7 DEF RecordsOK
<1>3. QED
  BY <1>1, <1>2

\* The records after each step of a commitment worker.
LEMMA CommitmentWorkerRecords ==
    ASSUME TypeOK, JobsOwned, RecordsOK, NoSimulatedSleep,
           NEW w \in Workers, CommitmentWorker(w)
    PROVE  RecordsOK'
<1> DEFINE j == commitment_workers[w].job
<1>1. CASE CommitmentGet(w)
  <2>1. Head(queue) \in Jobs /\ records[Head(queue)].status = "queued"
    BY <1>1, HeadQueued DEF CommitmentGet
  <2>2. records' = [records EXCEPT ![Head(queue)] =
            CommitmentNow(@, "submitting", records[Head(queue)].ledger_identifier)]
    BY <1>1 DEF CommitmentGet
  <2>3. UNCHANGED <<commitment_jobs_by_session, revocation_records, issued, chain>>
    BY <1>1 DEF CommitmentGet, revocationVars
  <2>4. QED
    BY <2>1, <2>2, <2>3, CommitmentMoves DEF InProgress
<1>2. CASE CommitmentSubmitted(w)
  <2>1. j \in Jobs /\ records[j].status \in InProgress
    BY <1>2, CommitmentHeld DEF CommitmentSubmitted
  <2>2. records' = [records EXCEPT ![j] = CommitmentNow(@, "confirming", j)]
    BY <1>2 DEF CommitmentSubmitted
  <2>3. UNCHANGED <<commitment_jobs_by_session, revocation_records, issued, chain>>
    BY <1>2 DEF CommitmentSubmitted, revocationVars
  <2>4. QED
    BY <2>1, <2>2, <2>3, CommitmentMoves DEF InProgress
<1>3. ASSUME NEW status \in {"confirmed", "failed"}, NEW identifier,
             commitment_workers[w].phase # "idle",
             LedgerMode = "iota" /\ status = "confirmed" => chain[j] = "final",
             CommitmentEnds(w, status, identifier)
      PROVE  RecordsOK'
  <2>1. j \in Jobs /\ records[j].status \in InProgress
    BY <1>3, CommitmentHeld
  <2>2. records' = [records EXCEPT ![j] = CommitmentNow(@, status, identifier)]
    BY <1>3 DEF CommitmentEnds
  <2>3. UNCHANGED <<commitment_jobs_by_session, revocation_records, issued, chain>>
    BY <1>3 DEF CommitmentEnds, revocationVars
  <2>4. QED
    BY <1>3, <2>1, <2>2, <2>3, CommitmentMoves DEF InProgress
<1>4. CASE CommitmentSimulatedFinality(w)
  BY <1>4, <1>3 DEF CommitmentSimulatedFinality, NoSimulatedSleep
<1>5. CASE CommitmentCommandFails(w)
  BY <1>5, <1>3 DEF CommitmentCommandFails
<1>6. CASE CommitmentConfirmed(w)
  BY <1>6, <1>3 DEF CommitmentConfirmed
<1>7. CASE CommitmentLookupFails(w)
  BY <1>7, <1>3 DEF CommitmentLookupFails
<1>8. QED
  BY <1>1, <1>2, <1>4, <1>5, <1>6, <1>7 DEF CommitmentWorker

\* The records after each step of a revocation worker.
LEMMA RevocationWorkerRecords ==
    ASSUME TypeOK, JobsOwned, RecordsOK, NoSimulatedSleep,
           NEW w \in Workers, RevocationWorker(w)
    PROVE  RecordsOK'
<1> DEFINE j == revocation_workers[w].job
<1>1. CASE RevocationGet(w)
  <2>1. /\ Head(revocation_queue) \in Jobs
        /\ revocation_records[Head(revocation_queue)].status = "queued"
    BY <1>1, HeadQueued DEF RevocationGet
  <2>2. revocation_records' = [revocation_records EXCEPT ![Head(revocation_queue)] =
            RevocationNow(@, "submitting",
                          revocation_records[Head(revocation_queue)].ledger_identifier)]
    BY <1>1 DEF RevocationGet
  <2>3. UNCHANGED <<commitment_jobs_by_session, records, issued, chain>>
    BY <1>1 DEF RevocationGet, commitmentVars
  <2>4. QED
    BY <2>1, <2>2, <2>3, RevocationMoves DEF InProgress
<1>2. CASE RevocationSubmitted(w)
  <2>1. j \in Jobs /\ revocation_records[j].status \in InProgress
    BY <1>2, RevocationHeld DEF RevocationSubmitted
  <2>2. revocation_records' = [revocation_records EXCEPT ![j] = RevocationNow(@, "confirming", j)]
    BY <1>2 DEF RevocationSubmitted
  <2>3. UNCHANGED <<commitment_jobs_by_session, records, issued, chain>>
    BY <1>2 DEF RevocationSubmitted, commitmentVars
  <2>4. QED
    BY <2>1, <2>2, <2>3, RevocationMoves DEF InProgress
<1>3. ASSUME NEW status \in {"confirmed", "failed"}, NEW identifier,
             revocation_workers[w].phase # "idle",
             LedgerMode = "iota" /\ status = "confirmed" => chain[j] = "final",
             RevocationEnds(w, status, identifier)
      PROVE  RecordsOK'
  <2>1. j \in Jobs /\ revocation_records[j].status \in InProgress
    BY <1>3, RevocationHeld
  <2>2. revocation_records' = [revocation_records EXCEPT
            ![j] = RevocationNow(@, status, identifier)]
    BY <1>3 DEF RevocationEnds
  <2>3. UNCHANGED <<commitment_jobs_by_session, records, issued, chain>>
    BY <1>3 DEF RevocationEnds, commitmentVars
  <2>4. QED
    BY <1>3, <2>1, <2>2, <2>3, RevocationMoves DEF InProgress
<1>4. CASE RevocationSimulatedFinality(w)
  BY <1>4, <1>3 DEF RevocationSimulatedFinality, NoSimulatedSleep
<1>5. CASE RevocationCommandFails(w)
  BY <1>5, <1>3 DEF RevocationCommandFails
<1>6. CASE RevocationConfirmed(w)
  BY <1>6, <1>3 DEF RevocationConfirmed
<1>7. CASE RevocationLookupFails(w)
  BY <1>7, <1>3 DEF RevocationLookupFails
<1>8. QED
  BY <1>1, <1>2, <1>4, <1>5, <1>6, <1>7 DEF RevocationWorker

-----------------------------------------------------------------------------
(* The jobs stay owned.                                                    *)

\* An accepted request puts its job in the queue once.
LEMMA SubmitOwned ==
    ASSUME TypeOK, JobsOwned, UnissuedAbsent, NEW s \in Sessions, NEW j \in Jobs,
           \/ SubmitCommitment(s, j)
           \/ \E anchor \in Jobs : SubmitRevocation(s, anchor, j)
    PROVE  JobsOwned'
<1>1. CASE SubmitCommitment(s, j)
  <2>1. /\ records[j].status = "absent"
        /\ records'[j].status = "queued"
        /\ \A k \in Jobs \ {j} : records'[k].status = records[k].status
    BY <1>1, SMT DEF TypeOK, SubmitCommitment, UnissuedAbsent
  <2>2. queue \in Seq(Jobs) /\ Owned(queue, records, commitment_workers)
    BY DEF TypeOK, JobsOwned, CommitmentJobsOwned
  <2>3. Owned(Append(queue, j), records', commitment_workers)
    BY <2>1, <2>2, OwnedSubmit
  <2>4. QED
    BY <1>1, <2>3 DEF SubmitCommitment, JobsOwned, CommitmentJobsOwned, RevocationJobsOwned,
        revocationVars
<1>2. ASSUME NEW anchor \in Jobs, SubmitRevocation(s, anchor, j)
      PROVE  JobsOwned'
  <2>1. /\ revocation_records[j].status = "absent"
        /\ revocation_records'[j].status = "queued"
        /\ \A k \in Jobs \ {j} : revocation_records'[k].status = revocation_records[k].status
    BY <1>2, SMT DEF TypeOK, SubmitRevocation, UnissuedAbsent
  <2>2. /\ revocation_queue \in Seq(Jobs)
        /\ Owned(revocation_queue, revocation_records, revocation_workers)
    BY DEF TypeOK, JobsOwned, RevocationJobsOwned
  <2>3. Owned(Append(revocation_queue, j), revocation_records', revocation_workers)
    BY <2>1, <2>2, OwnedSubmit
  <2>4. QED
    BY <1>2, <2>3 DEF SubmitRevocation, JobsOwned, CommitmentJobsOwned, RevocationJobsOwned,
        commitmentVars
<1>3. QED
  BY <1>1, <1>2

\* A commitment worker moves its job, or takes one nobody holds.
LEMMA CommitmentWorkerOwned ==
    ASSUME TypeOK, JobsOwned, NEW w \in Workers, CommitmentWorker(w)
    PROVE  JobsOwned' /\ (NoSimulatedSleep => NoSimulatedSleep')
<1> DEFINE j == commitment_workers[w].job
<1>a. /\ commitment_workers \in [Workers -> Worker]
      /\ queue \in Seq(Jobs)
      /\ Owned(queue, records, commitment_workers)
  BY DEF TypeOK, JobsOwned, CommitmentJobsOwned
<1>b. ASSUME Owned(queue', records', commitment_workers'),
             UNCHANGED revocationVars
      PROVE  JobsOwned'
  BY <1>b DEF JobsOwned, CommitmentJobsOwned, RevocationJobsOwned, revocationVars
<1>1. CASE CommitmentGet(w)
  <2>1. Head(queue) \in Jobs /\ queue # << >>
    BY <1>1, HeadQueued DEF CommitmentGet
  <2>2. /\ records'[Head(queue)].status = "submitting"
        /\ \A k \in Jobs \ {Head(queue)} : records'[k].status = records[k].status
    BY <1>1, <2>1, SMT DEF CommitmentGet, TypeOK, CommitmentNow
  <2>3. Owned(Tail(queue), records', [commitment_workers EXCEPT
            ![w] = [phase |-> FirstPhase, job |-> Head(queue)]])
    BY <1>1, <1>a, <2>1, <2>2, OwnedGet DEF CommitmentGet
  <2>4. JobsOwned'
    BY <1>1, <1>b, <2>3 DEF CommitmentGet
  <2>5. NoSimulatedSleep => NoSimulatedSleep'
    BY <1>1, <1>a, SMT DEF CommitmentGet, FirstPhase, NoSimulatedSleep, revocationVars
  <2>6. QED
    BY <2>4, <2>5
<1>2. CASE CommitmentSubmitted(w)
  <2>1. j \in Jobs
    BY <1>2, CommitmentHeld DEF CommitmentSubmitted
  <2>2. /\ records'[j].status \in InProgress
        /\ \A k \in Jobs \ {j} : records'[k].status = records[k].status
    BY <1>2, <2>1, SMT DEF CommitmentSubmitted, TypeOK, CommitmentNow, InProgress
  <2>3. Owned(queue, records', [commitment_workers EXCEPT ![w].phase = "lookup"])
    BY <1>a, <2>1, <2>2, OwnedContinue
  <2>4. JobsOwned'
    BY <1>2, <1>b, <2>3 DEF CommitmentSubmitted
  <2>5. NoSimulatedSleep => NoSimulatedSleep'
    BY <1>2, <1>a, SMT DEF CommitmentSubmitted, NoSimulatedSleep, revocationVars
  <2>6. QED
    BY <2>4, <2>5
<1>3. ASSUME NEW status \in {"confirmed", "failed"}, NEW identifier,
             commitment_workers[w].phase # "idle", CommitmentEnds(w, status, identifier)
      PROVE  JobsOwned' /\ (NoSimulatedSleep => NoSimulatedSleep')
  <2>1. j \in Jobs
    BY <1>3, CommitmentHeld
  <2>2. /\ records'[j].status \in {"confirmed", "failed"}
        /\ \A k \in Jobs \ {j} : records'[k].status = records[k].status
    BY <1>3, <2>1, SMT DEF CommitmentEnds, TypeOK, CommitmentNow
  <2>3. Owned(queue, records', [commitment_workers EXCEPT ![w] = IdleWorker])
    BY <1>a, <2>1, <2>2, OwnedEnd
  <2>4. JobsOwned'
    BY <1>3, <1>b, <2>3 DEF CommitmentEnds
  <2>5. NoSimulatedSleep => NoSimulatedSleep'
    BY <1>3, <1>a, SMT DEF CommitmentEnds, IdleWorker, NoSimulatedSleep, revocationVars
  <2>6. QED
    BY <2>4, <2>5
<1>4. CASE CommitmentSimulatedFinality(w)
  BY <1>4, <1>3 DEF CommitmentSimulatedFinality
<1>5. CASE CommitmentCommandFails(w)
  BY <1>5, <1>3 DEF CommitmentCommandFails
<1>6. CASE CommitmentConfirmed(w)
  BY <1>6, <1>3 DEF CommitmentConfirmed
<1>7. CASE CommitmentLookupFails(w)
  BY <1>7, <1>3 DEF CommitmentLookupFails
<1>8. QED
  BY <1>1, <1>2, <1>4, <1>5, <1>6, <1>7 DEF CommitmentWorker

\* A revocation worker moves its job, or takes one nobody holds.
LEMMA RevocationWorkerOwned ==
    ASSUME TypeOK, JobsOwned, NEW w \in Workers, RevocationWorker(w)
    PROVE  JobsOwned' /\ (NoSimulatedSleep => NoSimulatedSleep')
<1> DEFINE j == revocation_workers[w].job
<1>a. /\ revocation_workers \in [Workers -> Worker]
      /\ revocation_queue \in Seq(Jobs)
      /\ Owned(revocation_queue, revocation_records, revocation_workers)
  BY DEF TypeOK, JobsOwned, RevocationJobsOwned
<1>b. ASSUME Owned(revocation_queue', revocation_records', revocation_workers'),
             UNCHANGED commitmentVars
      PROVE  JobsOwned'
  BY <1>b DEF JobsOwned, CommitmentJobsOwned, RevocationJobsOwned, commitmentVars
<1>1. CASE RevocationGet(w)
  <2>1. Head(revocation_queue) \in Jobs /\ revocation_queue # << >>
    BY <1>1, HeadQueued DEF RevocationGet
  <2>2. /\ revocation_records'[Head(revocation_queue)].status = "submitting"
        /\ \A k \in Jobs \ {Head(revocation_queue)} :
               revocation_records'[k].status = revocation_records[k].status
    BY <1>1, <2>1, SMT DEF RevocationGet, TypeOK, RevocationNow
  <2>3. Owned(Tail(revocation_queue), revocation_records', [revocation_workers EXCEPT
            ![w] = [phase |-> FirstPhase, job |-> Head(revocation_queue)]])
    BY <1>1, <1>a, <2>1, <2>2, OwnedGet DEF RevocationGet
  <2>4. JobsOwned'
    BY <1>1, <1>b, <2>3 DEF RevocationGet
  <2>5. NoSimulatedSleep => NoSimulatedSleep'
    BY <1>1, <1>a, SMT DEF RevocationGet, FirstPhase, NoSimulatedSleep, commitmentVars
  <2>6. QED
    BY <2>4, <2>5
<1>2. CASE RevocationSubmitted(w)
  <2>1. j \in Jobs
    BY <1>2, RevocationHeld DEF RevocationSubmitted
  <2>2. /\ revocation_records'[j].status \in InProgress
        /\ \A k \in Jobs \ {j} : revocation_records'[k].status = revocation_records[k].status
    BY <1>2, <2>1, SMT DEF RevocationSubmitted, TypeOK, RevocationNow, InProgress
  <2>3. Owned(revocation_queue, revocation_records',
              [revocation_workers EXCEPT ![w].phase = "lookup"])
    BY <1>a, <2>1, <2>2, OwnedContinue
  <2>4. JobsOwned'
    BY <1>2, <1>b, <2>3 DEF RevocationSubmitted
  <2>5. NoSimulatedSleep => NoSimulatedSleep'
    BY <1>2, <1>a, SMT DEF RevocationSubmitted, NoSimulatedSleep, commitmentVars
  <2>6. QED
    BY <2>4, <2>5
<1>3. ASSUME NEW status \in {"confirmed", "failed"}, NEW identifier,
             revocation_workers[w].phase # "idle", RevocationEnds(w, status, identifier)
      PROVE  JobsOwned' /\ (NoSimulatedSleep => NoSimulatedSleep')
  <2>1. j \in Jobs
    BY <1>3, RevocationHeld
  <2>2. /\ revocation_records'[j].status \in {"confirmed", "failed"}
        /\ \A k \in Jobs \ {j} : revocation_records'[k].status = revocation_records[k].status
    BY <1>3, <2>1, SMT DEF RevocationEnds, TypeOK, RevocationNow
  <2>3. Owned(revocation_queue, revocation_records',
              [revocation_workers EXCEPT ![w] = IdleWorker])
    BY <1>a, <2>1, <2>2, OwnedEnd
  <2>4. JobsOwned'
    BY <1>3, <1>b, <2>3 DEF RevocationEnds
  <2>5. NoSimulatedSleep => NoSimulatedSleep'
    BY <1>3, <1>a, SMT DEF RevocationEnds, IdleWorker, NoSimulatedSleep, commitmentVars
  <2>6. QED
    BY <2>4, <2>5
<1>4. CASE RevocationSimulatedFinality(w)
  BY <1>4, <1>3 DEF RevocationSimulatedFinality
<1>5. CASE RevocationCommandFails(w)
  BY <1>5, <1>3 DEF RevocationCommandFails
<1>6. CASE RevocationConfirmed(w)
  BY <1>6, <1>3 DEF RevocationConfirmed
<1>7. CASE RevocationLookupFails(w)
  BY <1>7, <1>3 DEF RevocationLookupFails
<1>8. QED
  BY <1>1, <1>2, <1>4, <1>5, <1>6, <1>7 DEF RevocationWorker

-----------------------------------------------------------------------------
(* The invariant.                                                          *)

\* The chain leaves the adapter alone, and what is final stays final.
LEMMA EnvironmentRecords ==
    ASSUME TypeOK, JobsOwned, RecordsOK, NoSimulatedSleep, NEW j \in Jobs, Chain(j)
    PROVE  JobsOwned' /\ RecordsOK' /\ NoSimulatedSleep'
<1>1. UNCHANGED <<commitmentVars, revocationVars, issued>>
  BY DEF Chain, ChainReceive, ChainExecute, ChainCheckpoint, ChainStep
<1>2. \A k \in Jobs : chain[k] = "final" => chain'[k] = "final"
  BY SMT DEF TypeOK, Chain, ChainReceive, ChainExecute, ChainCheckpoint, ChainStep
<1>3. JobsOwned' /\ NoSimulatedSleep'
  BY <1>1 DEF commitmentVars, revocationVars, JobsOwned, CommitmentJobsOwned,
      RevocationJobsOwned, NoSimulatedSleep
<1>4. ConfirmedIsFinal'
  BY <1>1, <1>2, SMT DEF commitmentVars, revocationVars, RecordsOK, ConfirmedIsFinal
<1>5. QED
  BY <1>1, <1>3, <1>4 DEF commitmentVars, revocationVars, RecordsOK, OneLiveCommitment,
      RevocationsAnchored, UnissuedAbsent, RecordsNameSessions

\* An empty memory satisfies everything: at the start and after a restart.
LEMMA EmptyMemory == MemoryEmpty => JobsOwned /\ RecordsOK /\ NoSimulatedSleep
<1> SUFFICES ASSUME MemoryEmpty
             PROVE  JobsOwned /\ RecordsOK /\ NoSimulatedSleep
  OBVIOUS
<1> USE DEF MemoryEmpty
<1>1. \A j \in Jobs : records[j].status = "absent" /\ revocation_records[j].status = "absent"
  BY SMT DEF NoCommitments, NoRevocations, NoCommitment, NoRevocation
<1>2. \A w \in Workers : /\ commitment_workers[w] = IdleWorker
                         /\ revocation_workers[w] = IdleWorker
  BY SMT DEF IdleWorkers
<1>3. \A j \in Jobs : Held(commitment_workers, j) = {} /\ Held(revocation_workers, j) = {}
  BY <1>2, NoneAssumption, SMT DEF Held, IdleWorker
<1>4. JobsOwned
  BY <1>1, <1>3, SMT DEF JobsOwned, CommitmentJobsOwned, RevocationJobsOwned, Owned, InProgress
<1>5. RecordsOK
  BY <1>1, SMT DEF RecordsOK, OneLiveCommitment, RevocationsAnchored, ConfirmedIsFinal,
      UnissuedAbsent, RecordsNameSessions
<1>6. NoSimulatedSleep
  BY <1>2, SMT DEF NoSimulatedSleep, IdleWorker
<1>7. QED
  BY <1>4, <1>5, <1>6

\* The invariant holds of a process that has just started.
LEMMA InitIInv == Init => IInv
BY InitTypeOK, EmptyMemory DEF Init, MemoryEmpty, IInv, RecordsOK

\* Every step keeps the invariant: one step of this proof per action.
LEMMA NextIInv == IInv /\ [Next]_vars => IInv'
<1> SUFFICES ASSUME IInv, [Next]_vars
             PROVE  IInv'
  OBVIOUS
<1>1. TypeOK /\ JobsOwned /\ RecordsOK /\ NoSimulatedSleep
  BY DEF IInv, RecordsOK
<1>2. ASSUME TypeOK', JobsOwned', RecordsOK', NoSimulatedSleep'
      PROVE  IInv'
  BY <1>2 DEF IInv, RecordsOK
<1>3. TypeOK'
  BY <1>1, NextTypeOK
<1>4. CASE ClientRequest
  <2>1. PICK s \in Sessions, j \in Jobs : \/ SubmitCommitment(s, j)
                                          \/ \E anchor \in Jobs : SubmitRevocation(s, anchor, j)
    BY <1>4 DEF ClientRequest
  <2>2. JobsOwned'
    BY <1>1, <2>1, SubmitOwned DEF RecordsOK
  <2>3. RecordsOK'
    BY <1>1, <2>1, SubmitRecords
  <2>4. NoSimulatedSleep'
    BY <1>1, <2>1 DEF SubmitCommitment, SubmitRevocation, commitmentVars, revocationVars,
        NoSimulatedSleep
  <2>5. QED
    BY <1>2, <1>3, <2>2, <2>3, <2>4
<1>5. CASE WorkerStep
  <2>1. PICK w \in Workers : CommitmentWorker(w) \/ RevocationWorker(w)
    BY <1>5 DEF WorkerStep
  <2>2. CASE CommitmentWorker(w)
    BY <1>1, <1>2, <1>3, <2>2, CommitmentWorkerRecords, CommitmentWorkerOwned
  <2>3. CASE RevocationWorker(w)
    BY <1>1, <1>2, <1>3, <2>3, RevocationWorkerRecords, RevocationWorkerOwned
  <2>4. QED
    BY <2>1, <2>2, <2>3
<1>6. ASSUME NEW j \in Jobs, Chain(j)
      PROVE  IInv'
  BY <1>1, <1>2, <1>3, <1>6, EnvironmentRecords
<1>7. CASE Restart
  <2>1. MemoryEmpty'
    BY <1>7 DEF Restart, MemoryEmpty
  <2>2. JobsOwned' /\ RecordsOK' /\ NoSimulatedSleep'
    BY <2>1, EmptyMemory, PTL
  <2>3. QED
    BY <1>2, <1>3, <2>2
<1>8. CASE UNCHANGED vars
  BY <1>8 DEF vars, commitmentVars, revocationVars, IInv, TypeOK, JobsOwned,
      CommitmentJobsOwned, RevocationJobsOwned, OneLiveCommitment, RevocationsAnchored,
      ConfirmedIsFinal, UnissuedAbsent, RecordsNameSessions, NoSimulatedSleep
<1>9. QED
  BY <1>4, <1>5, <1>6, <1>7, <1>8 DEF Next

-----------------------------------------------------------------------------
(* The theorems.                                                           *)

\* The adapter satisfies its inductive invariant.
THEOREM Invariance == Spec => []IInv
BY InitIInv, NextIInv, PTL DEF Spec

\* Every variable of the adapter keeps its type.
THEOREM TypeCorrect == Spec => []TypeOK
BY Invariance, PTL DEF IInv

\* No accepted job is lost and none is submitted twice, whatever the workers do.
THEOREM JobsStayOwned == Spec => []JobsOwned
BY Invariance, PTL DEF IInv

\* A session never has two commitments that have not failed.
THEOREM OneCommitment == Spec => []OneLiveCommitment
BY Invariance, PTL DEF IInv

\* An accepted revocation names its session's confirmed commitment for good.
THEOREM Anchored == Spec => []RevocationsAnchored
BY Invariance, PTL DEF IInv

\* In iota mode nothing is reported confirmed before it is in a checkpoint.
THEOREM Final == Spec => []ConfirmedIsFinal
BY Invariance, PTL DEF IInv

\* Neither a settled record nor a confirmed commitment's place is ever overwritten.
LEMMA StepSettles ==
    ASSUME IInv, [Next]_vars, restarts' = restarts
    PROVE  SettledStep
<1> USE DEF SettledStep
<1>1. TypeOK /\ JobsOwned /\ UnissuedAbsent /\ RecordsOK
  BY DEF IInv, RecordsOK
<1>2. ASSUME NEW s \in Sessions, NEW j \in Jobs, SubmitCommitment(s, j)
      PROVE  SettledStep
  <2>1. records[j].status = "absent"
    BY <1>1, <1>2 DEF SubmitCommitment, UnissuedAbsent
  <2>2. CommitmentAccepted(s)
    BY <1>2 DEF SubmitCommitment
  <2>3. \A k \in Jobs \ {j} : records'[k] = records[k]
    BY <1>1, <1>2, SMT DEF SubmitCommitment, TypeOK
  <2>4. \A t \in Sessions \ {s} :
            commitment_jobs_by_session'[t] = commitment_jobs_by_session[t]
    BY <1>1, <1>2, SMT DEF SubmitCommitment, TypeOK
  <2>5. \A t \in Sessions : commitment_jobs_by_session[t] \in Jobs \cup {None}
    BY <1>1, SMT DEF TypeOK
  <2>6. UNCHANGED revocation_records
    BY <1>2 DEF SubmitCommitment, revocationVars
  <2>7. QED
    BY <2>1, <2>2, <2>3, <2>4, <2>5, <2>6, SMT DEF CommitmentAccepted
<1>3. ASSUME NEW s \in Sessions, NEW j \in Jobs, NEW anchor \in Jobs,
             SubmitRevocation(s, anchor, j)
      PROVE  SettledStep
  <2>1. revocation_records[j].status = "absent"
    BY <1>1, <1>3 DEF SubmitRevocation, UnissuedAbsent
  <2>2. \A k \in Jobs \ {j} : revocation_records'[k] = revocation_records[k]
    BY <1>1, <1>3, SMT DEF SubmitRevocation, TypeOK
  <2>3. UNCHANGED commitmentVars
    BY <1>3 DEF SubmitRevocation
  <2>4. QED
    BY <2>1, <2>2, <2>3, SMT DEF commitmentVars
<1>4. ASSUME NEW w \in Workers, CommitmentWorker(w)
      PROVE  SettledStep
  <2>1. UNCHANGED <<commitment_jobs_by_session, revocation_records>>
    BY <1>4 DEF CommitmentWorker, CommitmentGet, CommitmentSimulatedFinality,
        CommitmentSubmitted, CommitmentCommandFails, CommitmentConfirmed,
        CommitmentLookupFails, CommitmentEnds, revocationVars
  <2>2. CASE CommitmentGet(w)
    <3>1. Head(queue) \in Jobs /\ records[Head(queue)].status = "queued"
      BY <1>1, <2>2, HeadQueued DEF CommitmentGet
    <3>2. \A k \in Jobs \ {Head(queue)} : records'[k] = records[k]
      BY <1>1, <2>2, <3>1, SMT DEF CommitmentGet, TypeOK
    <3>3. QED
      BY <2>1, <3>1, <3>2, SMT
  <2>3. CASE ~CommitmentGet(w)
    <3> DEFINE j == commitment_workers[w].job
    <3>1. j \in Jobs /\ records[j].status \in InProgress
      BY <1>1, <1>4, <2>3, CommitmentHeld DEF CommitmentWorker, CommitmentSimulatedFinality,
          CommitmentSubmitted, CommitmentCommandFails, CommitmentConfirmed, CommitmentLookupFails
    <3>2. \A k \in Jobs \ {j} : records'[k] = records[k]
      BY <1>1, <1>4, <2>3, <3>1, SMT DEF TypeOK, CommitmentWorker, CommitmentSimulatedFinality,
          CommitmentSubmitted, CommitmentCommandFails, CommitmentConfirmed,
          CommitmentLookupFails, CommitmentEnds
    <3>3. QED
      BY <2>1, <3>1, <3>2, SMT DEF InProgress
  <2>4. QED
    BY <2>2, <2>3
<1>5. ASSUME NEW w \in Workers, RevocationWorker(w)
      PROVE  SettledStep
  <2>1. UNCHANGED <<commitment_jobs_by_session, records>>
    BY <1>5 DEF RevocationWorker, RevocationGet, RevocationSimulatedFinality,
        RevocationSubmitted, RevocationCommandFails, RevocationConfirmed,
        RevocationLookupFails, RevocationEnds, commitmentVars
  <2>2. CASE RevocationGet(w)
    <3>1. /\ Head(revocation_queue) \in Jobs
          /\ revocation_records[Head(revocation_queue)].status = "queued"
      BY <1>1, <2>2, HeadQueued DEF RevocationGet
    <3>2. \A k \in Jobs \ {Head(revocation_queue)} :
              revocation_records'[k] = revocation_records[k]
      BY <1>1, <2>2, <3>1, SMT DEF RevocationGet, TypeOK
    <3>3. QED
      BY <2>1, <3>1, <3>2, SMT
  <2>3. CASE ~RevocationGet(w)
    <3> DEFINE j == revocation_workers[w].job
    <3>1. j \in Jobs /\ revocation_records[j].status \in InProgress
      BY <1>1, <1>5, <2>3, RevocationHeld DEF RevocationWorker, RevocationSimulatedFinality,
          RevocationSubmitted, RevocationCommandFails, RevocationConfirmed, RevocationLookupFails
    <3>2. \A k \in Jobs \ {j} : revocation_records'[k] = revocation_records[k]
      BY <1>1, <1>5, <2>3, <3>1, SMT DEF TypeOK, RevocationWorker, RevocationSimulatedFinality,
          RevocationSubmitted, RevocationCommandFails, RevocationConfirmed,
          RevocationLookupFails, RevocationEnds
    <3>3. QED
      BY <2>1, <3>1, <3>2, SMT DEF InProgress
  <2>4. QED
    BY <2>2, <2>3
<1>6. CASE UNCHANGED <<commitmentVars, revocationVars>>
  BY <1>6, SMT DEF commitmentVars, revocationVars
<1>7. ASSUME NEW j \in Jobs, Chain(j)
      PROVE  UNCHANGED <<commitmentVars, revocationVars>>
  BY <1>7 DEF Chain, ChainReceive, ChainExecute, ChainCheckpoint, ChainStep
<1>8. ~Restart
  BY <1>1, RestartAssumption, SMT DEF Restart, TypeOK
<1>9. CASE ClientRequest
  BY <1>2, <1>3, <1>9 DEF ClientRequest
<1>10. CASE WorkerStep
  BY <1>4, <1>5, <1>10 DEF WorkerStep
<1>11. QED
  BY <1>6, <1>7, <1>8, <1>9, <1>10 DEF Next, vars

\* While the process lives, a settled record is settled for good and a session's
\* confirmed commitment is never replaced.
THEOREM SettledStaySettled == Spec => SettledForGood
<1>1. IInv /\ [Next]_vars => [restarts' = restarts => SettledStep]_vars
  BY StepSettles
<1>2. QED
  BY <1>1, Invariance, PTL DEF Spec, SettledForGood

-----------------------------------------------------------------------------
(* Simulated finality.                                                     *)

\* In simulated mode a commitment worker only sleeps, so no commitment fails.
NothingFails ==
    LedgerMode = "simulated" =>
        /\ \A j \in Jobs : records[j].status # "failed"
        /\ \A w \in Workers : commitment_workers[w].phase \in {"idle", "sleeping"}

\* Every step keeps it.
LEMMA NextNothingFails == TypeOK /\ NothingFails /\ [Next]_vars => NothingFails'
<1> SUFFICES ASSUME TypeOK, NothingFails, [Next]_vars, LedgerMode = "simulated"
             PROVE  /\ \A j \in Jobs : records'[j].status # "failed"
                    /\ \A w \in Workers :
                           commitment_workers'[w].phase \in {"idle", "sleeping"}
  BY DEF NothingFails
<1>1. /\ \A j \in Jobs : records[j].status # "failed"
      /\ \A w \in Workers : commitment_workers[w].phase \in {"idle", "sleeping"}
  BY DEF NothingFails
<1>2. CASE UNCHANGED commitmentVars
  BY <1>1, <1>2 DEF commitmentVars
<1>3. CASE ClientRequest
  <2>1. PICK s \in Sessions, j \in Jobs : \/ SubmitCommitment(s, j)
                                          \/ \E anchor \in Jobs : SubmitRevocation(s, anchor, j)
    BY <1>3 DEF ClientRequest
  <2>2. CASE SubmitCommitment(s, j)
    BY <1>1, <2>2, SMT DEF SubmitCommitment, TypeOK
  <2>3. QED
    BY <1>2, <2>1, <2>2 DEF SubmitRevocation
<1>4. ASSUME NEW w \in Workers, CommitmentWorker(w)
      PROVE  /\ \A j \in Jobs : records'[j].status # "failed"
             /\ \A v \in Workers : commitment_workers'[v].phase \in {"idle", "sleeping"}
  <2>1. CASE CommitmentGet(w)
    <3>1. Head(queue) \in Jobs
      BY <2>1, SMT DEF CommitmentGet, TypeOK
    <3>2. \A j \in Jobs : records'[j].status # "failed"
      BY <1>1, <2>1, <3>1, SMT DEF CommitmentGet, CommitmentNow, TypeOK
    <3>3. \A v \in Workers : commitment_workers'[v].phase \in {"idle", "sleeping"}
      BY <1>1, <2>1, SMT DEF CommitmentGet, FirstPhase, TypeOK
    <3>4. QED
      BY <3>2, <3>3
  <2>2. CASE CommitmentSimulatedFinality(w)
    <3>1. commitment_workers[w].job \in Jobs
      BY <2>2, SMT DEF CommitmentSimulatedFinality, TypeOK, Worker
    <3>2. \A j \in Jobs : records'[j].status # "failed"
      BY <1>1, <2>2, <3>1, SMT DEF CommitmentSimulatedFinality, CommitmentEnds,
          CommitmentNow, TypeOK
    <3>3. \A v \in Workers : commitment_workers'[v].phase \in {"idle", "sleeping"}
      BY <1>1, <2>2, SMT DEF CommitmentSimulatedFinality, CommitmentEnds, IdleWorker, TypeOK
    <3>4. QED
      BY <3>2, <3>3
  <2>3. commitment_workers[w].phase \notin {"command", "lookup"}
    BY <1>1
  <2>4. QED
    BY <1>4, <2>1, <2>2, <2>3 DEF CommitmentWorker, CommitmentSubmitted,
        CommitmentCommandFails, CommitmentConfirmed, CommitmentLookupFails
<1>5. ASSUME NEW w \in Workers, RevocationWorker(w)
      PROVE  UNCHANGED commitmentVars
  BY <1>5 DEF RevocationWorker, RevocationGet, RevocationSimulatedFinality,
      RevocationSubmitted, RevocationCommandFails, RevocationConfirmed,
      RevocationLookupFails, RevocationEnds
<1>6. ASSUME NEW j \in Jobs, Chain(j)
      PROVE  UNCHANGED commitmentVars
  BY <1>6 DEF Chain, ChainReceive, ChainExecute, ChainCheckpoint, ChainStep
<1>7. CASE Restart
  BY <1>7, SMT DEF Restart, NoCommitments, NoCommitment, IdleWorkers, IdleWorker
<1>8. QED
  BY <1>2, <1>3, <1>4, <1>5, <1>6, <1>7 DEF Next, WorkerStep, vars

\* In simulated mode a session is committed only once, whatever its clients ask
\* and whenever they ask it: the job the session remembers has not failed.
THEOREM SimulatedOnce == Spec => []SimulatedCommitsOnce
<1>1. Init => NothingFails
  BY SMT DEF Init, NothingFails, NoCommitments, NoCommitment, IdleWorkers, IdleWorker
<1>2. IInv /\ NothingFails => SimulatedCommitsOnce
  BY DEF IInv, OneLiveCommitment, NothingFails, SimulatedCommitsOnce
<1>3. QED
  BY <1>1, <1>2, Invariance, NextNothingFails, PTL DEF Spec, IInv

-----------------------------------------------------------------------------
(* What the adapter keeps for the gateways that call it.                   *)

\* The revocation a session's entry names is one of that session, a confirmed
\* revocation is identified by its transaction, and in simulated mode, where it
\* has none, no revocation worker runs a command.
RevocationsFiled ==
    \A s \in Sessions, j \in Jobs :
        revocation_jobs_by_session[s] = j =>
            revocation_records[j].status # "absent" /\ revocation_records[j].session = s

RevocationsIdentified ==
    \A j \in Jobs :
        revocation_records[j].status = "confirmed" =>
            revocation_records[j].ledger_identifier = IF LedgerMode = "iota" THEN j ELSE None

RevocationsSleep ==
    LedgerMode = "simulated" =>
        \A w \in Workers : revocation_workers[w].phase \in {"idle", "sleeping"}

RevocationsTraced == RevocationsFiled /\ RevocationsIdentified /\ RevocationsSleep

\* A revocation record that exists keeps its session and its existence.
RevocationsKept ==
    \A j \in Jobs :
        revocation_records[j].status # "absent" =>
            /\ revocation_records'[j].status # "absent"
            /\ revocation_records'[j].session = revocation_records[j].session

\* A revocation record appears only under an identifier just drawn.
RevocationsOld ==
    \A j \in Jobs :
        revocation_records'[j].status # "absent" =>
            \/ /\ revocation_records[j].status # "absent"
               /\ revocation_records'[j].session = revocation_records[j].session
            \/ j \in issued' \ issued

\* A step of a revocation worker keeps what a record is about.
LEMMA RevocationWorkerTraced ==
    ASSUME IInv, RevocationsTraced, NEW w \in Workers, RevocationWorker(w)
    PROVE  RevocationsTraced' /\ RevocationsKept /\ RevocationsOld
<1>1. TypeOK /\ JobsOwned /\ NoSimulatedSleep
  BY DEF IInv
<1>2. UNCHANGED revocation_jobs_by_session
  BY DEF RevocationWorker, RevocationGet, RevocationSimulatedFinality, RevocationSubmitted,
      RevocationCommandFails, RevocationConfirmed, RevocationLookupFails, RevocationEnds
<1>3. ASSUME NEW j \in Jobs, NEW status, status # "absent", NEW identifier,
             revocation_records[j].status # "absent",
             revocation_records' = [revocation_records EXCEPT
                 ![j] = RevocationNow(@, status, identifier)],
             status = "confirmed" => identifier = IF LedgerMode = "iota" THEN j ELSE None
      PROVE  RevocationsFiled' /\ RevocationsIdentified' /\ RevocationsKept /\ RevocationsOld
  <2>1. \A k \in Jobs \ {j} : revocation_records'[k] = revocation_records[k]
    BY <1>1, <1>3, SMT DEF TypeOK
  <2>2. /\ revocation_records'[j].status = status
        /\ revocation_records'[j].session = revocation_records[j].session
        /\ revocation_records'[j].ledger_identifier = identifier
    BY <1>1, <1>3, SMT DEF TypeOK, RevocationNow
  <2>3. RevocationsKept
    BY <1>3, <2>1, <2>2, SMT DEF RevocationsKept
  <2>4. RevocationsFiled'
    BY <1>2, <2>3, SMT DEF RevocationsTraced, RevocationsFiled, RevocationsKept
  <2>5. RevocationsIdentified'
    BY <1>3, <2>1, <2>2, SMT DEF RevocationsTraced, RevocationsIdentified
  <2>6. RevocationsOld
    BY <1>3, <2>1, <2>2, SMT DEF RevocationsOld
  <2>7. QED
    BY <2>3, <2>4, <2>5, <2>6
<1>4. CASE RevocationGet(w)
  <2> DEFINE j == Head(revocation_queue)
  <2>1. j \in Jobs /\ revocation_records[j].status = "queued"
    BY <1>1, <1>4, HeadQueued DEF RevocationGet
  <2>2. RevocationsSleep'
    BY <1>1, <1>4, SMT DEF RevocationGet, FirstPhase, TypeOK, RevocationsTraced,
        RevocationsSleep
  <2>3. revocation_records' = [revocation_records EXCEPT
            ![j] = RevocationNow(@, "submitting", @.ledger_identifier)]
    BY <1>4 DEF RevocationGet
  <2>4. RevocationsFiled' /\ RevocationsIdentified' /\ RevocationsKept /\ RevocationsOld
    BY <1>3, <2>1, <2>3
  <2>5. QED
    BY <2>2, <2>4 DEF RevocationsTraced
<1>5. CASE ~RevocationGet(w)
  <2> DEFINE j == revocation_workers[w].job
  <2>1. j \in Jobs /\ revocation_records[j].status # "absent"
    <3>1. j \in Jobs /\ revocation_records[j].status \in InProgress
      BY <1>1, <1>5, RevocationHeld DEF RevocationWorker, RevocationSimulatedFinality,
          RevocationSubmitted, RevocationCommandFails, RevocationConfirmed, RevocationLookupFails
    <3>2. QED
      BY <3>1 DEF InProgress
  <2>2. LedgerMode = "iota" \/ LedgerMode = "simulated"
    BY ModeAssumption
  <2>3. RevocationsSleep'
    <3>1. SUFFICES ASSUME LedgerMode = "simulated"
                   PROVE  \A v \in Workers : revocation_workers'[v].phase \in {"idle", "sleeping"}
      BY DEF RevocationsSleep
    <3>2. \A v \in Workers : revocation_workers[v].phase \in {"idle", "sleeping"}
      BY <3>1 DEF RevocationsTraced, RevocationsSleep
    <3>3. RevocationSimulatedFinality(w)
      BY <1>5, <3>2 DEF RevocationWorker, RevocationSubmitted, RevocationCommandFails,
          RevocationConfirmed, RevocationLookupFails
    <3>4. QED
      BY <1>1, <3>2, <3>3, SMT DEF RevocationSimulatedFinality, RevocationEnds, IdleWorker,
          TypeOK
  <2>4. CASE RevocationSimulatedFinality(w)
    <3>1. LedgerMode # "iota"
      BY <1>1, <2>4 DEF NoSimulatedSleep, RevocationSimulatedFinality
    <3>2. revocation_records' = [revocation_records EXCEPT
              ![j] = RevocationNow(@, "confirmed", None)]
      BY <2>4 DEF RevocationSimulatedFinality, RevocationEnds
    <3>3. QED
      BY <1>3, <2>1, <2>3, <3>1, <3>2 DEF RevocationsTraced
  <2>5. CASE RevocationSubmitted(w)
    <3>1. revocation_records' = [revocation_records EXCEPT
              ![j] = RevocationNow(@, "confirming", j)]
      BY <2>5 DEF RevocationSubmitted
    <3>2. "confirming" # "absent" /\ "confirming" # "confirmed"
      OBVIOUS
    <3>3. RevocationsFiled' /\ RevocationsIdentified' /\ RevocationsKept /\ RevocationsOld
      BY <1>3, <2>1, <3>1, <3>2
    <3>4. QED
      BY <2>3, <3>3 DEF RevocationsTraced
  <2>6. CASE RevocationCommandFails(w) \/ RevocationLookupFails(w)
    <3>1. revocation_records' = [revocation_records EXCEPT
              ![j] = RevocationNow(@, "failed", revocation_records[j].ledger_identifier)]
      BY <2>6 DEF RevocationCommandFails, RevocationLookupFails, RevocationEnds
    <3>2. "failed" # "absent" /\ "failed" # "confirmed"
      OBVIOUS
    <3>3. RevocationsFiled' /\ RevocationsIdentified' /\ RevocationsKept /\ RevocationsOld
      BY <1>3, <2>1, <3>1, <3>2
    <3>4. QED
      BY <2>3, <3>3 DEF RevocationsTraced
  <2>7. CASE RevocationConfirmed(w)
    <3>1. LedgerMode = "iota"
      BY <2>2, <2>7 DEF RevocationConfirmed, RevocationsTraced, RevocationsSleep
    <3>2. revocation_records' = [revocation_records EXCEPT
              ![j] = RevocationNow(@, "confirmed", j)]
      BY <2>7 DEF RevocationConfirmed, RevocationEnds
    <3>3. QED
      BY <1>3, <2>1, <2>3, <3>1, <3>2 DEF RevocationsTraced
  <2>8. QED
    BY <1>5, <2>4, <2>5, <2>6, <2>7 DEF RevocationWorker
<1>6. QED
  BY <1>4, <1>5

\* So does every step; only a restart loses records.
LEMMA NextTraced ==
    ASSUME IInv, RevocationsTraced, [Next]_vars
    PROVE  RevocationsTraced' /\ RevocationsOld /\ (restarts' = restarts => RevocationsKept)
<1> DEFINE Goal == /\ RevocationsTraced' /\ RevocationsOld
                   /\ restarts' = restarts => RevocationsKept
<1>1. TypeOK /\ UnissuedAbsent
  BY DEF IInv
<1>2. CASE UNCHANGED revocationVars
  BY <1>2 DEF revocationVars, RevocationsTraced, RevocationsFiled, RevocationsIdentified,
      RevocationsSleep, RevocationsKept, RevocationsOld
<1>3. ASSUME NEW s \in Sessions, NEW anchor \in Jobs, NEW j \in Jobs,
             SubmitRevocation(s, anchor, j)
      PROVE  Goal
  <2>1. revocation_records[j].status = "absent"
    BY <1>1, <1>3 DEF SubmitRevocation, UnissuedAbsent
  <2>2. \A k \in Jobs \ {j} : revocation_records'[k] = revocation_records[k]
    BY <1>1, <1>3, SMT DEF SubmitRevocation, TypeOK
  <2>3. revocation_records'[j].status = "queued" /\ revocation_records'[j].session = s
    BY <1>1, <1>3, SMT DEF SubmitRevocation, TypeOK
  <2>4. \A t \in Sessions :
            revocation_jobs_by_session'[t] = IF t = s THEN j ELSE revocation_jobs_by_session[t]
    BY <1>1, <1>3, SMT DEF SubmitRevocation, TypeOK
  <2>5. RevocationsKept /\ RevocationsOld
    <3>1. j \in issued' \ issued
      BY <1>1, <1>3, SMT DEF SubmitRevocation, TypeOK
    <3>2. QED
      BY <2>1, <2>2, <3>1 DEF RevocationsKept, RevocationsOld
  <2>6. RevocationsFiled'
    BY <2>1, <2>2, <2>3, <2>4, SMT DEF RevocationsTraced, RevocationsFiled
  <2>7. RevocationsIdentified'
    BY <2>2, <2>3, SMT DEF RevocationsTraced, RevocationsIdentified
  <2>8. RevocationsSleep'
    BY <1>3 DEF SubmitRevocation, RevocationsTraced, RevocationsSleep
  <2>9. QED
    BY <2>5, <2>6, <2>7, <2>8 DEF RevocationsTraced
<1>4. ASSUME NEW s \in Sessions, NEW j \in Jobs, SubmitCommitment(s, j)
      PROVE  UNCHANGED revocationVars
  BY <1>4 DEF SubmitCommitment
<1>5. ASSUME NEW w \in Workers, CommitmentWorker(w)
      PROVE  UNCHANGED revocationVars
  BY <1>5 DEF CommitmentWorker, CommitmentGet, CommitmentSimulatedFinality,
      CommitmentSubmitted, CommitmentCommandFails, CommitmentConfirmed,
      CommitmentLookupFails, CommitmentEnds
<1>6. ASSUME NEW j \in Jobs, Chain(j)
      PROVE  UNCHANGED revocationVars
  BY <1>6 DEF Chain, ChainReceive, ChainExecute, ChainCheckpoint, ChainStep
<1>7. CASE Restart
  <2>1. restarts' # restarts
    BY <1>1, <1>7, RestartAssumption, SMT DEF Restart, TypeOK
  <2>2. /\ \A s \in Sessions : revocation_jobs_by_session'[s] \notin Jobs
        /\ \A j \in Jobs : revocation_records'[j].status = "absent"
        /\ \A w \in Workers : revocation_workers'[w].phase = "idle"
    BY <1>7, NoneAssumption, SMT DEF Restart, NoJobs, NoRevocations, NoRevocation, IdleWorkers,
        IdleWorker
  <2>3. QED
    BY <2>1, <2>2 DEF RevocationsTraced, RevocationsFiled, RevocationsIdentified,
        RevocationsSleep, RevocationsOld
<1>8. CASE ClientRequest
  BY <1>2, <1>3, <1>4, <1>8 DEF ClientRequest
<1>9. CASE WorkerStep
  BY <1>2, <1>5, <1>9, RevocationWorkerTraced DEF WorkerStep
<1>10. QED
  BY <1>2, <1>6, <1>7, <1>8, <1>9 DEF Next, vars

\* A step of the adapter of its own, that no caller asks for.
OwnStep == WorkerStep \/ (\E j \in Jobs : Chain(j)) \/ Restart

\* A worker moves the record of one job on, and no session to another job.
CommitmentMoved(j) ==
    /\ records[j].status \in InProgress \cup {"queued"}
    /\ records'[j].status \in InProgress \cup {"confirmed", "failed"}
    /\ records'[j].session = records[j].session
    /\ \A k \in Jobs \ {j} : records'[k] = records[k]
    /\ UNCHANGED <<commitment_jobs_by_session, revocation_records>>

RevocationMoved(j) ==
    /\ revocation_records[j].status \in InProgress \cup {"queued"}
    /\ revocation_records'[j].status \in InProgress \cup {"confirmed", "failed"}
    /\ revocation_records'[j].session = revocation_records[j].session
    /\ \A k \in Jobs \ {j} : revocation_records'[k] = revocation_records[k]
    /\ UNCHANGED <<commitment_jobs_by_session, records>>

LEMMA CommitmentWorkerMoves ==
    ASSUME IInv, NEW w \in Workers, CommitmentWorker(w)
    PROVE  \E j \in Jobs : CommitmentMoved(j)
<1>1. TypeOK /\ JobsOwned
  BY DEF IInv
<1>2. UNCHANGED <<commitment_jobs_by_session, revocation_records>>
  BY DEF CommitmentWorker, CommitmentGet, CommitmentSimulatedFinality, CommitmentSubmitted,
      CommitmentCommandFails, CommitmentConfirmed, CommitmentLookupFails, CommitmentEnds,
      revocationVars
<1>3. ASSUME NEW j \in Jobs, NEW status \in InProgress \cup {"confirmed", "failed"},
             NEW identifier, records[j].status \in InProgress \cup {"queued"},
             records' = [records EXCEPT ![j] = CommitmentNow(@, status, identifier)]
      PROVE  CommitmentMoved(j)
  <2>1. /\ records'[j] = CommitmentNow(records[j], status, identifier)
        /\ \A k \in Jobs \ {j} : records'[k] = records[k]
    BY <1>1, <1>3, SMT DEF TypeOK
  <2>2. records'[j].status = status /\ records'[j].session = records[j].session
    BY <2>1 DEF CommitmentNow
  <2>3. QED
    BY <1>2, <1>3, <2>1, <2>2 DEF CommitmentMoved
<1>4. CASE CommitmentGet(w)
  <2>1. Head(queue) \in Jobs /\ records[Head(queue)].status = "queued"
    BY <1>1, <1>4, HeadQueued DEF CommitmentGet
  <2>2. records' = [records EXCEPT ![Head(queue)] =
            CommitmentNow(@, "submitting", @.ledger_identifier)]
    BY <1>4 DEF CommitmentGet
  <2>3. QED
    BY <1>3, <2>1, <2>2 DEF InProgress
<1>5. CASE ~CommitmentGet(w)
  <2> DEFINE j == commitment_workers[w].job
  <2>1. j \in Jobs /\ records[j].status \in InProgress
    BY <1>1, <1>5, CommitmentHeld DEF CommitmentWorker, CommitmentSimulatedFinality,
        CommitmentSubmitted, CommitmentCommandFails, CommitmentConfirmed, CommitmentLookupFails
  <2>2. \E status \in {"confirming", "confirmed", "failed"} : \E identifier :
            records' = [records EXCEPT ![j] = CommitmentNow(@, status, identifier)]
    BY <1>5 DEF CommitmentWorker, CommitmentSimulatedFinality, CommitmentSubmitted,
        CommitmentCommandFails, CommitmentConfirmed, CommitmentLookupFails, CommitmentEnds
  <2>3. QED
    BY <1>3, <2>1, <2>2 DEF InProgress
<1>6. QED
  BY <1>4, <1>5

LEMMA RevocationWorkerMoves ==
    ASSUME IInv, NEW w \in Workers, RevocationWorker(w)
    PROVE  \E j \in Jobs : RevocationMoved(j)
<1>1. TypeOK /\ JobsOwned
  BY DEF IInv
<1>2. UNCHANGED <<commitment_jobs_by_session, records>>
  BY DEF RevocationWorker, RevocationGet, RevocationSimulatedFinality, RevocationSubmitted,
      RevocationCommandFails, RevocationConfirmed, RevocationLookupFails, RevocationEnds,
      commitmentVars
<1>3. ASSUME NEW j \in Jobs, NEW status \in InProgress \cup {"confirmed", "failed"},
             NEW identifier, revocation_records[j].status \in InProgress \cup {"queued"},
             revocation_records' = [revocation_records EXCEPT
                 ![j] = RevocationNow(@, status, identifier)]
      PROVE  RevocationMoved(j)
  <2>1. /\ revocation_records'[j] = RevocationNow(revocation_records[j], status, identifier)
        /\ \A k \in Jobs \ {j} : revocation_records'[k] = revocation_records[k]
    BY <1>1, <1>3, SMT DEF TypeOK
  <2>2. /\ revocation_records'[j].status = status
        /\ revocation_records'[j].session = revocation_records[j].session
    BY <2>1 DEF RevocationNow
  <2>3. QED
    BY <1>2, <1>3, <2>1, <2>2 DEF RevocationMoved
<1>4. CASE RevocationGet(w)
  <2>1. /\ Head(revocation_queue) \in Jobs
        /\ revocation_records[Head(revocation_queue)].status = "queued"
    BY <1>1, <1>4, HeadQueued DEF RevocationGet
  <2>2. revocation_records' = [revocation_records EXCEPT ![Head(revocation_queue)] =
            RevocationNow(@, "submitting", @.ledger_identifier)]
    BY <1>4 DEF RevocationGet
  <2>3. QED
    BY <1>3, <2>1, <2>2 DEF InProgress
<1>5. CASE ~RevocationGet(w)
  <2> DEFINE j == revocation_workers[w].job
  <2>1. j \in Jobs /\ revocation_records[j].status \in InProgress
    BY <1>1, <1>5, RevocationHeld DEF RevocationWorker, RevocationSimulatedFinality,
        RevocationSubmitted, RevocationCommandFails, RevocationConfirmed, RevocationLookupFails
  <2>2. \E status \in {"confirming", "confirmed", "failed"} : \E identifier :
            revocation_records' = [revocation_records EXCEPT
                ![j] = RevocationNow(@, status, identifier)]
    BY <1>5 DEF RevocationWorker, RevocationSimulatedFinality, RevocationSubmitted,
        RevocationCommandFails, RevocationConfirmed, RevocationLookupFails, RevocationEnds
  <2>3. QED
    BY <1>3, <2>1, <2>2 DEF InProgress
<1>6. QED
  BY <1>4, <1>5

\* What the gateways see of a step of the adapter of its own: a record moves on,
\* nothing does, or the adapter restarts and everything is gone.
LEMMA OwnStepSeen ==
    ASSUME IInv, OwnStep
    PROVE  \/ \E j \in Jobs : CommitmentMoved(j) \/ RevocationMoved(j)
           \/ UNCHANGED <<records, commitment_jobs_by_session, revocation_records>>
           \/ /\ \A j \in Jobs : /\ records'[j].status = "absent"
                                 /\ revocation_records'[j].status = "absent"
              /\ \A s \in Sessions : commitment_jobs_by_session'[s] = None
<1>1. ASSUME NEW j \in Jobs, Chain(j)
      PROVE  UNCHANGED <<records, commitment_jobs_by_session, revocation_records>>
  BY <1>1 DEF Chain, ChainReceive, ChainExecute, ChainCheckpoint, ChainStep, commitmentVars,
      revocationVars
<1>2. CASE Restart
  <2>1. \A j \in Jobs : records'[j].status = "absent" /\ revocation_records'[j].status = "absent"
    BY <1>2, SMT DEF Restart, NoCommitments, NoCommitment, NoRevocations, NoRevocation
  <2>2. SUFFICES ASSUME NEW s \in Sessions
                 PROVE  commitment_jobs_by_session'[s] = None
    BY <2>1
  <2>3. QED
    BY <1>2 DEF Restart, NoJobs
<1>3. QED
  BY <1>1, <1>2, CommitmentWorkerMoves, RevocationWorkerMoves DEF OwnStep, WorkerStep

\* The commitment a session's entry names is one of that session, so no two
\* sessions share a job.
CommitmentsFiled ==
    \A s \in Sessions, j \in Jobs :
        commitment_jobs_by_session[s] = j =>
            records[j].status # "absent" /\ records[j].session = s

LEMMA NextFiled ==
    ASSUME IInv, CommitmentsFiled, [Next]_vars
    PROVE  CommitmentsFiled'
<1>1. TypeOK /\ UnissuedAbsent
  BY DEF IInv
<1>2. CASE UNCHANGED <<records, commitment_jobs_by_session>>
  BY <1>2 DEF CommitmentsFiled
<1>3. ASSUME NEW s \in Sessions, NEW j \in Jobs, SubmitCommitment(s, j)
      PROVE  CommitmentsFiled'
  <2>1. records[j].status = "absent"
    BY <1>1, <1>3 DEF SubmitCommitment, UnissuedAbsent
  <2>2. \A k \in Jobs \ {j} : records'[k] = records[k]
    BY <1>1, <1>3, SMT DEF SubmitCommitment, TypeOK
  <2>3. records'[j].status = "queued" /\ records'[j].session = s
    BY <1>1, <1>3, SMT DEF SubmitCommitment, TypeOK
  <2>4. \A t \in Sessions :
            commitment_jobs_by_session'[t] = IF t = s THEN j ELSE commitment_jobs_by_session[t]
    BY <1>1, <1>3, SMT DEF SubmitCommitment, TypeOK
  <2>5. QED
    BY <2>1, <2>2, <2>3, <2>4, SMT DEF CommitmentsFiled
<1>4. ASSUME NEW s \in Sessions, NEW anchor \in Jobs, NEW j \in Jobs,
             SubmitRevocation(s, anchor, j)
      PROVE  UNCHANGED <<records, commitment_jobs_by_session>>
  BY <1>4 DEF SubmitRevocation, commitmentVars
<1>5. ASSUME NEW j \in Jobs, CommitmentMoved(j)
      PROVE  CommitmentsFiled'
  BY <1>5, SMT DEF CommitmentMoved, CommitmentsFiled, InProgress
<1>6. ASSUME NEW j \in Jobs, RevocationMoved(j)
      PROVE  UNCHANGED <<records, commitment_jobs_by_session>>
  BY <1>6 DEF RevocationMoved
<1>7. ASSUME \A s \in Sessions : commitment_jobs_by_session'[s] = None
      PROVE  CommitmentsFiled'
  BY <1>7, NoneAssumption DEF CommitmentsFiled
<1>8. CASE OwnStep
  BY <1>2, <1>5, <1>6, <1>7, <1>8, OwnStepSeen
<1>9. CASE ClientRequest
  BY <1>2, <1>3, <1>4, <1>9 DEF ClientRequest
<1>10. QED
  BY <1>2, <1>8, <1>9 DEF Next, OwnStep, vars, commitmentVars

\* What holds of the adapter in every state, whoever calls it ...
CallerInv == IInv /\ RevocationsTraced /\ CommitmentsFiled

LEMMA InitCallerInv == Init => CallerInv
BY InitIInv, NoneAssumption, SMT DEF Init, CallerInv, RevocationsTraced, RevocationsFiled,
    RevocationsIdentified, RevocationsSleep, CommitmentsFiled, NoJobs, NoRevocations,
    NoRevocation, IdleWorkers, IdleWorker

\* ... and what a step keeps: nothing on the chain is undone, and of the adapter's
\* records only a restart takes away what its callers may have acted on.
LEMMA StepKeeps ==
    ASSUME CallerInv, [Next]_vars
    PROVE  /\ CallerInv' /\ RevocationsOld
           /\ \A j \in Jobs : chain[j] = "final" => chain'[j] = "final"
           /\ restarts' = 0 => restarts = 0 /\ SettledStep /\ RevocationsKept
<1> USE DEF CallerInv
<1>1. CallerInv' /\ RevocationsOld
  BY NextIInv, NextTraced, NextFiled
<1>2. TypeOK
  BY DEF IInv
<1>3. ASSUME NEW j \in Jobs, chain[j] = "final"
      PROVE  chain'[j] = "final"
  <2>1. CASE UNCHANGED chain
    BY <1>3, <2>1
  <2>2. ASSUME NEW k \in Jobs, Chain(k)
        PROVE  chain'[j] = "final"
    BY <1>2, <1>3, <2>2, SMT DEF Chain, ChainReceive, ChainExecute, ChainCheckpoint, ChainStep,
        TypeOK
  <2>3. ASSUME NEW w \in Workers, CommitmentWorker(w) \/ RevocationWorker(w)
        PROVE  UNCHANGED chain
    BY <2>3 DEF CommitmentWorker, CommitmentGet, CommitmentSimulatedFinality,
        CommitmentSubmitted, CommitmentCommandFails, CommitmentConfirmed,
        CommitmentLookupFails, CommitmentEnds, RevocationWorker, RevocationGet,
        RevocationSimulatedFinality, RevocationSubmitted, RevocationCommandFails,
        RevocationConfirmed, RevocationLookupFails, RevocationEnds
  <2>4. QED
    BY <2>1, <2>2, <2>3 DEF Next, ClientRequest, SubmitCommitment, SubmitRevocation,
        WorkerStep, Restart, vars
<1>4. restarts \in Nat
  BY <1>2, RestartAssumption, SMT DEF TypeOK
<1>5. restarts' = restarts \/ restarts' = restarts + 1
  <2>1. ASSUME NEW w \in Workers
        PROVE  /\ CommitmentWorker(w) => restarts' = restarts
               /\ RevocationWorker(w) => restarts' = restarts
    BY DEF CommitmentWorker, CommitmentGet, CommitmentSimulatedFinality, CommitmentSubmitted,
        CommitmentCommandFails, CommitmentConfirmed, CommitmentLookupFails, CommitmentEnds,
        RevocationWorker, RevocationGet, RevocationSimulatedFinality, RevocationSubmitted,
        RevocationCommandFails, RevocationConfirmed, RevocationLookupFails, RevocationEnds
  <2>2. ASSUME NEW j \in Jobs, Chain(j)
        PROVE  restarts' = restarts
    BY <2>2 DEF Chain, ChainReceive, ChainExecute, ChainCheckpoint, ChainStep
  <2>3. ClientRequest \/ UNCHANGED vars => restarts' = restarts
    BY DEF ClientRequest, SubmitCommitment, SubmitRevocation, vars
  <2>4. Restart => restarts' = restarts + 1
    BY DEF Restart
  <2>5. QED
    BY <2>1, <2>2, <2>3, <2>4 DEF Next, WorkerStep
<1>6. restarts' = 0 => restarts' = restarts
  BY <1>4, <1>5, SMT
<1>7. QED
  BY <1>1, <1>3, <1>6, NextTraced, StepSettles
=============================================================================
