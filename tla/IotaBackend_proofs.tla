-------------------------- MODULE IotaBackend_proofs --------------------------
(* Theorems about IotaBackend, for any sessions, jobs, workers, polls and  *)
(* restarts: it implements the commitments of LedgerAdapter, so that what  *)
(* LedgerAdapter_proofs shows of the adapter holds of it.                  *)
EXTENDS IotaBackend, TLAPS

\* The adapter with its theorems, under the mapping of IotaBackend.
Proved == INSTANCE LedgerAdapter_proofs WITH
    LedgerMode <- "iota",
    commitment_workers <- [w \in Workers |-> Phase(tasks[w])],
    revocation_queue <- << >>,
    revocation_records <- [j \in Jobs |->
        [status |-> "absent", session |-> None,
         ledger_identifier |-> None, session_anchor |-> None]],
    revocation_jobs_by_session <- [s \in Sessions |-> None],
    revocation_workers <- [w \in Workers |-> [phase |-> "idle", job |-> None]]

-----------------------------------------------------------------------------
(* The inductive invariant.                                                *)

LookupPhases == {"testing", "asking", "sleeping"}

\* A worker in the lookup loop looks for the transaction its job's record names,
\* and was told "final" only of one that is.
TaskInv(t) ==
    /\ t.pc \in LookupPhases => records[t.job].ledger_identifier = t.job
    /\ t.answer = "final" => t.job \in Jobs /\ chain[t.job] = "final"

\* A process runs only while a worker awaits it, and prints a digest only of what
\* it handed over; what reached the chain has a record, unless a restart lost it.
CommandInv(j) ==
    /\ commands[j] = "running" =>
           \E w \in Workers : tasks[w].pc = "command" /\ tasks[w].job = j
    /\ commands[j] = "printed" => chain[j] # "none"
    /\ restarts = 0 /\ chain[j] # "none" => records[j].status # "absent"

TasksInv == \A w \in Workers : TaskInv(tasks[w])
CommandsInv == \A j \in Jobs : CommandInv(j)

IInv == TypeOK /\ Proved!IInv /\ TasksInv /\ CommandsInv

-----------------------------------------------------------------------------
(* The adapter and the adapter with its theorems are the same.             *)

LEMMA SameInit == Adapter!Init => Proved!Init
BY DEF Adapter!Init, Proved!Init, Adapter!NoCommitments, Proved!NoCommitments,
    Adapter!NoRevocations, Proved!NoRevocations, Adapter!NoJobs, Proved!NoJobs,
    Adapter!IdleWorkers, Proved!IdleWorkers, Adapter!NoCommitment, Proved!NoCommitment,
    Adapter!NoRevocation, Proved!NoRevocation, Adapter!IdleWorker, Proved!IdleWorker

LEMMA SameTypes == Proved!TypeOK => Adapter!TypeOK
BY DEF Adapter!TypeOK, Proved!TypeOK, Adapter!CommitmentRecord, Proved!CommitmentRecord,
    Adapter!RevocationRecord, Proved!RevocationRecord, Adapter!Status, Proved!Status,
    Adapter!InProgress, Proved!InProgress, Adapter!Worker, Proved!Worker,
    Adapter!TxState, Proved!TxState

\* What the implementation does of the adapter: nothing about revocations.
CommitmentStep ==
    \/ \E s \in Sessions, j \in Jobs : Adapter!SubmitCommitment(s, j)
    \/ \E w \in Workers : Adapter!CommitmentWorker(w)
    \/ \E j \in Jobs : Adapter!Chain(j)
    \/ Adapter!Restart
    \/ UNCHANGED Adapter!vars

LEMMA SameStep == CommitmentStep => [Adapter!Next]_(Adapter!vars) /\ [Proved!Next]_(Proved!vars)
<1> USE DEF Adapter!commitmentVars, Proved!commitmentVars, Adapter!revocationVars,
        Proved!revocationVars
<1>1. ASSUME NEW s \in Sessions, NEW j \in Jobs, Adapter!SubmitCommitment(s, j)
      PROVE  Adapter!ClientRequest /\ Proved!ClientRequest
  <2>1. Proved!SubmitCommitment(s, j)
    BY <1>1, Zenon DEF Adapter!SubmitCommitment, Proved!SubmitCommitment,
        Adapter!CommitmentAccepted, Proved!CommitmentAccepted
  <2>2. QED
    BY <1>1, <2>1 DEF Adapter!ClientRequest, Proved!ClientRequest
<1>2. ASSUME NEW w \in Workers, Adapter!CommitmentWorker(w)
      PROVE  Proved!CommitmentWorker(w)
  BY <1>2, Zenon DEF Adapter!CommitmentWorker, Proved!CommitmentWorker,
      Adapter!CommitmentGet, Proved!CommitmentGet,
      Adapter!CommitmentSimulatedFinality, Proved!CommitmentSimulatedFinality,
      Adapter!CommitmentSubmitted, Proved!CommitmentSubmitted,
      Adapter!CommitmentCommandFails, Proved!CommitmentCommandFails,
      Adapter!CommitmentConfirmed, Proved!CommitmentConfirmed,
      Adapter!CommitmentLookupFails, Proved!CommitmentLookupFails,
      Adapter!CommitmentNow, Proved!CommitmentNow, Adapter!CommitmentEnds,
      Proved!CommitmentEnds, Adapter!FirstPhase, Proved!FirstPhase,
      Adapter!IdleWorker, Proved!IdleWorker
<1>3. ASSUME NEW j \in Jobs, Adapter!Chain(j)
      PROVE  Proved!Chain(j)
  BY <1>3, Zenon DEF Adapter!Chain, Proved!Chain, Adapter!ChainReceive, Proved!ChainReceive,
      Adapter!CommandRunning, Proved!CommandRunning, Adapter!ChainStep, Proved!ChainStep,
      Adapter!ChainExecute, Proved!ChainExecute, Adapter!ChainCheckpoint,
      Proved!ChainCheckpoint
<1>4. Adapter!Restart => Proved!Restart
  BY Zenon DEF Adapter!Restart, Proved!Restart, Adapter!NoCommitments, Proved!NoCommitments,
      Adapter!NoRevocations, Proved!NoRevocations, Adapter!NoJobs, Proved!NoJobs,
      Adapter!IdleWorkers, Proved!IdleWorkers, Adapter!NoCommitment, Proved!NoCommitment,
      Adapter!NoRevocation, Proved!NoRevocation, Adapter!IdleWorker, Proved!IdleWorker
<1>5. UNCHANGED Adapter!vars => UNCHANGED Proved!vars
  BY Zenon DEF Adapter!vars, Proved!vars
<1>6. QED
  BY <1>1, <1>2, <1>3, <1>4, <1>5
  DEF CommitmentStep, Adapter!Next, Proved!Next, Adapter!WorkerStep, Proved!WorkerStep

-----------------------------------------------------------------------------
(* Workers and records.                                                    *)

\* A worker that is not idle has a job, which has a record in progress and was drawn.
LEMMA TaskFacts ==
    ASSUME IInv, NEW w \in Workers
    PROVE  /\ tasks[w] \in Task
           /\ tasks[w].pc = "idle" => tasks[w].job = None
           /\ tasks[w].pc # "idle" =>
                  /\ tasks[w].job \in Jobs
                  /\ records[tasks[w].job].status \in {"submitting", "confirming"}
                  /\ tasks[w].job \in issued
<1> DEFINE workers == [v \in Workers |-> Phase(tasks[v])]
<1>1. tasks[w] \in Task
  BY DEF IInv, TypeOK
<1>2. Phase(tasks[w]) \in [phase: {"idle"}, job: {None}]
                          \cup [phase: {"sleeping", "command", "lookup"}, job: Jobs]
  BY DEF IInv, TypeOK, Adapter!TypeOK, Adapter!Worker
<1>3. /\ tasks[w].pc = "idle" => tasks[w].job = None
      /\ tasks[w].pc # "idle" => tasks[w].job \in Jobs
  BY <1>1, <1>2 DEF Phase, Task
<1>4. workers[w].job = tasks[w].job
  BY DEF Phase
<1>5. ASSUME tasks[w].pc # "idle"
      PROVE  /\ records[tasks[w].job].status \in {"submitting", "confirming"}
             /\ tasks[w].job \in issued
  <2> DEFINE j == tasks[w].job
  <2>1. j \in Jobs
    BY <1>3, <1>5
  <2>2. w \in Proved!Held(workers, j)
    BY <1>4 DEF Proved!Held
  <2>3. records[j].status \in Proved!InProgress
    BY <2>1, <2>2 DEF IInv, Proved!IInv, Proved!JobsOwned, Proved!CommitmentJobsOwned,
        Proved!Owned
  <2>4. records[j].status # "absent"
    BY <2>3 DEF Proved!InProgress
  <2>5. j \in issued
    BY <2>1, <2>4 DEF IInv, Proved!IInv, Proved!UnissuedAbsent
  <2>6. QED
    BY <2>3, <2>5 DEF Proved!InProgress
<1>6. QED
  BY <1>1, <1>3, <1>5

\* A job at the head of the queue has a record.
LEMMA HeadFacts ==
    ASSUME IInv, queue # << >>
    PROVE  Head(queue) \in Jobs /\ records[Head(queue)].status = "queued"
<1>1. queue \in Seq(Jobs)
  BY DEF IInv, TypeOK, Adapter!TypeOK
<1>2. Len(queue) \in Nat /\ 1 \in 1..Len(queue) /\ Head(queue) = queue[1] /\ queue[1] \in Jobs
  BY <1>1
<1>3. QED
  BY <1>2 DEF IInv, Proved!IInv, Proved!JobsOwned, Proved!CommitmentJobsOwned, Proved!Owned

\* Assigning the status of a record, or its status and identifier.
LEMMA Assigned ==
    ASSUME NEW r \in Adapter!CommitmentRecord, NEW status \in Adapter!Status,
           NEW identifier \in Jobs \cup {None}
    PROVE  /\ [r EXCEPT !.status = status]
                  = Adapter!CommitmentNow(r, status, r.ledger_identifier)
           /\ [r EXCEPT !.status = status, !.ledger_identifier = identifier]
                  = Adapter!CommitmentNow(r, status, identifier)
<1> DEFINE m == [r EXCEPT !.status = status]
           n == [m EXCEPT !.ledger_identifier = identifier]
<1>1. /\ m \in Adapter!CommitmentRecord
      /\ m.status = status /\ m.session = r.session
      /\ m = Adapter!CommitmentNow(r, status, r.ledger_identifier)
  BY DEF Adapter!CommitmentRecord, Adapter!CommitmentNow
<1> HIDE DEF m
<1>2. n = [status |-> m.status, session |-> m.session, ledger_identifier |-> identifier]
  BY <1>1 DEF Adapter!CommitmentRecord
<1>3. QED
  BY <1>1, <1>2 DEF m, n, Adapter!CommitmentNow

\* What the adapter sees of a worker that goes on as t.
LEMMA PhaseMoves ==
    ASSUME tasks \in [Workers -> Task], NEW w \in Workers, NEW t,
           tasks' = [tasks EXCEPT ![w] = t]
    PROVE  [v \in Workers |-> Phase(tasks'[v])]
               = [[v \in Workers |-> Phase(tasks[v])] EXCEPT ![w] = Phase(t)]
<1>1. \A v \in Workers : tasks'[v] = IF v = w THEN t ELSE tasks[v]
  OBVIOUS
<1> DEFINE P(x) == Phase(x)
<1>2. \A v \in Workers : P(tasks'[v]) = IF v = w THEN P(t) ELSE P(tasks[v])
  BY <1>1, Zenon
<1> HIDE DEF P
<1>3. [v \in Workers |-> P(tasks'[v])]
          = [[v \in Workers |-> P(tasks[v])] EXCEPT ![w] = P(t)]
  BY <1>2
<1>4. QED
  BY <1>3 DEF P

\* Records that exist after a step: they keep an identifier that is their job's.
RecordsKeep ==
    \A j \in Jobs : records[j].status # "absent" =>
        /\ records'[j].status # "absent"
        /\ records[j].ledger_identifier = j => records'[j].ledger_identifier = j

\* A worker goes on as t: what it knows and runs, and what the others do.
LEMMA WorkerMoves ==
    ASSUME IInv, NEW w \in Workers, NEW t \in Task,
           tasks' = [tasks EXCEPT ![w] = t],
           UNCHANGED <<chain, restarts>>,
           t.pc \in LookupPhases => records'[t.job].ledger_identifier = t.job,
           t.answer = "final" => t.job \in Jobs /\ chain[t.job] = "final",
           RecordsKeep,
           commands' \in [Jobs -> Process],
           \A j \in Jobs : commands'[j] = "running" =>
               \/ t.pc = "command" /\ t.job = j
               \/ commands[j] = "running" /\ ~(tasks[w].pc = "command" /\ tasks[w].job = j),
           \A j \in Jobs : commands'[j] = "printed" => commands[j] = "printed"
    PROVE  /\ tasks' \in [Workers -> Task]
           /\ commands' \in [Jobs -> Process]
           /\ TasksInv'
           /\ CommandsInv'
<1>1. tasks \in [Workers -> Task]
  BY DEF IInv, TypeOK
<1>2. tasks' \in [Workers -> Task]
  BY <1>1
<1>3. \A v \in Workers : tasks'[v] = IF v = w THEN t ELSE tasks[v]
  BY <1>1
<1>4. TasksInv'
  <2> SUFFICES ASSUME NEW v \in Workers
               PROVE  TaskInv(tasks[v])'
    BY DEF TasksInv
  <2>1. CASE v = w
    BY <1>3, <2>1 DEF TaskInv
  <2>2. CASE v # w
    <3>1. PICK c \in Task : c = tasks[v]
      BY TaskFacts
    <3>2. tasks'[v] = c
      BY <1>3, <2>2, <3>1
    <3>3. TaskInv(c)
      BY <3>1 DEF IInv, TasksInv
    <3>4. c.pc \in LookupPhases => c.job \in Jobs /\ records[c.job].status # "absent"
      BY <3>1, TaskFacts DEF LookupPhases
    <3>5. TaskInv(c)'
      BY <3>3, <3>4 DEF TaskInv, RecordsKeep
    <3>6. QED
      BY <3>2, <3>5 DEF TaskInv
  <2>3. QED
    BY <2>1, <2>2
<1>5. CommandsInv'
  <2> SUFFICES ASSUME NEW j \in Jobs
               PROVE  CommandInv(j)'
    BY DEF CommandsInv
  <2>1. CommandInv(j)
    BY DEF IInv, CommandsInv
  <2>2. commands'[j] = "printed" => chain'[j] # "none"
    BY <2>1 DEF CommandInv
  <2>3. restarts' = 0 /\ chain'[j] # "none" => records'[j].status # "absent"
    BY <2>1 DEF CommandInv, RecordsKeep
  <2>4. ASSUME commands'[j] = "running"
        PROVE  \E v \in Workers : tasks'[v].pc = "command" /\ tasks'[v].job = j
    <3>1. CASE t.pc = "command" /\ t.job = j
      BY <1>3, <3>1
    <3>2. CASE commands[j] = "running" /\ ~(tasks[w].pc = "command" /\ tasks[w].job = j)
      <4>1. PICK v \in Workers : tasks[v].pc = "command" /\ tasks[v].job = j
        BY <2>1, <3>2 DEF CommandInv
      <4>2. v # w
        BY <3>2, <4>1
      <4>3. tasks'[v] = tasks[v]
        BY <1>3, <4>2
      <4>4. QED
        BY <4>1, <4>3
    <3>3. QED
      BY <2>4, <3>1, <3>2
  <2>5. QED
    BY <2>2, <2>3, <2>4 DEF CommandInv
<1>6. QED
  BY <1>2, <1>4, <1>5

-----------------------------------------------------------------------------
(* The actions.                                                            *)

\* What every step shows.
StepOK ==
    /\ CommitmentStep
    /\ tasks' \in [Workers -> Task]
    /\ commands' \in [Jobs -> Process]
    /\ TasksInv'
    /\ CommandsInv'

\* IotaBackend's Idle is the adapter's.
LEMMA IdleTask ==
    /\ Idle \in Task
    /\ Idle.pc = "idle" /\ Idle.answer = "none"
    /\ Phase(Idle) = Adapter!IdleWorker
BY PollsAssumption DEF Idle, Task, Answer, Phase, Adapter!IdleWorker

\* A worker assigns the status of a record ...
LEMMA StatusMoves ==
    ASSUME IInv, NEW h \in Jobs, NEW status \in Adapter!Status, status # "absent",
           records' = [records EXCEPT ![h].status = status]
    PROVE  /\ records' = [records EXCEPT ![h] =
                            Adapter!CommitmentNow(@, status, @.ledger_identifier)]
           /\ RecordsKeep
<1>1. PICK c \in Adapter!CommitmentRecord : c = records[h]
  BY DEF IInv, TypeOK, Adapter!TypeOK
<1>2. records \in [Jobs -> Adapter!CommitmentRecord]
  BY DEF IInv, TypeOK, Adapter!TypeOK
<1>3. h \in Jobs \cup {None}
  OBVIOUS
<1>4. [c EXCEPT !.status = status] = Adapter!CommitmentNow(c, status, c.ledger_identifier)
  BY <1>3, Assigned, Zenon
<1> DEFINE n == Adapter!CommitmentNow(c, status, c.ledger_identifier)
<1>5. n.status = status /\ n.ledger_identifier = c.ledger_identifier
  BY DEF Adapter!CommitmentNow
<1>6. records' = [records EXCEPT ![h] = n]
  BY <1>1, <1>4, Zenon
<1> HIDE DEF n
<1>7. \A j \in Jobs : records'[j] = IF j = h THEN n ELSE records[j]
  BY <1>2, <1>6
<1>8. RecordsKeep
  BY <1>1, <1>5, <1>7 DEF RecordsKeep
<1>9. QED
  BY <1>1, <1>6, <1>8, Zenon DEF n

\* ... or, in the on_submitted callback, its status and its identifier.
LEMMA IdentifierMoves ==
    ASSUME IInv, NEW h \in Jobs, NEW status \in Adapter!Status, status # "absent",
           records' = [records EXCEPT ![h] =
                          [@ EXCEPT !.status = status, !.ledger_identifier = h]]
    PROVE  /\ records' = [records EXCEPT ![h] = Adapter!CommitmentNow(@, status, h)]
           /\ records'[h].ledger_identifier = h
           /\ RecordsKeep
<1>1. PICK c \in Adapter!CommitmentRecord : c = records[h]
  BY DEF IInv, TypeOK, Adapter!TypeOK
<1>2. records \in [Jobs -> Adapter!CommitmentRecord]
  BY DEF IInv, TypeOK, Adapter!TypeOK
<1>3. h \in Jobs \cup {None}
  OBVIOUS
<1>4. [c EXCEPT !.status = status, !.ledger_identifier = h]
          = Adapter!CommitmentNow(c, status, h)
  BY <1>3, Assigned, Zenon
<1> DEFINE n == Adapter!CommitmentNow(c, status, h)
<1>5. n.status = status /\ n.ledger_identifier = h
  BY DEF Adapter!CommitmentNow
<1>6. records' = [records EXCEPT ![h] = n]
  BY <1>1, <1>4, Zenon
<1> HIDE DEF n
<1>7. \A j \in Jobs : records'[j] = IF j = h THEN n ELSE records[j]
  BY <1>2, <1>6
<1>8. RecordsKeep
  BY <1>1, <1>5, <1>7 DEF RecordsKeep
<1>9. QED
  BY <1>1, <1>5, <1>6, <1>7, <1>8, Zenon DEF n

\* A worker goes on within an await of submit: the adapter does not see it.
LEMMA Unseen ==
    ASSUME IInv, NEW w \in Workers, NEW t \in Task,
           tasks' = [tasks EXCEPT ![w] = t], t.job = tasks[w].job,
           t.pc \in LookupPhases, tasks[w].pc \in LookupPhases,
           t.answer = "final" => chain[t.job] = "final",
           UNCHANGED <<adapterVars, commands>>
    PROVE  StepOK
<1>1. Phase(t) = Phase(tasks[w])
  BY DEF Phase, LookupPhases
<1>2. tasks \in [Workers -> Task]
  BY DEF IInv, TypeOK
<1>3. [v \in Workers |-> Phase(tasks'[v])] = [v \in Workers |-> Phase(tasks[v])]
  <2> DEFINE P(x) == Phase(x)
  <2>1. \A v \in Workers : tasks'[v] = IF v = w THEN t ELSE tasks[v]
    BY <1>2
  <2>2. \A v \in Workers : P(tasks'[v]) = P(tasks[v])
    BY <1>1, <2>1, Zenon
  <2> HIDE DEF P
  <2>3. [v \in Workers |-> P(tasks'[v])] = [v \in Workers |-> P(tasks[v])]
    BY <2>2
  <2>4. QED
    BY <2>3 DEF P
<1>4. UNCHANGED Adapter!vars
  BY <1>3 DEF adapterVars, Adapter!vars, Adapter!commitmentVars, Adapter!revocationVars
<1>5. tasks[w].job \in Jobs /\ tasks[w].pc # "idle" /\ tasks[w].pc # "command" /\ t.pc # "command"
  BY TaskFacts DEF LookupPhases
<1>6. records'[t.job].ledger_identifier = t.job
  BY DEF IInv, TasksInv, TaskInv, adapterVars
<1>7. UNCHANGED <<chain, restarts, commands>> /\ RecordsKeep
  BY DEF adapterVars, RecordsKeep
<1>8. commands \in [Jobs -> Process]
  BY DEF IInv, TypeOK
<1>9. QED
  BY <1>4, <1>5, <1>6, <1>7, <1>8, WorkerMoves DEF StepOK, CommitmentStep

\* A worker settles its job: its process does not outlive it.
LEMMA SettlesMoves ==
    ASSUME IInv, NEW w \in Workers, NEW status \in {"confirmed", "failed"},
           Settles(w, status), tasks[w].pc # "idle",
           commands' \in [Jobs -> Process],
           \A j \in Jobs : commands'[j] = "running" =>
               commands[j] = "running" /\ ~(tasks[w].pc = "command" /\ tasks[w].job = j),
           \A j \in Jobs : commands'[j] = "printed" => commands[j] = "printed"
    PROVE  /\ tasks' \in [Workers -> Task]
           /\ TasksInv' /\ CommandsInv'
           /\ Adapter!CommitmentEnds(w, status, records[tasks[w].job].ledger_identifier)
<1>1. PICK h \in Jobs : h = tasks[w].job
  BY TaskFacts
<1>2. /\ tasks' = [tasks EXCEPT ![w] = Idle]
      /\ records' = [records EXCEPT ![h].status = status]
      /\ UNCHANGED <<queue, commitment_jobs_by_session, issued, chain, restarts>>
  BY <1>1 DEF Settles
<1>3. status \in Adapter!Status /\ status # "absent"
  BY DEF Adapter!Status
<1>4. /\ records' = [records EXCEPT ![h] =
                        Adapter!CommitmentNow(@, status, @.ledger_identifier)]
      /\ RecordsKeep
  BY <1>2, <1>3, StatusMoves, Zenon
<1>5. tasks' \in [Workers -> Task] /\ TasksInv' /\ CommandsInv'
  <2>1. PICK t \in Task : t = Idle /\ t.pc = "idle" /\ t.answer = "none"
    BY IdleTask
  <2>2. tasks' = [tasks EXCEPT ![w] = t] /\ UNCHANGED <<chain, restarts>> /\ RecordsKeep
    BY <1>2, <1>4, <2>1
  <2>3. QED
    BY <2>1, <2>2, WorkerMoves DEF LookupPhases
<1>6. [v \in Workers |-> Phase(tasks'[v])]
          = [[v \in Workers |-> Phase(tasks[v])] EXCEPT ![w] = Adapter!IdleWorker]
  BY <1>2, IdleTask, PhaseMoves DEF IInv, TypeOK
<1>7. [v \in Workers |-> Phase(tasks[v])][w].job = h
  BY <1>1 DEF Phase
<1>8. Adapter!CommitmentEnds(w, status, records[h].ledger_identifier)
  BY <1>2, <1>4, <1>6, <1>7 DEF Adapter!CommitmentEnds, Adapter!revocationVars,
      Adapter!CommitmentNow
<1>9. QED
  BY <1>1, <1>5, <1>8

\* What the adapter sees of a worker before its step.
LEMMA PhaseFacts ==
    ASSUME NEW w \in Workers
    PROVE  LET p == [v \in Workers |-> Phase(tasks[v])][w]
           IN  /\ p.job = tasks[w].job
               /\ tasks[w].pc \in LookupPhases => p.phase = "lookup"
               /\ tasks[w].pc \notin LookupPhases => p.phase = tasks[w].pc
BY DEF Phase, LookupPhases

LEMMA GetOK == ASSUME IInv, NEW w \in Workers, Get(w) PROVE StepOK
<1>1. PICK h \in Jobs : h = Head(queue) /\ records[h].status = "queued"
  BY HeadFacts DEF Get
<1>2. PICK i \in Task : i = Idle /\ i.answer = "none"
  BY IdleTask
<1> DEFINE t == [i EXCEPT !.pc = "command", !.job = h]
<1>2a. t \in Task
  BY Zenon DEF Task
<1>2b. t.pc = "command" /\ t.job = h /\ t.answer = "none"
  BY <1>2 DEF Task
<1>3. /\ tasks' = [tasks EXCEPT ![w] = t]
      /\ commands' = [commands EXCEPT ![h] = "running"]
      /\ records' = [records EXCEPT ![h].status = "submitting"]
      /\ queue' = Tail(queue) /\ queue # << >> /\ tasks[w].pc = "idle"
      /\ UNCHANGED <<commitment_jobs_by_session, issued, chain, restarts>>
  BY <1>1, <1>2 DEF Get
<1> HIDE DEF t
<1>4. "submitting" \in Adapter!Status
  BY DEF Adapter!Status, Adapter!InProgress
<1>5. /\ records' = [records EXCEPT ![h] =
                        Adapter!CommitmentNow(@, "submitting", @.ledger_identifier)]
      /\ RecordsKeep
  BY <1>3, <1>4, StatusMoves
<1>6. commands \in [Jobs -> Process]
  BY DEF IInv, TypeOK
<1>7. /\ commands' \in [Jobs -> Process]
      /\ \A j \in Jobs : commands'[j] = IF j = h THEN "running" ELSE commands[j]
  BY <1>3, <1>6 DEF Process
<1>8. tasks' \in [Workers -> Task] /\ TasksInv' /\ CommandsInv'
  <2>1. UNCHANGED <<chain, restarts>> /\ RecordsKeep
    BY <1>3, <1>5
  <2>2. QED
    BY <1>2a, <1>2b, <1>3, <1>7, <2>1, WorkerMoves DEF LookupPhases
<1>9. Phase(t) = [phase |-> "command", job |-> h]
  BY <1>2b DEF Phase
<1>10. [v \in Workers |-> Phase(tasks'[v])]
           = [[v \in Workers |-> Phase(tasks[v])] EXCEPT ![w] = [phase |-> "command", job |-> h]]
  BY <1>2a, <1>3, <1>9, PhaseMoves DEF IInv, TypeOK
<1>11. [v \in Workers |-> Phase(tasks[v])][w].phase = "idle"
  BY <1>3, PhaseFacts DEF LookupPhases
<1>12. Adapter!FirstPhase = "command"
  BY DEF Adapter!FirstPhase
<1>13. Adapter!CommitmentGet(w)
  BY <1>1, <1>3, <1>5, <1>10, <1>11, <1>12, Zenon
  DEF Adapter!CommitmentGet, Adapter!revocationVars
<1>14. QED
  BY <1>7, <1>8, <1>13 DEF StepOK, CommitmentStep, Adapter!CommitmentWorker

LEMMA CommandPrintedOK == ASSUME IInv, NEW w \in Workers, CommandPrinted(w) PROVE StepOK
<1>1. PICK c \in Task, h \in Jobs : c = tasks[w] /\ h = c.job /\ c.pc = "command"
  BY TaskFacts DEF CommandPrinted, AwaitsCommand
<1> DEFINE t == [c EXCEPT !.pc = "testing", !.left = Polls]
<1>2a. Polls \in 0..Polls
  BY PollsAssumption
<1>2. t \in Task
  BY <1>2a, Zenon DEF Task
<1>2b. t.pc = "testing" /\ t.job = h /\ t.answer = c.answer
  BY <1>1 DEF Task
<1>3. /\ tasks' = [tasks EXCEPT ![w] = t]
      /\ commands[h] = "printed"
      /\ records' = [records EXCEPT ![h] =
                        [@ EXCEPT !.status = "confirming", !.ledger_identifier = h]]
      /\ UNCHANGED <<queue, commitment_jobs_by_session, issued, chain, restarts, commands>>
  BY <1>1 DEF CommandPrinted, Command
<1> HIDE DEF t
<1>4. "confirming" \in Adapter!Status /\ "confirming" # "absent"
  BY DEF Adapter!Status, Adapter!InProgress
<1>5. /\ records' = [records EXCEPT ![h] = Adapter!CommitmentNow(@, "confirming", h)]
      /\ records'[h].ledger_identifier = h
      /\ RecordsKeep
  BY <1>3, <1>4, IdentifierMoves, Zenon
<1>6. commands \in [Jobs -> Process]
  BY DEF IInv, TypeOK
<1>7. c.answer = "final" => chain[h] = "final"
  BY <1>1 DEF IInv, TasksInv, TaskInv
<1>8. tasks' \in [Workers -> Task] /\ TasksInv' /\ CommandsInv'
  <2>1. UNCHANGED <<chain, restarts, commands>> /\ RecordsKeep
    BY <1>3, <1>5
  <2>2. t.pc \in LookupPhases /\ records'[t.job].ledger_identifier = t.job
    BY <1>2b, <1>5 DEF LookupPhases
  <2>3. QED
    BY <1>1, <1>2, <1>2b, <1>3, <1>6, <1>7, <2>1, <2>2, WorkerMoves
<1>9. Phase(t) = [phase |-> "lookup", job |-> h]
  BY <1>2b DEF Phase
<1>10. [v \in Workers |-> Phase(tasks[v])][w] = [phase |-> "command", job |-> h]
  BY <1>1 DEF Phase
<1>11. [v \in Workers |-> Phase(tasks'[v])]
           = [[v \in Workers |-> Phase(tasks[v])] EXCEPT ![w] = [phase |-> "lookup", job |-> h]]
  BY <1>2, <1>3, <1>9, PhaseMoves DEF IInv, TypeOK
<1>12. [v \in Workers |-> Phase(tasks'[v])]
           = [[v \in Workers |-> Phase(tasks[v])] EXCEPT ![w].phase = "lookup"]
  <2>1. [[phase |-> "command", job |-> h] EXCEPT !.phase = "lookup"]
            = [phase |-> "lookup", job |-> h]
    OBVIOUS
  <2>2. QED
    BY <1>10, <1>11, <2>1, Zenon
<1>13. chain[h] # "none"
  BY <1>3 DEF IInv, CommandsInv, CommandInv
<1>14. Adapter!CommitmentSubmitted(w)
  <2>1. /\ [v \in Workers |-> Phase(tasks[v])][w].phase = "command"
        /\ [v \in Workers |-> Phase(tasks[v])][w].job = h
    BY <1>10
  <2>2. UNCHANGED <<queue, commitment_jobs_by_session, Adapter!revocationVars, issued,
                    chain, restarts>>
    BY <1>3 DEF Adapter!revocationVars
  <2>3. QED
    BY <1>5, <1>12, <1>13, <2>1, <2>2, Zenon DEF Adapter!CommitmentSubmitted
<1>15. QED
  BY <1>3, <1>6, <1>8, <1>14 DEF StepOK, CommitmentStep, Adapter!CommitmentWorker

\* The command or the lookup fails, for whatever reason.
LEMMA FailsOK ==
    ASSUME IInv, NEW w \in Workers,
           CommandUseless(w) \/ CommandTimesOut(w) \/ TimesOut(w) \/ LookupRaises(w)
    PROVE  StepOK
<1>1. tasks[w].pc # "idle" /\ tasks[w].job \in Jobs /\ commands \in [Jobs -> Process]
  BY TaskFacts DEF CommandUseless, CommandTimesOut, TimesOut, LookupRaises, AwaitsCommand,
      Answered, IInv, TypeOK
<1>2. Settles(w, "failed") /\ commands' \in [Jobs -> Process]
  BY <1>1 DEF CommandUseless, CommandTimesOut, TimesOut, LookupRaises, Process
<1>3. \A j \in Jobs :
          /\ commands'[j] = "running" =>
                 commands[j] = "running" /\ ~(tasks[w].pc = "command" /\ tasks[w].job = j)
          /\ commands'[j] = "printed" => commands[j] = "printed"
  <2>1. CASE CommandUseless(w)
    BY <2>1 DEF CommandUseless, Command
  <2>2. CASE CommandTimesOut(w)
    BY <1>1, <2>2 DEF CommandTimesOut
  <2>3. CASE TimesOut(w) \/ LookupRaises(w)
    BY <2>3 DEF TimesOut, LookupRaises, Answered
  <2>4. QED
    BY <2>1, <2>2, <2>3
<1>4. /\ tasks' \in [Workers -> Task] /\ TasksInv' /\ CommandsInv'
      /\ Adapter!CommitmentEnds(w, "failed", records[tasks[w].job].ledger_identifier)
  BY <1>1, <1>2, <1>3, SettlesMoves
<1>5. LET p == [v \in Workers |-> Phase(tasks[v])][w]
      IN  p.job = tasks[w].job /\ p.phase \in {"command", "lookup"}
  BY PhaseFacts DEF CommandUseless, CommandTimesOut, TimesOut, LookupRaises, AwaitsCommand,
      Answered, LookupPhases
<1>6. Adapter!CommitmentCommandFails(w) \/ Adapter!CommitmentLookupFails(w)
  BY <1>4, <1>5 DEF Adapter!CommitmentCommandFails, Adapter!CommitmentLookupFails
<1>7. QED
  BY <1>2, <1>4, <1>6 DEF StepOK, CommitmentStep, Adapter!CommitmentWorker

LEMMA ConfirmsOK == ASSUME IInv, NEW w \in Workers, Confirms(w) PROVE StepOK
<1>1. /\ tasks[w].pc = "asking" /\ tasks[w].answer = "final"
      /\ Settles(w, "confirmed") /\ UNCHANGED commands
  BY DEF Confirms, Answered
<1>2. commands \in [Jobs -> Process]
  BY DEF IInv, TypeOK
<1>3. /\ tasks' \in [Workers -> Task] /\ TasksInv' /\ CommandsInv'
      /\ Adapter!CommitmentEnds(w, "confirmed", records[tasks[w].job].ledger_identifier)
  BY <1>1, <1>2, SettlesMoves
<1>4. /\ chain[tasks[w].job] = "final"
      /\ records[tasks[w].job].ledger_identifier = tasks[w].job
  BY <1>1 DEF IInv, TasksInv, TaskInv, LookupPhases
<1>5. LET p == [v \in Workers |-> Phase(tasks[v])][w]
      IN  p.job = tasks[w].job /\ p.phase = "lookup"
  BY <1>1, PhaseFacts DEF LookupPhases
<1>6. Adapter!CommitmentConfirmed(w)
  BY <1>3, <1>4, <1>5 DEF Adapter!CommitmentConfirmed
<1>7. QED
  BY <1>1, <1>2, <1>3, <1>6 DEF StepOK, CommitmentStep, Adapter!CommitmentWorker

\* The lookup loop between two settlements.
LEMMA LoopOK ==
    ASSUME IInv, NEW w \in Workers,
           Ask(w) \/ GoesToSleep(w) \/ Wakes(w) \/ RpcAnswers(w)
    PROVE  StepOK
<1>1. PICK c \in Task : c = tasks[w]
  BY TaskFacts
<1>2. TaskInv(c)
  BY <1>1 DEF IInv, TasksInv
<1>3. UNCHANGED <<adapterVars, commands>> /\ c.pc \in LookupPhases
  BY <1>1 DEF Ask, GoesToSleep, Wakes, RpcAnswers, Answered, LookupPhases
<1>4. ASSUME NEW pc \in LookupPhases, tasks' = Goes(w, pc)
      PROVE  StepOK
  <2> DEFINE t == [c EXCEPT !.pc = pc, !.answer = "none"]
  <2>1. tasks' = [tasks EXCEPT ![w] = t]
    BY <1>1, <1>4 DEF Goes
  <2>2. pc \in {"idle", "command", "testing", "asking", "sleeping"} /\ "none" \in Answer
    BY DEF LookupPhases, Answer
  <2>3. t \in Task
    BY <2>2, Zenon DEF Task
  <2>4. t.pc = pc /\ t.answer = "none" /\ t.job = c.job
    BY DEF Task
  <2> HIDE DEF t
  <2>5. QED
    BY <1>1, <1>3, <2>1, <2>3, <2>4, Unseen
<1>5. CASE Ask(w) \/ GoesToSleep(w)
  BY <1>4, <1>5 DEF Ask, GoesToSleep, LookupPhases
<1>6. CASE Wakes(w)
  <2>1. PICK left \in 0..(c.left - 1) : tasks' = [Goes(w, "testing") EXCEPT ![w].left = left]
    BY <1>1, <1>6 DEF Wakes
  <2> DEFINE m == [c EXCEPT !.pc = "testing", !.answer = "none"]
             t == [m EXCEPT !.left = left]
  <2>2. left \in 0..Polls
    BY PollsAssumption DEF Task
  <2>3. "none" \in Answer
    BY DEF Answer
  <2>4. m \in Task
    BY <2>3, Zenon DEF Task
  <2>5. m.pc = "testing" /\ m.answer = "none" /\ m.job = c.job
    BY DEF Task
  <2> HIDE DEF m
  <2>6. t \in Task
    BY <2>2, <2>4, Zenon DEF Task
  <2>7. t.pc = "testing" /\ t.answer = "none" /\ t.job = c.job
    BY <2>4, <2>5 DEF Task
  <2>8. tasks' = [tasks EXCEPT ![w] = t]
    <3>1. tasks \in [Workers -> Task]
      BY DEF IInv, TypeOK
    <3>2. Goes(w, "testing") = [tasks EXCEPT ![w] = m]
      BY <1>1 DEF Goes, m
    <3>3. [tasks EXCEPT ![w] = m][w] = m
      BY <3>1
    <3>4. tasks' = [[tasks EXCEPT ![w] = m] EXCEPT ![w] = t]
      BY <2>1, <3>2, <3>3, Zenon
    <3> HIDE DEF t
    <3>5. QED
      BY <3>1, <3>4
  <2> HIDE DEF t
  <2>9. QED
    BY <1>1, <1>3, <2>6, <2>7, <2>8, Unseen DEF LookupPhases
<1>7. CASE RpcAnswers(w)
  <2>1. PICK answer \in Seen(c.job) \cup {"error"} : tasks' = [tasks EXCEPT ![w].answer = answer]
    BY <1>1, <1>7 DEF RpcAnswers
  <2> DEFINE t == [c EXCEPT !.answer = answer]
  <2>2. c.job \in Jobs /\ chain \in [Jobs -> Adapter!TxState]
    BY <1>1, <1>3, TaskFacts DEF IInv, TypeOK, Adapter!TypeOK, LookupPhases
  <2>3. answer \in Answer /\ (answer = "final" => chain[c.job] = "final")
    BY <2>1, <2>2 DEF Seen, Answer, Adapter!TxState
  <2>4. t \in Task
    BY <2>3, Zenon DEF Task
  <2>5. t.pc = c.pc /\ t.answer = answer /\ t.job = c.job
    BY DEF Task
  <2>6. tasks' = [tasks EXCEPT ![w] = t]
    BY <1>1, <2>1
  <2> HIDE DEF t
  <2>7. QED
    BY <1>1, <1>3, <2>3, <2>4, <2>5, <2>6, Unseen
<1>8. QED
  BY <1>5, <1>6, <1>7

\* Nothing a worker knows changes for the worse.
LEMMA OthersMove ==
    ASSUME IInv, UNCHANGED <<tasks, restarts>>,
           commands' \in [Jobs -> Process],
           \A j \in Jobs :
               /\ chain[j] = "final" => chain'[j] = "final"
               /\ chain[j] # "none" => chain'[j] # "none"
               /\ j \in issued => records'[j] = records[j]
               /\ records[j].status # "absent" => records'[j].status # "absent"
               /\ commands'[j] = "running" => commands[j] = "running"
               /\ commands'[j] = "printed" => commands[j] = "printed" \/ chain[j] # "none"
               /\ chain'[j] # "none" => chain[j] # "none" \/ commands[j] = "running"
    PROVE  tasks' \in [Workers -> Task] /\ TasksInv' /\ CommandsInv'
<1>1. tasks' \in [Workers -> Task]
  BY DEF IInv, TypeOK
<1>2. TasksInv'
  <2> SUFFICES ASSUME NEW w \in Workers
               PROVE  TaskInv(tasks[w])'
    BY DEF TasksInv
  <2>1. PICK c \in Task : c = tasks[w]
    BY TaskFacts
  <2>2. TaskInv(c) /\ (c.pc \in LookupPhases => c.job \in issued /\ c.job \in Jobs)
    BY <2>1, TaskFacts DEF IInv, TasksInv, LookupPhases
  <2>3. TaskInv(c)'
    BY <2>2 DEF TaskInv
  <2>4. QED
    BY <2>1, <2>3 DEF TaskInv
<1>3. CommandsInv'
  <2> SUFFICES ASSUME NEW j \in Jobs
               PROVE  CommandInv(j)'
    BY DEF CommandsInv
  <2>1. CommandInv(j)
    BY DEF IInv, CommandsInv
  <2>2. commands[j] = "running" => records[j].status # "absent"
    <3>1. ASSUME NEW w \in Workers, tasks[w].pc = "command", tasks[w].job = j
          PROVE  records[j].status # "absent"
      BY <3>1, TaskFacts
    <3>2. QED
      BY <2>1, <3>1 DEF CommandInv
  <2>3. commands'[j] = "running" => \E w \in Workers : tasks'[w].pc = "command" /\ tasks'[w].job = j
    BY <2>1 DEF CommandInv
  <2>4. commands'[j] = "printed" => chain'[j] # "none"
    BY <2>1 DEF CommandInv
  <2>5. restarts' = 0 /\ chain'[j] # "none" => records'[j].status # "absent"
    BY <2>1, <2>2 DEF CommandInv
  <2>6. QED
    BY <2>3, <2>4, <2>5 DEF CommandInv
<1>4. QED
  BY <1>1, <1>2, <1>3

LEMMA SubmitOK ==
    ASSUME IInv, NEW s \in Sessions, NEW k \in Jobs, SubmitCommitment(s, k)
    PROVE  StepOK
<1>1. UNCHANGED <<tasks, commands, chain, restarts>> /\ k \notin issued
  BY DEF SubmitCommitment, Adapter!SubmitCommitment
<1>2. /\ records \in [Jobs -> Adapter!CommitmentRecord] /\ commands \in [Jobs -> Process]
      /\ records' = [records EXCEPT ![k] =
                        [status |-> "queued", session |-> s, ledger_identifier |-> None]]
  BY DEF SubmitCommitment, Adapter!SubmitCommitment, IInv, TypeOK, Adapter!TypeOK
<1>3. \A j \in Jobs : records'[j] =
          IF j = k THEN [status |-> "queued", session |-> s, ledger_identifier |-> None]
          ELSE records[j]
  BY <1>2
<1>4. \A j \in Jobs : /\ j \in issued => records'[j] = records[j]
                      /\ records[j].status # "absent" => records'[j].status # "absent"
  BY <1>1, <1>3
<1>5. tasks' \in [Workers -> Task] /\ TasksInv' /\ CommandsInv'
  BY <1>1, <1>2, <1>4, OthersMove
<1>6. QED
  BY <1>1, <1>2, <1>5 DEF StepOK, CommitmentStep, SubmitCommitment

\* The process and the chain.
LEMMA ChainOK ==
    ASSUME IInv, NEW k \in Jobs, CliSubmits(k) \/ CliEnds(k) \/ ChainMoves(k)
    PROVE  StepOK
<1>1. chain \in [Jobs -> Adapter!TxState] /\ commands \in [Jobs -> Process]
  BY DEF IInv, TypeOK, Adapter!TypeOK
<1>2. CASE CliSubmits(k)
  <2>1. /\ UNCHANGED <<queue, records, commitment_jobs_by_session, issued, restarts, tasks,
                       commands>>
        /\ commands[k] = "running" /\ chain[k] = "none"
        /\ chain' = [chain EXCEPT ![k] = "sent"]
    BY <1>2 DEF CliSubmits
  <2>2. \A j \in Jobs : chain'[j] = IF j = k THEN "sent" ELSE chain[j]
    BY <1>1, <2>1
  <2>3. tasks' \in [Workers -> Task] /\ TasksInv' /\ CommandsInv'
    BY <1>1, <2>1, <2>2, OthersMove
  <2>4. PICK w \in Workers : tasks[w].pc = "command" /\ tasks[w].job = k
    BY <2>1 DEF IInv, CommandsInv, CommandInv
  <2>5. [v \in Workers |-> Phase(tasks[v])][w] = [phase |-> "command", job |-> k]
    BY <2>4 DEF Phase
  <2>6. Adapter!Chain(k)
    BY <2>1, <2>5 DEF Adapter!Chain, Adapter!ChainReceive, Adapter!CommandRunning,
        Adapter!ChainStep, Adapter!commitmentVars, Adapter!revocationVars
  <2>7. QED
    BY <1>1, <2>1, <2>3, <2>6 DEF StepOK, CommitmentStep
<1>3. CASE CliEnds(k)
  <2>1. /\ UNCHANGED <<adapterVars, tasks>>
        /\ commands[k] = "running"
    BY <1>3 DEF CliEnds
  <2>2. PICK end \in {"useless", "printed"} :
            /\ commands' = [commands EXCEPT ![k] = end]
            /\ end = "printed" => chain[k] # "none"
    BY <1>3 DEF CliEnds
  <2>3. commands' \in [Jobs -> Process]
    BY <1>1, <2>2 DEF Process
  <2>4. \A j \in Jobs : commands'[j] = IF j = k THEN end ELSE commands[j]
    BY <1>1, <2>2
  <2>5. UNCHANGED <<records, issued, chain, restarts, tasks>>
    BY <2>1 DEF adapterVars
  <2>6. tasks' \in [Workers -> Task] /\ TasksInv' /\ CommandsInv'
    BY <2>2, <2>3, <2>4, <2>5, OthersMove
  <2>7. UNCHANGED Adapter!vars
    BY <2>1 DEF adapterVars, Adapter!vars, Adapter!commitmentVars, Adapter!revocationVars
  <2>8. QED
    BY <2>3, <2>6, <2>7 DEF StepOK, CommitmentStep
<1>4. CASE ChainMoves(k)
  <2>1. PICK from \in {"sent", "success"}, to \in {"success", "failure", "final"} :
            Adapter!ChainStep(k, from, to)
    BY <1>4 DEF ChainMoves, Adapter!ChainExecute, Adapter!ChainCheckpoint
  <2>2. /\ chain[k] = from /\ chain' = [chain EXCEPT ![k] = to]
        /\ UNCHANGED <<records, issued, restarts, tasks, commands>>
    BY <1>4, <2>1 DEF ChainMoves, Adapter!ChainStep, Adapter!commitmentVars
  <2>3. \A j \in Jobs : chain'[j] = IF j = k THEN to ELSE chain[j]
    BY <1>1, <2>2
  <2>4. tasks' \in [Workers -> Task] /\ TasksInv' /\ CommandsInv'
    BY <1>1, <2>2, <2>3, OthersMove
  <2>5. Adapter!Chain(k)
    BY <1>4 DEF ChainMoves, Adapter!Chain
  <2>6. QED
    BY <1>1, <2>2, <2>4, <2>5 DEF StepOK, CommitmentStep
<1>5. QED
  BY <1>2, <1>3, <1>4

\* A restart kills the processes with their workers.
LEMMA RestartOK == ASSUME IInv, Restart PROVE StepOK
<1>1. /\ tasks' = [w \in Workers |-> Idle]
      /\ commands' = [j \in Jobs |-> IF commands[j] = "running" THEN "killed" ELSE commands[j]]
      /\ restarts' = restarts + 1 /\ chain' = chain
      /\ Adapter!Restart
  BY DEF Restart, Adapter!Restart
<1>2. restarts \in Nat /\ commands \in [Jobs -> Process]
  BY RestartAssumption DEF IInv, TypeOK, Adapter!TypeOK
<1>3. tasks' \in [Workers -> Task] /\ commands' \in [Jobs -> Process]
  BY <1>1, <1>2, IdleTask DEF Process
<1>4. TasksInv'
  BY <1>1, IdleTask DEF TasksInv, TaskInv, LookupPhases
<1>5. restarts' # 0
  BY <1>1, <1>2
<1>6. CommandsInv'
  BY <1>1, <1>5 DEF IInv, CommandsInv, CommandInv
<1>7. QED
  BY <1>1, <1>3, <1>4, <1>6 DEF StepOK, CommitmentStep

-----------------------------------------------------------------------------
(* Theorems.                                                               *)

LEMMA InitIInv == Init => IInv /\ Adapter!Init
<1> SUFFICES ASSUME Init
             PROVE  IInv /\ Adapter!Init
  OBVIOUS
<1>1. Adapter!Init /\ Proved!Init
  BY SameInit DEF Init
<1>2. Proved!IInv
  BY <1>1, Proved!InitIInv, NoneAssumption, RestartAssumption
<1>3. TypeOK
  BY <1>2, SameTypes, IdleTask DEF Init, TypeOK, Process, Proved!IInv
<1>4. TasksInv
  BY IdleTask DEF Init, TasksInv, TaskInv, LookupPhases
<1>5. CommandsInv
  BY <1>1 DEF Init, CommandsInv, CommandInv, Adapter!Init
<1>6. QED
  BY <1>1, <1>2, <1>3, <1>4, <1>5 DEF IInv

LEMMA SameTypesNext == Proved!TypeOK' => Adapter!TypeOK'
BY SameTypes, PTL

\* Every step is a step of the adapter or none of it, and keeps the invariant.
LEMMA NextIInv ==
    IInv /\ [Next]_vars =>
        IInv' /\ [Adapter!Next]_(Adapter!vars) /\ [Proved!Next]_(Proved!vars)
<1> SUFFICES ASSUME IInv, [Next]_vars
             PROVE  IInv' /\ [Adapter!Next]_(Adapter!vars) /\ [Proved!Next]_(Proved!vars)
  OBVIOUS
<1>1. StepOK
  <2>1. ASSUME NEW w \in Workers, WorkerStep(w) \/ RpcAnswers(w)
        PROVE  StepOK
    BY <2>1, GetOK, CommandPrintedOK, FailsOK, ConfirmsOK, LoopOK DEF WorkerStep
  <2>2. CASE UNCHANGED vars
    <3>1. UNCHANGED <<records, issued, chain, restarts, tasks, commands>>
      BY <2>2 DEF vars, adapterVars
    <3>2. commands \in [Jobs -> Process]
      BY DEF IInv, TypeOK
    <3>3. tasks' \in [Workers -> Task] /\ TasksInv' /\ CommandsInv'
      BY <3>1, <3>2, OthersMove
    <3>4. UNCHANGED Adapter!vars
      BY <2>2 DEF vars, adapterVars, Adapter!vars, Adapter!commitmentVars,
          Adapter!revocationVars
    <3>5. QED
      BY <3>1, <3>2, <3>3, <3>4 DEF StepOK, CommitmentStep
  <2>3. QED
    BY <2>1, <2>2, SubmitOK, ChainOK, RestartOK DEF Next
<1>2. [Adapter!Next]_(Adapter!vars) /\ [Proved!Next]_(Proved!vars)
  BY <1>1, SameStep DEF StepOK
<1>3. Proved!IInv'
  BY <1>2, Proved!NextIInv, NoneAssumption, RestartAssumption DEF IInv
<1>4. TypeOK'
  <2>1. Proved!TypeOK'
    BY <1>3 DEF Proved!IInv
  <2>2. QED
    BY <1>1, <2>1, SameTypesNext DEF StepOK, TypeOK
<1>5. QED
  BY <1>1, <1>2, <1>3, <1>4 DEF IInv, StepOK

\* IInv is inductive and holds in every reachable state.
THEOREM Invariance == Spec => []IInv
BY InitIInv, NextIInv, PTL DEF Spec

\* The records, the workers and the processes keep their types: the deadline leaves a
\* lookup no more polls than its timeout has intervals.
THEOREM TypeCorrect == Spec => []TypeOK
<1>1. IInv => TypeOK
  BY DEF IInv
<1>2. QED
  BY <1>1, Invariance, PTL

\* submit and wait_for_confirmation, await by await, do what LedgerAdapter says of a
\* worker: initial states are initial, and every step is a step of the adapter or
\* changes nothing it sees.
THEOREM Implementation == Spec => ImplementsAdapter
<1>1. Init => Adapter!Init
  BY InitIInv
<1>2. IInv /\ [Next]_vars => [Adapter!Next]_(Adapter!vars)
  BY NextIInv
<1>3. QED
  BY <1>1, <1>2, Invariance, PTL DEF Spec, ImplementsAdapter, Adapter!Spec

\* So a backend that polls the chain under a deadline, runs a command it may kill and
\* forgets its records in a restart keeps what the adapter promises: one live commitment
\* for a session, "confirmed" only of a final transaction, settled records never touched.
THEOREM AdapterKept ==
    Spec => /\ [](Proved!OneLiveCommitment /\ Proved!ConfirmedIsFinal)
            /\ Proved!SettledForGood
<1>1. IInv => Proved!OneLiveCommitment /\ Proved!ConfirmedIsFinal
  BY DEF IInv, Proved!IInv
<1>2. IInv /\ [Next]_vars => [restarts' = restarts => Proved!SettledStep]_(Proved!vars)
  <2>1. IInv /\ [Next]_vars => Proved!IInv /\ [Proved!Next]_(Proved!vars)
    BY NextIInv DEF IInv
  <2>2. QED
    BY <2>1, Proved!StepSettles, NoneAssumption, RestartAssumption
<1>3. QED
  BY <1>1, <1>2, Invariance, PTL DEF Spec, Proved!SettledForGood

\* Of the transactions of one session that reached the chain, all but one belong to
\* jobs that failed.
THEOREM DuplicatesFailed == Spec => []DuplicatesOnlyAfterFailure
<1>1. IInv => DuplicatesOnlyAfterFailure
  <2> SUFFICES ASSUME IInv, restarts = 0, NEW j \in Jobs, NEW k \in Jobs, j # k,
                      chain[j] # "none", chain[k] # "none",
                      records[j].session = records[k].session,
                      records[j].status # "failed", records[k].status # "failed"
               PROVE  FALSE
    BY DEF DuplicatesOnlyAfterFailure
  <2>1. records[j].status # "absent" /\ records[k].status # "absent"
    BY DEF IInv, CommandsInv, CommandInv
  <2>2. /\ commitment_jobs_by_session[records[j].session] = j
        /\ commitment_jobs_by_session[records[k].session] = k
    BY <2>1 DEF IInv, Proved!IInv, Proved!OneLiveCommitment
  <2>3. QED
    BY <2>2
<1>2. QED
  BY <1>1, Invariance, PTL
=============================================================================
