----------------------------- MODULE IotaBackend -----------------------------
(***************************************************************************)
(* The IOTA backend (src/services/ledger-adapter/app/backends.py) await by *)
(* await: the CLI process submit starts and kills at its timeout, and the  *)
(* lookup loop of wait_for_confirmation with its deadline.                 *)
(*                                                                         *)
(* The commitment workers of the ledger adapter run it in iota mode; the   *)
(* revocation workers run the same submit and are left out.  LedgerAdapter *)
(* is instantiated for the handlers, the queue and the chain, and its      *)
(* workers' phases are what this module implements.                        *)
(***************************************************************************)
EXTENDS Naturals, Sequences

CONSTANTS
    Sessions, Jobs, Workers, MaxRestarts, None,  \* see LedgerAdapter
    Polls  \* bound: confirmation timeout / poll interval, how often a loop can look

ASSUME NoneAssumption == None \notin Jobs \cup Sessions
ASSUME RestartAssumption == MaxRestarts \in Nat
ASSUME PollsAssumption == Polls \in Nat

VARIABLES
    queue, records, commitment_jobs_by_session, issued, chain, restarts,
    tasks,     \* worker -> its commitment_worker coroutine
    commands   \* job -> the CLI process run_command started for it

adapterVars == <<queue, records, commitment_jobs_by_session, issued, chain, restarts>>
vars == <<adapterVars, tasks, commands>>

-----------------------------------------------------------------------------
\* Where a worker is suspended: queue.get(), process.communicate(), the test of
\* the while loop, the JSON-RPC call, asyncio.sleep.
Idle == [pc |-> "idle", job |-> None, left |-> 0, answer |-> "none"]

\* "unknown" is a transaction block without a status or without a checkpoint,
\* "error" everything that raises: HTTP errors, timeouts, bodies that do not parse.
Answer == {"none", "not_found", "unknown", "failure", "final", "error"}

Task == [pc: {"idle", "command", "testing", "asking", "sleeping"},
         job: Jobs \cup {None}, left: 0..Polls, answer: Answer]

\* "printed": exit code 0 and JSON with a digest; "useless": any other end.
Process == {"none", "running", "printed", "useless", "killed"}

\* The adapter sees of a coroutine which of its two awaits of submit it is in.
Phase(t) ==
    [phase |-> IF t.pc \in {"testing", "asking", "sleeping"} THEN "lookup" ELSE t.pc,
     job |-> t.job]

Adapter == INSTANCE LedgerAdapter WITH
    LedgerMode <- "iota",
    commitment_workers <- [w \in Workers |-> Phase(tasks[w])],
    revocation_queue <- << >>,
    revocation_records <- [j \in Jobs |->
        [status |-> "absent", session |-> None,
         ledger_identifier |-> None, session_anchor |-> None]],
    revocation_jobs_by_session <- [s \in Sessions |-> None],
    revocation_workers <- [w \in Workers |-> [phase |-> "idle", job |-> None]]

TypeOK ==
    /\ Adapter!TypeOK
    /\ tasks \in [Workers -> Task]
    /\ commands \in [Jobs -> Process]

Init ==
    /\ tasks = [w \in Workers |-> Idle]
    /\ commands = [j \in Jobs |-> "none"]
    /\ Adapter!Init

-----------------------------------------------------------------------------
(* The worker around submit.                                               *)

SubmitCommitment(s, j) ==
    /\ UNCHANGED <<tasks, commands>>
    /\ Adapter!SubmitCommitment(s, j)

\* queue.get(), and run_command starts its process.
Get(w) ==
    /\ tasks[w].pc = "idle"
    /\ queue # << >>
    /\ tasks' = [tasks EXCEPT ![w] = [Idle EXCEPT !.pc = "command", !.job = Head(queue)]]
    /\ commands' = [commands EXCEPT ![Head(queue)] = "running"]
    /\ records' = [records EXCEPT ![Head(queue)].status = "submitting"]
    /\ queue' = Tail(queue)
    /\ UNCHANGED <<commitment_jobs_by_session, issued, chain, restarts>>

\* The worker settles its job and goes back to queue.get().
Settles(w, status) ==
    /\ tasks' = [tasks EXCEPT ![w] = Idle]
    /\ records' = [records EXCEPT ![tasks[w].job].status = status]
    /\ UNCHANGED <<queue, commitment_jobs_by_session, issued, chain, restarts>>

-----------------------------------------------------------------------------
(* run_command and the rest of submit.                                     *)

AwaitsCommand(w) == tasks[w].pc = "command"
Command(w) == commands[tasks[w].job]

\* Mutant: the deadline is one interval late.
CommandPrintedLate(w) ==
    LET j == tasks[w].job
    IN  /\ AwaitsCommand(w)
        /\ Command(w) = "printed"
        /\ records' = [records EXCEPT ![j] =
                [@ EXCEPT !.status = "confirming", !.ledger_identifier = j]]
        /\ tasks' = [tasks EXCEPT ![w] = [@ EXCEPT !.pc = "testing", !.left = Polls + 1]]
        /\ UNCHANGED <<queue, commitment_jobs_by_session, issued, chain, restarts, commands>>

\* on_submitted runs and wait_for_confirmation computes its deadline.
CommandPrinted(w) ==
    LET j == tasks[w].job
    IN  /\ AwaitsCommand(w)
        /\ Command(w) = "printed"
        /\ records' = [records EXCEPT ![j] =
                [@ EXCEPT !.status = "confirming", !.ledger_identifier = j]]
        /\ tasks' = [tasks EXCEPT ![w] = [@ EXCEPT !.pc = "testing", !.left = Polls]]
        /\ UNCHANGED <<queue, commitment_jobs_by_session, issued, chain, restarts, commands>>

CommandUseless(w) ==
    /\ AwaitsCommand(w)
    /\ Command(w) = "useless"
    /\ Settles(w, "failed")
    /\ UNCHANGED commands

\* Mutant: the process is left running.
CommandTimesOutUnkilled(w) ==
    /\ AwaitsCommand(w)
    /\ Command(w) = "running"
    /\ Settles(w, "failed")
    /\ UNCHANGED commands

\* The process is killed and awaited before the job fails.
CommandTimesOut(w) ==
    /\ AwaitsCommand(w)
    /\ Command(w) = "running"
    /\ Settles(w, "failed")
    /\ commands' = [commands EXCEPT ![tasks[w].job] = "killed"]

-----------------------------------------------------------------------------
(* wait_for_confirmation.                                                  *)

Goes(w, pc) == [tasks EXCEPT ![w] = [@ EXCEPT !.pc = pc, !.answer = "none"]]

Ask(w) ==
    /\ tasks[w].pc = "testing"
    /\ tasks[w].left > 0
    /\ tasks' = Goes(w, "asking")
    /\ UNCHANGED <<adapterVars, commands>>

TimesOut(w) ==
    /\ tasks[w].pc = "testing"
    /\ tasks[w].left = 0
    /\ Settles(w, "failed")
    /\ UNCHANGED commands

Answered(w, answers) == tasks[w].pc = "asking" /\ tasks[w].answer \in answers

Confirms(w) ==
    /\ Answered(w, {"final"})
    /\ Settles(w, "confirmed")
    /\ UNCHANGED commands

\* Mutant: a call that raises is waited for for ever.
LookupRaisesNothing(w) ==
    /\ Answered(w, {"failure"})
    /\ Settles(w, "failed")
    /\ UNCHANGED commands

LookupRaises(w) ==
    /\ Answered(w, {"failure", "error"})
    /\ Settles(w, "failed")
    /\ UNCHANGED commands

GoesToSleep(w) ==
    /\ Answered(w, {"not_found", "unknown"})
    /\ tasks' = Goes(w, "sleeping")
    /\ UNCHANGED <<adapterVars, commands>>

\* Call and sleep take at least a poll interval, and may outlast the deadline.
Wakes(w) ==
    /\ tasks[w].pc = "sleeping"
    /\ \E left \in 0..(tasks[w].left - 1) :
        tasks' = [Goes(w, "testing") EXCEPT ![w].left = left]
    /\ UNCHANGED <<adapterVars, commands>>

WorkerStep(w) ==
    \/ Get(w)
    \/ CommandPrinted(w) \/ CommandUseless(w) \/ CommandTimesOut(w)
    \/ Ask(w) \/ TimesOut(w)
    \/ Confirms(w) \/ LookupRaises(w) \/ GoesToSleep(w) \/ Wakes(w)

-----------------------------------------------------------------------------
(* The CLI, the RPC node, the chain and the container.                     *)

CliSubmits(j) ==
    /\ commands[j] = "running"
    /\ chain[j] = "none"
    /\ chain' = [chain EXCEPT ![j] = "sent"]
    /\ UNCHANGED <<queue, records, commitment_jobs_by_session, issued, restarts,
                   tasks, commands>>

CliEnds(j) ==
    /\ commands[j] = "running"
    /\ \E end \in {"useless"} \cup (IF chain[j] = "none" THEN {} ELSE {"printed"}) :
        commands' = [commands EXCEPT ![j] = end]
    /\ UNCHANGED <<adapterVars, tasks>>

\* A node may lag behind the network, and what it says grows old on its way.
Seen(j) ==
    CASE chain[j] = "success" -> {"not_found", "unknown"}
      [] chain[j] = "failure" -> {"not_found", "failure"}
      [] chain[j] = "final" -> {"not_found", "unknown", "final"}
      [] OTHER -> {"not_found"}

RpcAnswers(w) ==
    /\ Answered(w, {"none"})
    /\ \E answer \in Seen(tasks[w].job) \cup {"error"} :
        tasks' = [tasks EXCEPT ![w].answer = answer]
    /\ UNCHANGED <<adapterVars, commands>>

ChainMoves(j) ==
    /\ UNCHANGED <<tasks, commands>>
    /\ Adapter!ChainExecute(j) \/ Adapter!ChainCheckpoint(j)

Restart ==
    /\ tasks' = [w \in Workers |-> Idle]
    /\ commands' = [j \in Jobs |-> IF commands[j] = "running" THEN "killed" ELSE commands[j]]
    /\ Adapter!Restart

-----------------------------------------------------------------------------
Next ==
    \/ \E s \in Sessions, j \in Jobs : SubmitCommitment(s, j)
    \/ \E w \in Workers : WorkerStep(w) \/ RpcAnswers(w)
    \/ \E j \in Jobs : CliSubmits(j) \/ CliEnds(j) \/ ChainMoves(j)
    \/ Restart

Spec == Init /\ [][Next]_vars

\* The event loop runs every worker; its timers end the command and the sleep,
\* and httpx.AsyncClient(timeout=10.0) ends the call.  Nothing is assumed of the
\* CLI, the node and the chain.
Fairness == \A w \in Workers : WF_vars(WorkerStep(w)) /\ WF_vars(RpcAnswers(w))

FairSpec == Spec /\ Fairness

-----------------------------------------------------------------------------
(* Properties.                                                             *)

\* What the adapter's specification assumes of a worker in submit is what the
\* CLI process and the poll loop do: in particular a transaction reaches the
\* chain only while the command of a worker that still waits for it runs, and
\* success is reported only of a transaction that was final when looked up.
ImplementsAdapter == Adapter!Spec

\* A session has several transactions on the chain only because jobs failed
\* whose command was killed, or whose lookup gave up, after the transaction had
\* left: all but one of them belong to failed jobs.
DuplicatesOnlyAfterFailure ==
    restarts = 0 =>
        \A j, k \in Jobs :
            /\ j # k
            /\ chain[j] # "none"
            /\ chain[k] # "none"
            /\ records[j].session = records[k].session
            => "failed" \in {records[j].status, records[k].status}

\* Whatever the CLI, the node and the chain do, every accepted commitment is
\* settled: command timeout and deadline bound every await of submit.
CommitmentsSettle == Adapter!JobsSettle
=============================================================================
