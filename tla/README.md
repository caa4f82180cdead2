# Split-Trust testbed: TLA+ models and proofs

These modules model the testbed in `src/`: five Python services that set up a
session between two gateways under a third party's authorization, anchor the
session's commitment on a ledger, and revoke the session through that ledger.
The specifications are translated from the code; TLC checks them on small
instances, liveness under fairness included, and TLAPS proves for every instance
each safety property the passing runs check, and all three refinements.

Run from this directory:

    tlc -config adapter_iota.cfg MCLedgerAdapter.tla
    tlapm SessionRevocation_proofs.tla

How the modules hang together:

    SessionLifecycle            abstract life of a session
      ^ implemented by (SessionRevocationToLifecycle)
    SessionRevocation           gateways, adapter and monitor
      |  INSTANCE LedgerAdapter     <- implemented by IotaBackend
      ^ extended by
    RevocationCase              the benchmark's client        Campaign: many cases
    SessionSetup                abstract: the two halves of a session
      ^ implemented by (SessionEstablishmentToSetup)
    SessionEstablishment        how a session comes about
      relies on Derivations (derived values) and Startup (who has which key)

## Inventory of the system

| Part | Code | State it keeps | Operations |
|---|---|---|---|
| SAC | `services/sac/app/main.py` | keys and `DOMAIN_PAIR_POLICIES` from the environment; nothing per session | `authorize`: policy check, draw a session, sign its package, provision Gateway B, reply |
| Gateway A | `services/gateway-a/app/main.py` | `established_sessions` (commitment, ledger job, revocation job), Gateway B's KEM public key fetched at startup | `establish_session`, `revoke_session` |
| Gateway B | `services/gateway-b/app/main.py` | `authorizations`, `pending_handshakes`, `established_sessions`, a KEM key pair drawn at startup | `provision_authorization`, `handshake`, `confirm_handshake`, `validate_session_action`, the `revocation_monitor` task |
| Ledger adapter | `services/ledger-adapter/app/main.py` | for commitments and for revocations: a queue, job records, the latest job of each session | `submit_commitment`, `submit_revocation`, four GETs, `WORKER_COUNT` workers of each kind |
| IOTA backend | `services/ledger-adapter/app/backends.py` | none | `submit` (CLI command with a timeout), `wait_for_confirmation` (lookup loop with a deadline) |
| Move registry | `iota/commitment-registry` | none | emits an event |
| Load generator | `services/loadgen/app/benchmark.py` | counters of one campaign | session requests, revocation cases, the campaign around them |
| Shared code | `shared/splittrust` | none | messages, cryptography, encoding, logging |
| Deployment | `compose*.yaml` | none | `restart: unless-stopped` for every service (not for the load generator, a tool), delay proxy |

How they interact. Gateway A calls the SAC, the SAC calls Gateway B inside that
call, then A calls B twice (handshake, confirmation) and the adapter once
(commitment). A revocation goes from A to the adapter only; Gateway B learns of
it by polling the adapter. All calls are HTTP with a client timeout, and none is
retried. All state is in the memory of the processes.

What is hard in it:

- *Interleaving.* Every service is one asyncio process: code between two awaits
  is atomic, and everything else interleaves. `revoke_session` and the monitor
  act on what they read before an await.
- *Failure.* A caller may time out while its request is under way or being
  served: the two sides of a call then disagree about what happened. A
  restart of a service loses all of its state and, for Gateway B, its key pair.
- *Ordering.* Several workers settle jobs of one session in any order; a failed
  commitment may be submitted again.
- *Eventually.* Workers and the monitor are tasks that must survive exceptions.
- *Startup.* The services wait for each other and cache what they fetch for life.
- *Measuring.* The load generator's claims about revocation rest on two pollers
  that watch two services at once.

What makes each part correct: for the adapter, that no job is lost or run twice,
that a session has one commitment that counts, that a revocation names it, and
that nothing is confirmed before it is final. For establishment, that the
gateways agree on action and key and that an authorization makes one session.
For revocation, that exactly the session whose confirmed revocation names its
confirmed commitment is revoked, and that it is revoked in the end.

`PROJECT.json` lists the hazards one by one, each with its line.

## Modules

### LedgerAdapter

The adapter and its backend, both for commitments (`queue`, `records`,
`commitment_jobs_by_session`, `commitment_workers`) and for revocations. The
variables have the code's names; `commitment_workers` is what the code keeps in
the local variables of its worker coroutines: the await a worker is suspended in
and its job.

| Action | Code |
|---|---|
| `SubmitCommitment`, `SubmitRevocation` | the POST handlers (atomic: no await); a false guard is the 409 or 404 |
| `CommitmentGet`, `RevocationGet` | `queue.get()` up to the sleep or the command |
| `...SimulatedFinality` | the end of `asyncio.sleep` in simulated mode |
| `...Submitted` | the command printed a digest; the `submitted` callback |
| `...CommandFails` | timeout, exit code, JSON or digest missing |
| `...Confirmed` | the lookup found success in a checkpoint |
| `...LookupFails` | failed execution, RPC error or deadline |
| `ChainReceive`, `ChainExecute`, `ChainCheckpoint` | external: the transaction's way through the network |
| `Restart` | the container is restarted: memory is empty, the chain is not |

A transaction digest is identified with its job, since one job submits at most
one transaction. `issued` says which uuid4 identifiers were drawn. A command that
fails may have handed over its transaction or not: `ChainReceive` may come before
the failure, and the transaction goes on either way.

### IotaBackend

What `LedgerAdapter` says in three actions of a worker in live mode, await by
await: the CLI process (`commands`) that `run_command` starts, awaits and kills,
and the lookup loop of `wait_for_confirmation` with the number of polls its
deadline leaves (`tasks[w].left`), the JSON-RPC call and the sleep. The node may
not know the transaction yet, answer without a checkpoint, or fail; what it says
may be old when it arrives. Only the commitment workers are there, since the
revocation workers run the same two methods.

`Adapter` instantiates `LedgerAdapter` with `commitment_workers` mapped by
`Phase` (a poll, a call and a sleep are all the phase "lookup") and no
revocations; the handler, the chain and the restart are its actions.
`ImplementsAdapter` is the refinement. What it rests on: `run_command` kills the
process before the job fails, so nothing reaches the chain that no worker waits
for, and only a transaction that was final when looked up is reported confirmed.

### SessionEstablishment

`establish_session` with everything it calls. Messages are a set of records, a
request and a response per call; a message is taken by its receiver at most once,
at any time or never. `RunFails` and `ProvisioningFails` are a caller giving up,
whatever became of its request; `Refuse` is an error answer or a lost request.
`a_runs` and `sac_runs` are the coroutines of the handlers. A session is
identified with the request it is drawn for, since the SAC draws a fresh uuid4
for every request. Cryptography is ideal: what distinguishes two session keys is
the generation of Gateway B's key pair, because everything else that goes into
the key is fixed by the session and checked against the same values. Gateway B
decapsulates a ciphertext made for an old key pair without an error, to another
key: `AnswerHandshake` answers with a TagB under B's key, and `SendTagA` requires
A's.

`RestartA`, `RestartSac` and `RestartB` empty the memory of a service. A
restarted Gateway A fetches B's current key; a restarted B has a new one, which A
does not notice.

### SessionSetup and SessionEstablishmentToSetup

`SessionSetup` is what `POST /sessions` promises of the two halves of a session
however messages are lost and services restart: Gateway B's half comes first
(`Accept`), Gateway A gains its own on B's word and posts the commitment in the
same step (`Hold`), each at most once, and a half that is over stays over.

`SessionEstablishmentToSetup` reads a half off the gateway's session and off what
could still make it. Gateway B's half is open while the SAC has not started or a
provisioning request or an authorization is there (`MayAccept`). B's word may
outlive its half: if B restarts while its confirmation is on the way, Gateway A
still takes it (`vouched`) and then holds a session nobody shares with it. The
commitment is "queued" once the ledger's answer exists, whether A has read it or
not.

### SessionRevocation

Composes `LedgerAdapter` (by `INSTANCE`) with Gateway A's `revoke_session`,
Gateway B's `revocation_monitor` and the calls between them. Establishment is one
step per gateway here (`EstablishB`, `EstablishA`), B first, so that a session
may exist at B only. A call is `sent`, `served` and returned; a caller that gives
up does not unsend it. The monitor's variable holds the rest of its scan, the
session it asks about and the answers it has so far, which may be out of date by
the time it acts.

### SessionLifecycle and SessionRevocationToLifecycle

`SessionLifecycle` is what the testbed promises of a session, whoever keeps which
part of it: established, anchored, revocation requested, confirmed, revoked, in
this order; only a restart of the adapter (`Forget`) sets a session back, and
never a revoked one. A step concerns one session.

`SessionRevocationToLifecycle` reads the stage off the code's state: Gateway B's
session, then what the monitor was told, then the adapter's records. Three points
of the mapping follow the code and not one's first guess. A session is
"requested" while any of its revocations is under way, not only the one the
adapter reports; a failure of one of two changes no stage. A confirmed revocation
stays confirmed for the monitor that was `told` of it, although the adapter
restarts and forgets it: it is then enforced if the commitment was asked for in
time, or given up (`Abandon`). And a session committed anew after a restart is
anchored anew.

### RevocationCase

`issue_revocation_case` as the client of `SessionRevocation`, which it extends:
`case` is the coroutine, `confirmation` and `rejection` are the two pollers it
gathers. The system's actions are those of `SessionRevocation`, restricted to
what the case asked for (`SystemStep`). A read-only call is one step, taken when
the service answers: the case does nothing between sending it and having the
answer. Any call may raise; a poll that finds nothing yet changes nothing. When
one poller raises, the case fails and the other one goes on, as `gather` does
not cancel it.

### Campaign

`run` and `run_revocation`: warm-up requests one by one, the measured ones behind
a semaphore, the summary. `request_body` is the choice of the two domains by
index. A request reports an `Outcome`: it failed, or succeeded with the checks it
passed (for `--mode revocation`). A case that succeeds was `correctly_enforced`;
`control_preserved` and `reuse_rejected` come from two calls after that, which do
not raise on a refusal, so either may be missing, or both (Gateway B restarted
before them). `mode` is chosen at the start.

### Startup

The lifespans of the four services: `fetched` and `tries` are the fetches each
`gather`s, `Needs` says from whom. A service that runs out of attempts exits
(`GiveUp`) and is started again (`Start`, the restart policy). `kem` counts the
key pairs Gateway B drew, `a_kem` is the one Gateway A fetched. `RestartNext` is
the `docker compose restart` of a trial script. `OnlyScriptRestartedB` tells from
`kem` whether Gateway B came up another time than the script made it.

### Derivations

The inputs of every derivation in `crypto.py`, in the order in which `frame`
joins them. The inputs are any byte strings (`InputsAssumption`); that some are
always of one length is not used. A byte is a number, and so is the length before
a part: four bytes in the code, which limits a part to 4 GiB, and one unbounded
number here. One thing is assumed of the values: no `s_sac`, which is random, is
the digest of the ledger epoch (`EpochAssumption`). `derive_ledger_freshness` and
`derive_salt_commitment` have the same function and both hash two parts, so only
the second part tells the two apart.

### MC modules and proofs

The MC modules extend the modules for TLC. Identifiers are only compared for
equality. The runs without liveness use that as symmetry (`MCLedgerAdapter`,
`MCSessionRevocation`). TLC does not check liveness
under symmetry, so `MCSessionRevocation`, `MCIotaBackend` and `MCRevocationCase`
have `MCFairSpec`: job identifiers (and revoke requests) are numbers and are drawn
`InOrder`, one representative of every behaviour up to renaming. A handler that
draws a job may draw any unused one, so no fair action is disabled by it.
`MCDerivations` has inputs of bytes that are also lengths. The runs of
establishment are runs of `SessionEstablishmentToSetup`; `Startup` and `Campaign`
are checked as they are.

A module `M_proofs` holds the theorems about `M`:

| Module | Theorems |
|---|---|
| `LedgerAdapter_proofs` | the adapter, and what its callers may rely on |
| `IotaBackend_proofs` | the backend implements it, on top of the adapter's theorems |
| `SessionEstablishment_proofs` | establishment, and that it implements `SessionSetup` |
| `Derivations_proofs` | equal derived values have equal inputs |
| `SessionRevocation_proofs` | revocation across services, on top of the adapter's theorems, and that it implements `SessionLifecycle` |
| `RevocationCase_proofs` | what the benchmark reports of it is true, likewise |
| `Startup_proofs`, `Campaign_proofs` | the restart order; the spread of the load and the summary |

The definitions a comment calls a mutant are plausible wrong versions of the
definition that follows them. They take no part in any specification; putting one
in its original's place makes the property named with it in `PROJECT.json` fail.

## Runs

| Run | Checks | Bounds |
|---|---|---|
| `adapter_iota` | `TypeOK`, `JobsOwned`, `OneLiveCommitment`, `RevocationsAnchored`, `ConfirmedIsFinal`, `SettledForGood` | 2 sessions, 4 jobs, 2+2 workers, 1 restart |
| `adapter_simulated` | `SimulatedCommitsOnce`, `SimulatedConfirms` under fairness, simulated mode | 2 sessions, 3 jobs, 2+2 workers, 1 restart |
| `adapter_gas_coin` | `OneSubmissionAtATime`, **violated** | 3 jobs, 1+1 workers |
| `establishment` | `TypeOK`, `KeyConfirmed`, `Agreement`, `SingleUse`, `ImplementsSetup`, `RequestsEnd` under fairness | 2 sessions, 2 actions of which 1 allowed, a restart of each service |
| `establishment_half_open` | `UsableOnlyIfConfirmedAtA`, **violated** | 1 session, no restart |
| `revocation_iota` | `TypeOK`, `EnforcedOnlyIfConfirmed`, `PostedIsAccepted`, `GatewaysAgreeOnCommitment`, `RecordedRevocationAccepted`, `ImplementsLifecycle` | 1 session, 2 revoke requests, 3 jobs, 1 restart of the adapter |
| `revocation_live` | `RevocationTakesEffect`, `JobsSettle` under fairness | 1 session, 2 revoke requests, 3 jobs, live mode, 1 restart of the adapter |
| `backend` | `TypeOK`, `DuplicatesOnlyAfterFailure`, `ImplementsAdapter`, `CommitmentsSettle` under fairness | 1 session, 3 jobs, 2 workers, 2 polls before the deadline, 1 restart |
| `startup` | `TypeOK`, `RestartLeavesAgreement`, `OutageRecovers` and `EventuallyReady` under fairness | 2 attempts per fetch, 2 crashes or failed fetches of any service, one restart by a script |
| `case` | `CaseTypeOK`, `CaseTruthful`, `RejectedAfterConfirmed`, `RevokedOnlyOnRequest`, `CaseEnds` under fairness | 1 case (2 sessions), 3 jobs, simulated mode, 1 restart of the adapter |
| `campaign` | `TypeOK`, `EvenLoad`, `ClaimCoversEveryRequest`, `CampaignEnds` under fairness | both modes; 3 domains (6 pairs), 2 warm-up and 7 measured requests, 2 at a time |
| `derivations` | `ValuesBindInputs` | every pair of derivations; 2 inputs of fixed length, texts of length 1 and 2, 2 keys |

Why the bounds are enough. Four jobs let a session's commitment fail, be
submitted again, be confirmed and be revoked while another session is under way,
with two workers of each kind racing for them. Two sessions are what it takes for
one to disturb another; two revoke requests are what it takes to pass the check
in `revoke_session` twice. One restart separates a before from an after, and
stale answers, keys and job identifiers are exactly those that cross it. The
bounds `Jobs` and `MaxRestarts` are the only ones on behaviour of these modules.
Establishment has one action the policy allows and one it denies, so a session is
authorized, refused or, if an action were mixed up, caught by `Agreement`. For
safety the theorems remove these bounds and those on sessions, actions, requests,
workers, polls, attempts, faults, domains, campaign sizes and inputs (a
revocation case is about two sessions and one request by its code); they matter
for liveness.
Two polls make a lookup go round, be late by one interval or by two, and reach
its deadline. Two attempts make a service retry and give up; what sixty would
add is more of the same retry. Two faults let one service fail while another one
comes up again. Nine requests are more than the six pairs of three domains, so the
choice of pairs wraps around. Two derived values are what a collision takes; text
of length one and two makes every boundary between neighbours ambiguous.

Deadlock is not checked: identifiers, requests and restarts are bounded supplies,
and a system that has used them up stops.

### What the two violated runs show

- `establishment_half_open`. The README (line 36) says a session becomes usable
  only after Gateway B accepts TagA *and* Gateway A receives the confirmation.
  Gateway B authorizes actions as soon as it accepted TagA. If A does not get the
  answer in time it reports an error and forgets the session, which stays usable
  at B until it expires and cannot be revoked through A.
- `adapter_gas_coin`. `docs/experiments-b-c.md` (lines 87-90) explains the live
  default of one worker by the single gas coin of a funded address. The adapter
  starts that many commitment workers *and* that many revocation workers, so a
  commitment and a revocation can be submitted at the same time.

### Fairness

- `LedgerAdapter`: weak fairness of each worker. asyncio resumes a task whose
  await is over; the sleep ends, a command is killed at its timeout, the lookup
  loop ends at its deadline. Nothing is assumed of the chain or the clients.
- `SessionEstablishment`: weak fairness of Gateway A's coroutines. Every call of
  `establish_session` has a client timeout, so every await ends. `RequestsEnd` says
  that with this a request is answered, and that a failure of the ledger call, the
  last one, does not fail it: once the session is established the answer is no
  error, unless Gateway A restarts and loses request and session.
- `SessionRevocation`: the adapter's, weak fairness of the monitor, and strong
  fairness of the two GET calls per session: the monitor repeats them on every
  scan, and they do not all fail. That is an assumption about the network and not
  about the code; without it no polling client ever learns anything.
- `IotaBackend`: weak fairness of the workers and of the call they await, which
  `httpx.AsyncClient(timeout=10.0)` ends if nobody answers. Nothing of the CLI,
  the node and the chain.
- `Startup`: the restart policy starts what is down; a lifespan goes on; a fetch
  from a service that stays up is answered in the end. Failed attempts are not
  fair, and those against a service that is up are bounded by `MaxFaults`.
- `RevocationCase`: the case's own steps, the client timeout of a call and the
  deadlines of the pollers. Nothing of the system, which may stop.
- `Campaign`: a request ends (`CaseEnds`, and the timeout of `issue_request`),
  and a task whose turn at the semaphore has come starts.

`RevocationTakesEffect` has exceptions the code has: the session expires first,
or its latest revocation job fails or is lost in a restart of the adapter.
The adapter reports the latest of two concurrent revocations only, so an earlier
one that is confirmed takes effect only if the later one does not fail; the two
requests of `revocation_live` reach that case.

## Proofs

### The adapter

`LedgerAdapter_proofs` proves, for any sessions, jobs, workers, restarts and both
modes, that the specification of the adapter satisfies

- `TypeCorrect`: `[]TypeOK`
- `JobsStayOwned`: `[]JobsOwned`
- `OneCommitment`: `[]OneLiveCommitment`
- `Anchored`: `[]RevocationsAnchored`
- `Final`: `[]ConfirmedIsFinal`
- `SettledStaySettled`: `SettledForGood`

from `NoneAssumption`, `ModeAssumption` and `RestartAssumption`, which TLC
evaluates in every run.

The argument. None of the properties but `TypeOK` is inductive alone: that a
confirmed commitment is never overwritten depends on no worker still holding it,
which is `JobsOwned`; `JobsOwned` depends on a new job being in nobody's queue,
which is that identifiers not yet issued have no record (`UnissuedAbsent`);
`ConfirmedIsFinal` depends on no worker sleeping in iota mode
(`NoSimulatedSleep`), since a sleeping worker confirms without asking the chain.
`IInv` is the conjunction of all of them, and `adapter_iota`'s instance satisfies
it. The proof has three layers:

1. `Owned` is a predicate on any queue, records and workers. Four lemmas say how
   a job moves: it is submitted, taken, continued and ended. Commitments and
   revocations use the same four.
2. `CommitmentMoves` and `RevocationMoves` say that changing the status of a job
   under way keeps what the records say about each other (`RecordsOK`).
3. `NextIInv` goes through the actions, and `StepSettles` derives the action
   property from the invariant.

### Establishment

`SessionEstablishment_proofs` proves, for any sessions, actions, policy and
number of restarts, that `SessionEstablishment` satisfies

- `TypeCorrect`: `[]TypeOK`
- `Confirmed`: `[]KeyConfirmed`
- `UsedOnce`: `[]SingleUse`
- `Agreed`: `[]Agreement`

from `PolicyAssumption`, `RestartAssumption` and `NoneAssumption`, which TLC
evaluates in every run.

The argument. What a gateway may conclude from an answer depends on what is still
in flight, so `IInv` says of every message what it implies. `IssuedAsAsked` and
`ProvisionedAsIssued` follow the action from Gateway A's request to Gateway B's
authorization, and say that a request is served at most once (an authorization
stored a second time would be unused again). `KeysDrawn` and
`ConfirmedAsDerived` follow the key: Gateway A has none that B has yet to draw,
so a restarted B's key differs from all of them, and a TagA in flight is under
A's key. `AcceptedAtB` says that all that follows from TagA being accepted, the
answer, A's record and the request to the ledger, is about the session B has;
`Agreement` is a consequence of it.

`SessionIInv(s)` is the part about one session. `Others` shows that a step about
one session leaves every other one `Undisturbed`, `Frame` that this keeps its
invariant, and each action has one lemma about its own session; steps that only
end a coroutine or lose a message disturb no one and need `Frame` alone.

### Establishment implements SessionSetup

`Implementation`: `Spec => ImplementsSetup`, and from it `GivenUpForGood`: a
request that Gateway A answered with an error or lost never gains its session
later, not even on a late answer of Gateway B, and a session Gateway B lost is
not established there a second time.

`IInv` does not suffice, since it says what a message implies and not what it
excludes. `SetupIInv` adds that a request that posted its commitment or holds its
session is decided; that a commitment on its way to the ledger has no answer yet;
and that a session Gateway B accepted and has no more cannot be accepted again,
because the one authorization of it is spent (`SetupInv`, per session). Most
steps leave the abstract values of every session alone (`SetupUnmoved`,
`NoneMoves`), the others move one session (`OneMoves`) and have a lemma that
says how; only the restarts of the gateways move several, each as
`RestartASession` and `RestartBSession` allow.

### Derivations

`DerivedValuesBindInputs` proves `[]ValuesBindInputs` for any sets of byte strings,
of any lengths, from `InputsAssumption` and `EpochAssumption`.

`frame` joins by `FlattenSeq`, a recursive function, so what it computes needs an
induction over the parts. The library's induction theorem takes a predicate as a
parameter, which no backend can instantiate; `Induction` says the same of a *set*
of numbers and is proved from the well-foundedness of `<` on `Nat`, which the
library states without such a parameter. A statement is then proved for all `n` by
naming the set of those it holds of. In this way `FrameLayout` shows that a framed
sequence is `Layout`, a chain of blocks of a length and that many bytes, one for
each part and ending where the string ends. `LayoutUnique` shows, block by block,
that a string has one layout only: where a block starts is known, the number there
is its length, hence its part and where the next one starts. `FrameInjective` is
the consequence. `EveryDerivation` sums up what distinguishes a kind: its
function, its number of parts and, where two kinds agree in both, the second part;
`ValuesDiffer` concludes.

### Simulated mode

`SimulatedOnce` proves `[]SimulatedCommitsOnce`. That a session is committed once
depends on no commitment ever failing, and that on no worker of simulated mode
ever running a command (`NothingFails`); `OneLiveCommitment` does the rest.

### The adapter as its callers see it

A caller does not see the adapter's invariant, it acts on records it read a
while ago. `CallerInv` is the adapter's `IInv` with what answers rest on: the
latest job of a session is one of its jobs (`CommitmentsFiled`,
`RevocationsFiled`), and a confirmed revocation has the identifier its mode gives
it. `StepKeeps` says what a step may take away from a caller: nothing that is on
the chain; of the records only what a restart takes; and it makes no revocation
up that was not submitted. `LedgerKept` is that guarantee in terms of
`SessionRevocation`, and is all its proof knows of a step of the adapter.

### Revocation across services

`SessionRevocation_proofs` proves, for any sessions, requests, jobs, workers,
restarts of the adapter and both modes, that `SessionRevocation` satisfies

- `TypeCorrect`: `[]TypeOK`
- `PostedAccepted`: `[]PostedIsAccepted`
- `CommitmentAgreed`: `[]GatewaysAgreeOnCommitment`
- `RecordedAccepted`: `[]RecordedRevocationAccepted`
- `EnforcedConfirmed`: `[]EnforcedOnlyIfConfirmed`
- `RevokedRequested`: `[]RevokedOnlyOnRequest`

from `NoneAssumption`, `ModeAssumption`, `RestartAssumption` and
`SessionAssumption` (`None` is no identifier and no record).

The argument. Every value a gateway holds was true when it was read; `IInv` says
what is left of it now. For a commitment (`CommitsInv`): a call is served at most
once, so the job it was told is the only one. For a revoke request
(`RevokeInv`): its anchor is good unless the adapter restarted, since a confirmed
commitment is for good, and its job is one of its session. For the monitor
(`MonitorInv`): the job it holds is a confirmed revocation of the very session it
asks about, on the chain in iota mode although the adapter may have restarted
between its two answers. `RevokedInv` is the same of a session once marked, and
`RequestedInv` leads from a record of the adapter back to the request it came
from. Gateway A's requests, its commitments, the monitor and the adapter each
have a lemma about their steps; `LedgerKept` carries every part over a step of
the adapter.

Composed, the adapter is the adapter: `LedgerBehaves` (`Spec => Adapter!Spec`) and
`LedgerSettles` (`Spec => Adapter!SettledForGood`) show that the callers use it
through its handlers only, so that its theorems hold of it here.

### The life of a session

`Implementation` in `SessionRevocation_proofs`: `Spec => ImplementsLifecycle`.
`StageFound` is the stage of the mapping without its sets.
Most steps move no session (`NoneMoves`), and no step moves two (`OneMoves`). A
step moves its session in the order of the lifecycle only because of three facts
more (`LifeInv`, which TLC checked on `revocation_iota` before): the adapter has
a commitment only of a session Gateway B has (`CommitmentsServed`); the monitor
asks only about sessions that are there and not yet revoked (`MonitorVisits`);
and what it was told is still in the records unless the adapter has forgotten all
it knew of the session (`ToldOfRecords`). `InOrder` concludes that whatever is
requested, confirmed or revoked was anchored. `OwnStepSeen` gives the steps of
the adapter in one form, the record that moved and how.

### The IOTA backend

`IotaBackend_proofs` proves, for any number of polls, `TypeCorrect`,
`DuplicatesFailed` (`[]DuplicatesOnlyAfterFailure`) and

- `Implementation`: `Spec => ImplementsAdapter`

from the module's assumptions. Its invariant is the adapter's own, under the
mapping, with what ties a worker to its process: a process runs only while a
worker awaits it (`CommandInv`; `run_command` kills what it gives up), a digest
was printed only by what was handed over, and a lookup's answer "final", however
old, is of a transaction that is final. Each action is a step of the adapter or
changes nothing of it; `StepOK` states both halves of every step lemma. The
adapter's theorems are instantiated under the mapping (`Proved`), so
`NextIInv` of the adapter is cited and not proved again. `AdapterKept` carries its
results over: with the commands and lookups of live mode too a session has one
live commitment, what is confirmed is final, and settled jobs stay settled.

### The benchmark's case

`RevocationCase_proofs` proves, of one case against the whole system,
`CaseTypeCorrect`, `CaseIsTruthful` (`[]CaseTruthful`), `RejectionConfirmed`
(`[]RejectedAfterConfirmed`) and `CaseRevokesOnRequest`
(`[]RevokedOnlyOnRequest`), from `CaseAssumption` and `RequestAssumption`: a case
has two sessions and posts one revocation. `CaseObserves` says `CaseSpec => Spec`:
the case adds no behaviour to the system, so every theorem about
`SessionRevocation` holds of it; `CaseEnforces` (`[]EnforcedOnlyIfConfirmed`) and
`CaseKeepsOrder` (`ImplementsLifecycle`) state two of them.

On top of the invariant of `SessionRevocation`, `CaseInv` says that what the case
has seen is so (`SeenInv`), that only `session_a` is asked about (`OnlyAAsked`),
hence that the control session is not revoked, and that the job the case times is
the one Gateway B revokes on (`JobInv`; there is one request, so one job). That
what was seen stays so is `GatewayBRemembers`: while Gateway B lives, it forgets
neither a session nor that it is revoked, whatever the monitor reads of a
restarted adapter.

### Startup

`Startup_proofs` proves `TypeCorrect` and `RestartAgreement`
(`[]RestartLeavesAgreement`) for any number of attempts and faults and any
services that crash. Without the invariant the property says nothing of the
states before: `KemDrawn` counts that Gateway B came up once before the script
reached it and once more after, and `FetchedAnew` that a Gateway A that was
stopped afterwards fetched a later key than the first. If B came up just twice,
these are the same key.

### Campaign

`Campaign_proofs` proves `TypeCorrect`, `ClaimCovers`
(`[]ClaimCoversEveryRequest`) and `LoadSpread` (`[]EvenLoad`) for any number of
domains, requests and warm-up requests. The last is arithmetic: every index is
`Domains * ((Domains - 1) * t + offset) + source` in one way (`IndexPlaced`,
`DivisionUnique`), negative ones too, and source and offset decide the pair. So a
pair comes once in every round of `Domains * (Domains - 1)` indexes
(`OncePerRound`). The indexes sent so far have no gap, because tasks start in
order (`StartedInOrder`), and in a stretch without a gap one pair is ahead of
another by at most one (`StretchIsEven`: moving each occurrence of one to the
next of the other is an injection).

### Only model-checked

The liveness properties: `SimulatedConfirms`, `JobsSettle`, `CommitmentsSettle`,
`RequestsEnd`, `RevocationTakesEffect`, `EventuallyReady`, `OutageRecovers`,
`CaseEnds`, `CampaignEnds`. Fairness and `ENABLED` are outside the prover's
reach. Every invariant, action property and refinement of a passing run is
proved. The two violated properties are counterexamples, not claims.

## Not modelled

- The primitives (KEM, KDF, signatures, MACs) and the secrecy of keys: assumed
  ideal; `formal-verification/` has Tamarin theories about them.
- Timing values, metrics and logs; time is only whether a session has expired and
  that a timeout may happen.
- The arguments of the CLI command and the search for a digest in its output:
  the output is useful or not. The Move function emits an event and keeps no
  state; whether its transaction succeeds is a choice of the chain.
- Restarts of the gateways in `SessionRevocation`, and so in `RevocationCase`: what
  is checked and proved of revocation is about sessions whose gateways live on. If
  Gateway B restarts, it has lost its sessions with their revocation marks and
  answers 404 for them; a revocation may still be requested, anchored and confirmed,
  and nothing is left to enforce it on. If Gateway A alone restarts, its sessions
  stay usable at Gateway B until they expire and can no longer be revoked through
  A, which answers 404; a revocation that was queued before still takes effect.
- Recovery from a restart of Gateway B alone, which the code does not offer: Gateway
  A keeps a stale key until it is restarted too, and no session can be
  established. `Startup` reaches these states and `OutageRecovers` excludes them;
  that they are safe is `KeyConfirmed` and `Agreement`.
  `scripts/run_multidomain_campaign.sh` (lines 42 and 90) restarts the SAC and
  Gateway B without Gateway A: its campaigns, in mode `sac`, ask for authorizations
  only and need no KEM key, but a session campaign on the same deployment needs
  Gateway A restarted first.
- Percentiles and confidence intervals (real arithmetic over finished files), the
  aggregation scripts, result files, delay proxy and container builds.
- The JSON encoding of signed objects: assumed injective, like the primitives.
- The Tamarin theories: another tool and another question.

## Plan

Done: all components but those above, three refinements, and by proof every
safety property that is checked. What could follow:

1. Invariants for the hazards in `PROJECT.json` that no property covers yet, once
   the repository promises something to state: what happens to a session that
   expires between handshake and confirmation, a revocation that failed or that
   Gateway A has no job for, what becomes of expired entries.
2. `SessionEstablishment` and `SessionRevocation` in one module, so that a session
   half established is the one that is revoked. The state space of the pair is too
   large for TLC; `SessionSetup` and `SessionLifecycle` are small enough to stand
   for the two.
3. Liveness stays with TLC.
