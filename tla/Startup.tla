------------------------------- MODULE Startup -------------------------------
(***************************************************************************)
(* How the four services come up.  In its lifespan a service fetches what  *)
(* it caches for life from the services it needs, retrying each fetch a    *)
(* number of times; it answers requests only when it has everything, and   *)
(* exits when a fetch runs out of attempts.  Docker restarts whatever      *)
(* exits.  The ledger epoch and the SAC's key come from the environment    *)
(* and survive restarts; Gateway B draws a new KEM key pair whenever it    *)
(* comes up, and Gateway A keeps the one it fetched.                       *)
(***************************************************************************)
EXTENDS Naturals, Sequences

CONSTANTS
    Attempts,   \* range(60) of the fetch loops; bound
    Crashable,  \* services that crash or are stopped
    MaxFaults   \* bound on crashes and on fetches that fail for no reason

Services == {"ledger", "sac", "b", "a"}

ASSUME AttemptsAssumption == Attempts \in Nat \ {0}
ASSUME FaultsAssumption == MaxFaults \in Nat
ASSUME CrashableAssumption == Crashable \subseteq Services

VARIABLES
    state,    \* service -> its process
    fetched,  \* service -> services whose values it has fetched since it started
    tries,    \* service -> failed attempts of each of its fetches
    kem,      \* generation of Gateway B's KEM key pair, 0: none yet
    a_kem,    \* generation of the KEM key Gateway A has fetched
    script,   \* services an operator's script has yet to restart
    faults    \* crashes and unexplained failures so far

vars == <<state, fetched, tries, kem, a_kem, script, faults>>

TypeOK ==
    /\ state \in [Services -> {"down", "starting", "ready"}]
    /\ fetched \in [Services -> SUBSET Services]
    /\ tries \in [Services -> [Services -> 0..(Attempts - 1)]]
    /\ kem \in Nat
    /\ a_kem \in 0..kem
    /\ script \in Seq(Services)
    /\ faults \in 0..MaxFaults

\* Mutants: Gateway A is restarted before Gateway B; the SAC fetches Gateway B's
\* key while Gateway B waits for the SAC's.
RestartOrderAFirst == <<"ledger", "sac", "a", "b">>

NeedsEachOther ==
    [ledger |-> {}, sac |-> {"ledger", "b"}, b |-> {"sac", "ledger"},
     a |-> {"sac", "ledger", "b"}]

\* docker compose restart ledger-adapter sac gateway-b gateway-a
RestartOrder == <<"ledger", "sac", "b", "a">>

Needs ==
    [ledger |-> {}, sac |-> {"ledger"}, b |-> {"sac", "ledger"},
     a |-> {"sac", "ledger", "b"}]

NoTries == [p \in Services |-> 0]

Init ==
    /\ state = [v \in Services |-> "down"]
    /\ fetched = [v \in Services |-> {}]
    /\ tries = [v \in Services |-> NoTries]
    /\ kem = 0
    /\ a_kem = 0
    /\ script = RestartOrder
    /\ faults = 0

-----------------------------------------------------------------------------
(* A service's lifespan.                                                   *)

Start(v) ==
    /\ state[v] = "down"
    /\ state' = [state EXCEPT ![v] = "starting"]
    /\ fetched' = [fetched EXCEPT ![v] = {}]
    /\ tries' = [tries EXCEPT ![v] = NoTries]
    /\ UNCHANGED <<kem, a_kem, script, faults>>

Fetching(v, p) == state[v] = "starting" /\ p \in Needs[v] \ fetched[v]

\* The peer serves the value it has at this moment.
Fetch(v, p) ==
    /\ Fetching(v, p)
    /\ state[p] = "ready"
    /\ fetched' = [fetched EXCEPT ![v] = @ \cup {p}]
    /\ a_kem' = IF v = "a" /\ p = "b" THEN kem ELSE a_kem
    /\ UNCHANGED <<state, tries, kem, script, faults>>

\* An attempt fails because the peer is not up, or without a reason.
AttemptFails(v, p) ==
    /\ Fetching(v, p)
    /\ \/ state[p] # "ready" /\ UNCHANGED faults
       \/ state[p] = "ready" /\ faults < MaxFaults /\ faults' = faults + 1
    /\ UNCHANGED <<fetched, kem, a_kem, script>>

\* Mutant: one attempt too many.
RetryPastTheLast(v, p) ==
    /\ AttemptFails(v, p)
    /\ tries[v][p] < Attempts
    /\ tries' = [tries EXCEPT ![v][p] = @ + 1]
    /\ UNCHANGED state

Retry(v, p) ==
    /\ AttemptFails(v, p)
    /\ tries[v][p] + 1 < Attempts
    /\ tries' = [tries EXCEPT ![v][p] = @ + 1]
    /\ UNCHANGED state

\* Mutant: nobody starts the container again.
GiveUpForGood(v, p) ==
    /\ AttemptFails(v, p)
    /\ tries[v][p] + 1 = Attempts
    /\ state' = [state EXCEPT ![v] = "exited"]
    /\ UNCHANGED tries

\* The RuntimeError ends the lifespan and with it the process.
GiveUp(v, p) ==
    /\ AttemptFails(v, p)
    /\ tries[v][p] + 1 = Attempts
    /\ state' = [state EXCEPT ![v] = "down"]
    /\ UNCHANGED tries

Ready(v) ==
    /\ state[v] = "starting"
    /\ fetched[v] = Needs[v]
    /\ state' = [state EXCEPT ![v] = "ready"]
    /\ kem' = IF v = "b" THEN kem + 1 ELSE kem
    /\ UNCHANGED <<fetched, tries, a_kem, script, faults>>

-----------------------------------------------------------------------------
(* What happens to a container.                                            *)

Crash(v) ==
    /\ v \in Crashable
    /\ state[v] # "down"
    /\ faults < MaxFaults
    /\ faults' = faults + 1
    /\ state' = [state EXCEPT ![v] = "down"]
    /\ UNCHANGED <<fetched, tries, kem, a_kem, script>>

\* A trial of run_e2e_repeated.sh: with everything up, the containers are
\* stopped and started one after the other.
RestartNext ==
    /\ script # << >>
    /\ script = RestartOrder => \A v \in Services : state[v] = "ready"
    /\ state' = [state EXCEPT ![Head(script)] = "down"]
    /\ script' = Tail(script)
    /\ UNCHANGED <<fetched, tries, kem, a_kem, faults>>

Next ==
    \/ \E v \in Services : Start(v) \/ Ready(v) \/ Crash(v)
    \/ \E v, p \in Services : Fetch(v, p) \/ Retry(v, p) \/ GiveUp(v, p)
    \/ RestartNext

Spec == Init /\ [][Next]_vars

\* restart: unless-stopped starts what is down; a coroutine in its lifespan goes
\* on, and a fetch from a service that stays up is answered but for MaxFaults.
Fairness ==
    \A v \in Services :
        /\ WF_vars(Start(v))
        /\ WF_vars(Ready(v))
        /\ \A p \in Services : WF_vars(Fetch(v, p))

FairSpec == Spec /\ Fairness

-----------------------------------------------------------------------------
(* Properties.                                                             *)

AllReady == \A v \in Services : state[v] = "ready"

\* Gateway A encapsulates to the key pair Gateway B holds.
SessionsPossible == AllReady /\ a_kem = kem

\* Gateway B has come up once, and once more for the script if it has been run.
OnlyScriptRestartedB == kem <= IF script = RestartOrder THEN 1 ELSE 2

\* When a whole restart in the order of the scripts is over and every service is
\* ready again, Gateway A has Gateway B's new key, although A may have been
\* fetching from the process of B that was stopped (run_revocation_repeated.sh:
\* A must fetch the new public key).
RestartLeavesAgreement ==
    script = << >> /\ AllReady /\ OnlyScriptRestartedB => a_kem = kem

\* The services wait for each other, give up and start again, and still all of
\* them come up for good after any crashes and failed fetches.
EventuallyReady == <>[]AllReady

\* run_sac_outage_recovery.sh: new sessions are possible again after an outage
\* of the SAC; also of the ledger adapter and of Gateway A, and without any other
\* service being restarted.  Not of Gateway B, which draws a new key; and a script
\* that stops half-way may leave Gateway A with the old one.
OutageRecovers ==
    <>[](\/ SessionsPossible
         \/ ~OnlyScriptRestartedB
         \/ script \notin {<< >>, RestartOrder})
=============================================================================
