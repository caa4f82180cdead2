----------------------------- MODULE Startup_proofs -----------------------------
(* Theorems about Startup, for any number of attempts, of faults and any   *)
(* services that crash.                                                    *)
EXTENDS Startup, TLAPS

-----------------------------------------------------------------------------
(* The inductive invariant.                                                *)

\* What is left of the script once it has begun, and after it restarted Gateway B.
AfterB == {<<"a">>, << >>}
Begun == {<<"sac", "b", "a">>, <<"b", "a">>} \cup AfterB

\* A service that is ready has what it needs.
ReadyHasAll == \A v \in Services : state[v] = "ready" => fetched[v] = Needs[v]

\* Gateway B came up before it was ready, and before the script stopped it; when it
\* is ready again it came up twice.
KemDrawn ==
    /\ state["b"] = "ready" \/ script \in Begun => kem >= 1
    /\ script \in AfterB /\ state["b"] = "ready" => kem >= 2

\* What Gateway A has fetched since the script stopped it is not the first key.
FetchedAnew ==
    script = << >> /\ state["a"] # "down" /\ "b" \in fetched["a"] => a_kem >= 2

Inv ==
    /\ TypeOK
    /\ script \in {RestartOrder} \cup Begun
    /\ ReadyHasAll
    /\ KemDrawn
    /\ FetchedAnew

\* Stopping the next container.
LEMMA ScriptSteps ==
    ASSUME script \in {RestartOrder} \cup Begun, script # << >>
    PROVE  /\ Head(script) \in Services
           /\ Tail(script) \in Begun
           /\ Tail(script) \in Seq(Services)
           /\ Tail(script) \in AfterB /\ script \notin AfterB => Head(script) = "b"
           /\ Tail(script) = << >> => Head(script) = "a"
<1>1. CASE script = <<"ledger", "sac", "b", "a">>
  BY <1>1 DEF Begun, AfterB, Services
<1>2. CASE script = <<"sac", "b", "a">>
  BY <1>2 DEF Begun, AfterB, Services
<1>3. CASE script = <<"b", "a">>
  BY <1>3 DEF Begun, AfterB, Services
<1>4. CASE script = <<"a">>
  BY <1>4 DEF Begun, AfterB, Services
<1>5. QED
  BY <1>1, <1>2, <1>3, <1>4 DEF Begun, AfterB, RestartOrder

LEMMA InitInv == Init => Inv
<1> SUFFICES ASSUME Init
             PROVE  Inv
  OBVIOUS
<1>1. TypeOK
  BY AttemptsAssumption, FaultsAssumption DEF Init, TypeOK, NoTries, Services, RestartOrder
<1>2. RestartOrder # << >> /\ RestartOrder \notin Begun
  BY DEF RestartOrder, Begun, AfterB
<1>3. script = RestartOrder /\ \A v \in Services : state[v] = "down"
  BY DEF Init
<1>4. QED
  BY <1>1, <1>2, <1>3 DEF Inv, ReadyHasAll, KemDrawn, FetchedAnew, Services, AfterB, Begun

-----------------------------------------------------------------------------
(* The steps.                                                              *)

\* A service goes down, and nothing else that the invariant speaks of changes.
LEMMA GoesDown ==
    ASSUME Inv, NEW v \in Services, state' = [state EXCEPT ![v] = "down"],
           UNCHANGED <<fetched, tries, kem, a_kem, script>>, faults' \in 0..MaxFaults
    PROVE  Inv'
<1>1. TypeOK'
  BY DEF Inv, TypeOK
<1>2. \A u \in Services : state'[u] = "down" \/ state'[u] = state[u]
  BY DEF Inv, TypeOK
<1>3. ReadyHasAll'
  BY <1>2 DEF Inv, ReadyHasAll
<1>4. KemDrawn' /\ FetchedAnew'
  BY <1>2 DEF Inv, KemDrawn, FetchedAnew, Services
<1>5. QED
  BY <1>1, <1>3, <1>4 DEF Inv

LEMMA StartStep == ASSUME Inv, NEW v \in Services, Start(v) PROVE Inv'
<1>1. TypeOK'
  BY AttemptsAssumption DEF Inv, TypeOK, Start, NoTries
<1>2. /\ UNCHANGED <<kem, a_kem, script>>
      /\ state'[v] = "starting" /\ fetched'[v] = {}
      /\ \A u \in Services \ {v} : state'[u] = state[u] /\ fetched'[u] = fetched[u]
  BY DEF Inv, TypeOK, Start
<1>3. ReadyHasAll'
  BY <1>2 DEF Inv, ReadyHasAll
<1>4. KemDrawn' /\ FetchedAnew'
  BY <1>2 DEF Inv, KemDrawn, FetchedAnew, Services
<1>5. QED
  BY <1>1, <1>2, <1>3, <1>4 DEF Inv

LEMMA FetchStep == ASSUME Inv, NEW v \in Services, NEW p \in Services, Fetch(v, p) PROVE Inv'
<1>1. a_kem' \in 0..kem
  BY DEF Inv, TypeOK, Fetch
<1>2. TypeOK'
  BY <1>1 DEF Inv, TypeOK, Fetch
<1>3. /\ UNCHANGED <<state, kem, script>>
      /\ state[v] = "starting"
      /\ state[p] = "ready"
      /\ fetched'[v] = fetched[v] \cup {p}
      /\ \A u \in Services \ {v} : fetched'[u] = fetched[u]
      /\ a_kem' = IF v = "a" /\ p = "b" THEN kem ELSE a_kem
  BY DEF Inv, TypeOK, Fetch, Fetching
<1>4. ReadyHasAll'
  BY <1>3 DEF Inv, ReadyHasAll
<1>5. KemDrawn'
  BY <1>3 DEF Inv, KemDrawn
<1>6. FetchedAnew'
  <2>1. CASE v = "a" /\ p = "b"
    BY <1>3, <2>1 DEF Inv, KemDrawn, FetchedAnew, AfterB
  <2>2. CASE ~(v = "a" /\ p = "b")
    BY <1>3, <2>2 DEF Inv, FetchedAnew, Services
  <2>3. QED
    BY <2>1, <2>2
<1>7. QED
  BY <1>2, <1>3, <1>4, <1>5, <1>6 DEF Inv

LEMMA AttemptSteps ==
    ASSUME Inv, NEW v \in Services, NEW p \in Services, Retry(v, p) \/ GiveUp(v, p)
    PROVE  Inv'
<1>1. UNCHANGED <<fetched, kem, a_kem, script>> /\ faults' \in 0..MaxFaults
  BY FaultsAssumption DEF Inv, TypeOK, Retry, GiveUp, AttemptFails
<1>2. CASE Retry(v, p)
  <2>1. tries[v] \in [Services -> 0..(Attempts - 1)]
    BY DEF Inv, TypeOK
  <2>2. tries[v][p] + 1 \in 0..(Attempts - 1)
    BY <1>2, <2>1, AttemptsAssumption DEF Retry
  <2>3. tries' = [tries EXCEPT ![v] = [tries[v] EXCEPT ![p] = tries[v][p] + 1]]
    BY <1>2 DEF Retry
  <2>4. tries' \in [Services -> [Services -> 0..(Attempts - 1)]]
    BY <2>1, <2>2, <2>3 DEF Inv, TypeOK
  <2>5. UNCHANGED state
    BY <1>2 DEF Retry
  <2>6. QED
    BY <1>1, <2>4, <2>5 DEF Inv, TypeOK, ReadyHasAll, KemDrawn, FetchedAnew
<1>3. CASE GiveUp(v, p)
  BY <1>1, <1>3, GoesDown DEF GiveUp
<1>4. QED
  BY <1>2, <1>3

LEMMA ReadyStep == ASSUME Inv, NEW v \in Services, Ready(v) PROVE Inv'
<1>1. kem \in Nat /\ kem' \in Nat /\ kem' >= kem /\ (v = "b" => kem' = kem + 1)
  BY DEF Inv, TypeOK, Ready
<1>2. TypeOK'
  BY <1>1 DEF Inv, TypeOK, Ready
<1>3. /\ UNCHANGED <<fetched, a_kem, script>>
      /\ state[v] = "starting" /\ state'[v] = "ready" /\ fetched[v] = Needs[v]
      /\ \A u \in Services \ {v} : state'[u] = state[u]
  BY DEF Inv, TypeOK, Ready
<1>4. ReadyHasAll' /\ FetchedAnew'
  BY <1>3 DEF Inv, ReadyHasAll, FetchedAnew, Services
<1>5. KemDrawn'
  BY <1>1, <1>3 DEF Inv, KemDrawn, Services, Begun
<1>6. QED
  BY <1>2, <1>3, <1>4, <1>5 DEF Inv

LEMMA CrashStep == ASSUME Inv, NEW v \in Services, Crash(v) PROVE Inv'
<1>1. faults' \in 0..MaxFaults
  BY FaultsAssumption DEF Inv, TypeOK, Crash
<1>2. QED
  BY <1>1, GoesDown DEF Crash

LEMMA RestartStep == ASSUME Inv, RestartNext PROVE Inv'
<1>1. PICK v \in Services : v = Head(script)
  BY ScriptSteps DEF Inv, RestartNext
<1>2. /\ UNCHANGED <<fetched, tries, kem, a_kem, faults>>
      /\ script' \in Begun /\ script' \in Seq(Services)
      /\ state' = [state EXCEPT ![v] = "down"]
  BY <1>1, ScriptSteps DEF Inv, RestartNext
<1>3. /\ TypeOK'
      /\ state'[v] = "down"
      /\ \A u \in Services \ {v} : state'[u] = state[u]
  BY <1>2 DEF Inv, TypeOK
<1>4. ReadyHasAll'
  BY <1>2, <1>3 DEF Inv, ReadyHasAll
<1>5. KemDrawn'
  <2>1. kem >= 1
    BY DEF Inv, KemDrawn, RestartNext, Services
  <2>2. script' \in AfterB /\ state'["b"] = "ready" => kem >= 2
    BY <1>1, <1>2, <1>3, ScriptSteps DEF Inv, KemDrawn, RestartNext, Services
  <2>3. QED
    BY <1>2, <2>1, <2>2 DEF KemDrawn
<1>6. FetchedAnew'
  BY <1>1, <1>3, ScriptSteps DEF Inv, RestartNext, FetchedAnew
<1>7. QED
  BY <1>2, <1>3, <1>4, <1>5, <1>6 DEF Inv

-----------------------------------------------------------------------------
(* Theorems.                                                               *)

\* Inv is inductive and holds in every reachable state, however the fetches, the
\* crashes and the script interleave.
THEOREM Invariance == Spec => []Inv
<1>1. Inv /\ [Next]_vars => Inv'
  <2>1. Inv /\ UNCHANGED vars => Inv'
    BY DEF vars, Inv, TypeOK, ReadyHasAll, KemDrawn, FetchedAnew
  <2>2. QED
    BY <2>1, StartStep, FetchStep, AttemptSteps, ReadyStep, CrashStep, RestartStep DEF Next
<1>2. QED
  BY <1>1, InitInv, PTL DEF Spec

\* Every process keeps its type; above all, Gateway A never holds a key that Gateway B
\* has not drawn, and no fetch loop goes past its last attempt.
THEOREM TypeCorrect == Spec => []TypeOK
<1>1. Inv => TypeOK
  BY DEF Inv
<1>2. QED
  BY <1>1, Invariance, PTL

\* A whole restart in the order of the scripts leaves Gateway A with the key pair of the
\* Gateway B that runs, whatever crashed or was fetched in between.
THEOREM RestartAgreement == Spec => []RestartLeavesAgreement
<1>1. Inv => RestartLeavesAgreement
  <2> SUFFICES ASSUME Inv, script = << >>, AllReady, OnlyScriptRestartedB
               PROVE  a_kem = kem
    BY DEF RestartLeavesAgreement
  <2>1. "b" \in fetched["a"] /\ state["a"] # "down"
    BY DEF AllReady, Inv, ReadyHasAll, Needs, Services
  <2>2. a_kem >= 2
    BY <2>1 DEF Inv, FetchedAnew
  <2>3. kem <= 2
    BY DEF OnlyScriptRestartedB, RestartOrder
  <2>4. QED
    BY <2>2, <2>3 DEF Inv, TypeOK
<1>2. QED
  BY <1>1, Invariance, PTL
=============================================================================
