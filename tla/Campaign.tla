------------------------------ MODULE Campaign ------------------------------
(***************************************************************************)
(* A measurement campaign of the load generator (run and run_revocation in *)
(* src/services/loadgen/app/benchmark.py): warm-up requests one after the  *)
(* other, then all the measured ones as tasks that share a semaphore, then *)
(* a summary of what they reported.  A case of a revocation campaign is    *)
(* the subject of RevocationCase and one outcome here.                     *)
(***************************************************************************)
EXTENDS Integers, FiniteSets

CONSTANTS
    Requests,     \* --requests
    Concurrency,  \* --concurrency
    Warmup,       \* --warmup
    Domains       \* --domains of a campaign in mode "sac"

\* parse_args
ASSUME ArgumentAssumption ==
    /\ Requests \in Nat \ {0}
    /\ Concurrency \in Nat \ {0}
    /\ Warmup \in Nat
    /\ Domains \in Nat \ {0, 1}

VARIABLES
    mode,     \* --mode: "sac" with domains, or "revocation"; "e2e" and "sac"
              \* without domains differ from "sac" in the body of a request only
    warmed,   \* warm-up requests answered
    results,  \* measured request -> its task, and what it reported
    summary   \* the summary, once written; "aborted" by a failed warm-up

vars == <<mode, warmed, results, summary>>

-----------------------------------------------------------------------------
Indexes == 0..(Requests - 1)

\* A failed request, or one that succeeded with the checks it passed.  In a
\* revocation case correctly_enforced repeats what wait_for_rejection checked;
\* the other two are read off the answers of two more calls, which do not raise
\* on a refusal: either may be missing, or both.
Checks == {"correctly_enforced", "control_preserved", "reuse_rejected"}
Success ==
    IF mode = "revocation"
    THEN {passed \in SUBSET Checks : "correctly_enforced" \in passed}
    ELSE {{}}
Outcome == [pc: {"done"}, ok: {TRUE}, checks: Success]
           \cup [pc: {"done"}, ok: {FALSE}, checks: {{}}]
Task(pc) == [pc |-> pc, ok |-> FALSE, checks |-> {}]
NotYet == [state |-> "none", successes |-> 0, failures |-> 0, all_checks_passed |-> FALSE]

\* request_body: who asks the SAC for a session with whom, by domain.  The index
\* of a warm-up request is negative.  Mutant: the offset takes one value too many.
request_body_self(index) ==
    LET source == index % Domains
        offset == 1 + ((index \div Domains) % Domains)
    IN  <<source, (source + offset) % Domains>>

request_body(index) ==
    LET source == index % Domains
        offset == 1 + ((index \div Domains) % (Domains - 1))
    IN  <<source, (source + offset) % Domains>>

TypeOK ==
    /\ mode \in {"sac", "revocation"}
    /\ warmed \in 0..Warmup
    /\ results \in [Indexes -> Outcome \cup {Task("waiting"), Task("running")}]
    /\ summary \in [state: {"none", "written", "aborted"}, successes: 0..Requests,
                    failures: 0..Requests, all_checks_passed: BOOLEAN]

Init ==
    /\ mode \in {"sac", "revocation"}
    /\ warmed = 0
    /\ results = [i \in Indexes |-> Task("waiting")]
    /\ summary = NotYet

-----------------------------------------------------------------------------
\* Mutant: range(args.warmup + 1).
WarmUpOnceMore ==
    /\ summary.state = "none"
    /\ mode # "revocation"
    /\ warmed <= Warmup
    /\ warmed' = warmed + 1
    /\ UNCHANGED <<mode, results, summary>>

\* A warm-up request that fails ends the campaign.
WarmUp ==
    /\ summary.state = "none"
    /\ mode # "revocation"
    /\ warmed < Warmup
    /\ \/ warmed' = warmed + 1 /\ UNCHANGED summary
       \/ summary' = [summary EXCEPT !.state = "aborted"] /\ UNCHANGED warmed
    /\ UNCHANGED <<mode, results>>

\* Mutant: a failed request keeps its place in the semaphore.
StartLeaking(i) ==
    /\ summary.state = "none"
    /\ mode = "revocation" \/ warmed = Warmup
    /\ results[i].pc = "waiting"
    /\ \A k \in 0..(i - 1) : results[k].pc # "waiting"
    /\ Cardinality({k \in Indexes : results[k].pc # "waiting" /\ ~results[k].ok})
            < Concurrency
    /\ results' = [results EXCEPT ![i] = Task("running")]
    /\ UNCHANGED <<mode, warmed, summary>>

\* async with semaphore: its waiters are served in the order they came, which is
\* the order in which gather created the tasks.
Start(i) ==
    /\ summary.state = "none"
    /\ mode = "revocation" \/ warmed = Warmup
    /\ results[i].pc = "waiting"
    /\ \A k \in 0..(i - 1) : results[k].pc # "waiting"
    /\ Cardinality({k \in Indexes : results[k].pc = "running"}) < Concurrency
    /\ results' = [results EXCEPT ![i] = Task("running")]
    /\ UNCHANGED <<mode, warmed, summary>>

\* issue_request or issue_revocation_case returns; it never raises.
Finish(i) ==
    /\ results[i].pc = "running"
    /\ \E outcome \in Outcome : results' = [results EXCEPT ![i] = outcome]
    /\ UNCHANGED <<mode, warmed, summary>>

Successes == {i \in Indexes : results[i].ok}
Passing(check) == {i \in Successes : check \in results[i].checks}

\* Mutant: the checks are counted against the successes.
all_checks_passed_of_successes ==
    \A check \in Checks : Cardinality(Passing(check)) = Cardinality(Successes)

\* Reported by a revocation campaign only.
all_checks_passed ==
    /\ Cardinality(Indexes \ Successes) = 0
    /\ \A check \in Checks : Cardinality(Passing(check)) = Requests

Summarize ==
    /\ summary.state = "none"
    /\ \A i \in Indexes : results[i].pc = "done"
    /\ summary' = [state |-> "written",
                   successes |-> Cardinality(Successes),
                   failures |-> Cardinality(Indexes \ Successes),
                   all_checks_passed |-> all_checks_passed]
    /\ UNCHANGED <<mode, warmed, results>>

Next ==
    \/ WarmUp
    \/ \E i \in Indexes : Start(i) \/ Finish(i)
    \/ Summarize

\* Every request ends: see RevocationCase!CaseEnds, and the timeout of issue_request.
Fairness ==
    /\ WF_vars(WarmUp)
    /\ WF_vars(Summarize)
    /\ \A i \in Indexes : WF_vars(Start(i)) /\ WF_vars(Finish(i))

Spec == Init /\ [][Next]_vars
FairSpec == Spec /\ Fairness

-----------------------------------------------------------------------------
(* Properties.                                                             *)

\* The indexes of the requests sent so far, and how many named each pair.
Sent == (-warmed)..-1 \cup {i \in Indexes : results[i].pc # "waiting"}
Load(source, destination) ==
    Cardinality({i \in Sent : request_body(i) = <<source, destination>>})
DomainIds == 0..(Domains - 1)
Pairs == {pair \in DomainIds \X DomainIds : pair[1] # pair[2]}

\* The load is spread evenly over the domains: at every moment no request named
\* a gateway as its own peer, and no ordered pair of gateways has had two
\* requests more than another, warm-up and its negative indexes included.
EvenLoad ==
    mode = "sac" =>
        /\ \A i \in Sent : request_body(i) \in Pairs
        /\ \A p, q \in Pairs : Load(p[1], p[2]) <= Load(q[1], q[2]) + 1

\* A campaign that claims all its checks passed lost no request and saw every
\* check pass in every one of its cases: successes do not hide failures.
ClaimCoversEveryRequest ==
    summary.state = "written" =>
        /\ summary.successes + summary.failures = Requests
        /\ summary.all_checks_passed =>
                \A i \in Indexes : results[i].ok /\ results[i].checks = Checks

\* A campaign ends, with a summary or with its warm-up, also when every request
\* it sends fails: a failed request gives its place in the semaphore back.
CampaignEnds == <>(summary.state # "none")
=============================================================================
