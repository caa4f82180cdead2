---------------------------- MODULE Campaign_proofs ----------------------------
(* Theorems about Campaign, for any number of requests, warm-up requests,  *)
(* domains and concurrency.                                                *)
EXTENDS Campaign, FiniteSetTheorems, TLAPS

-----------------------------------------------------------------------------
(* Counting requests.                                                      *)

LEMMA RequestsCounted == IsFiniteSet(Indexes) /\ Cardinality(Indexes) = Requests
BY FS_Interval, ArgumentAssumption DEF Indexes

\* Some of the requests and the others make all of them; if some are all in number,
\* they are all.
LEMMA PartsCounted ==
    ASSUME NEW S, S \subseteq Indexes
    PROVE  /\ Cardinality(S) \in 0..Requests
           /\ Cardinality(Indexes \ S) \in 0..Requests
           /\ Cardinality(S) + Cardinality(Indexes \ S) = Requests
           /\ Cardinality(S) = Requests => S = Indexes
<1>1. IsFiniteSet(S) /\ Cardinality(S) <= Requests /\ (Cardinality(S) = Requests => S = Indexes)
  BY RequestsCounted, FS_Subset
<1>2. Cardinality(S) \in Nat
  BY <1>1, FS_CardinalityType
<1>3. Indexes \cap S = S
  OBVIOUS
<1>4. IsFiniteSet(Indexes \ S) /\ Cardinality(Indexes \ S) = Requests - Cardinality(S)
  BY <1>3, RequestsCounted, FS_Difference
<1>5. Cardinality(Indexes \ S) \in Nat
  BY <1>4, FS_CardinalityType
<1>6. QED
  BY <1>1, <1>2, <1>4, <1>5, ArgumentAssumption

\* A passing check was counted in every request.
LEMMA AllPassed ==
    ASSUME results \in [Indexes -> Outcome \cup {Task("waiting"), Task("running")}],
           all_checks_passed, NEW i \in Indexes
    PROVE  results[i].ok /\ results[i].checks = Checks
<1>1. ASSUME NEW check \in Checks
      PROVE  i \in Successes /\ check \in results[i].checks
  <2>1. Passing(check) \subseteq Indexes /\ Cardinality(Passing(check)) = Requests
    BY DEF Passing, Successes, all_checks_passed
  <2>2. Passing(check) = Indexes
    BY <2>1, PartsCounted
  <2>3. QED
    BY <2>2 DEF Passing
<1>2. results[i].ok
  BY <1>1 DEF Checks, Successes
<1>3. results[i].checks \subseteq Checks
  <2>1. results[i] \in Outcome \cup {Task("waiting"), Task("running")}
    OBVIOUS
  <2>2. results[i] \in Outcome => results[i].checks \subseteq Checks
    <3>1. \A checks \in Success : checks \subseteq Checks
      BY DEF Success
    <3>2. results[i] \in Outcome => results[i].checks \in Success \cup {{}}
      BY DEF Outcome
    <3>3. QED
      BY <3>1, <3>2
  <2>3. Task("waiting").checks = {} /\ Task("running").checks = {}
    BY DEF Task
  <2>4. QED
    BY <2>1, <2>2, <2>3
<1>4. QED
  BY <1>1, <1>2, <1>3

-----------------------------------------------------------------------------
(* The inductive invariant.                                                *)

\* Once the summary is written every request has been answered, and none of the
\* answers it counted changes.
SummaryLast == summary.state = "written" => \A i \in Indexes : results[i].pc = "done"

\* The measured requests start in their order.
StartedInOrder ==
    \A i \in Indexes : results[i].pc # "waiting" =>
        \A k \in 0..(i - 1) : results[k].pc # "waiting"

Inv ==
    /\ TypeOK
    /\ SummaryLast
    /\ StartedInOrder
    /\ ClaimCoversEveryRequest

Summaries == [state: {"none", "written", "aborted"}, successes: 0..Requests,
              failures: 0..Requests, all_checks_passed: BOOLEAN]

LEMMA InitInv == Init => Inv
<1> SUFFICES ASSUME Init
             PROVE  Inv
  OBVIOUS
<1>1. summary \in Summaries /\ summary.state = "none"
  BY ArgumentAssumption DEF Init, NotYet, Summaries
<1>2. TypeOK
  BY <1>1, ArgumentAssumption DEF Init, TypeOK, Summaries
<1>3. StartedInOrder
  BY DEF Init, StartedInOrder, Task
<1>4. QED
  BY <1>1, <1>2, <1>3 DEF Inv, SummaryLast, ClaimCoversEveryRequest

LEMMA WarmUpStep == ASSUME Inv, WarmUp PROVE Inv'
<1>1. TypeOK /\ UNCHANGED <<mode, results>> /\ summary \in Summaries /\ summary.state = "none"
  BY DEF Inv, TypeOK, WarmUp, Summaries
<1>2. summary' \in Summaries /\ summary'.state # "written"
  <2>1. CASE UNCHANGED summary
    BY <1>1, <2>1
  <2>2. CASE summary' = [summary EXCEPT !.state = "aborted"]
    BY <1>1, <2>2 DEF Summaries
  <2>3. QED
    BY <2>1, <2>2 DEF WarmUp
<1>3. warmed' \in 0..Warmup
  BY <1>1, ArgumentAssumption DEF TypeOK, WarmUp
<1>4. TypeOK'
  BY <1>1, <1>2, <1>3 DEF TypeOK, Summaries, Outcome, Success
<1>5. QED
  BY <1>1, <1>2, <1>4 DEF Inv, SummaryLast, StartedInOrder, ClaimCoversEveryRequest

\* One request gets as far as t, and its task was not done.
LEMMA TaskMoves ==
    ASSUME Inv, NEW i \in Indexes, NEW t \in Outcome \cup {Task("running")},
           results' = [results EXCEPT ![i] = t], results[i].pc # "done",
           \A k \in 0..(i - 1) : results[k].pc # "waiting",
           UNCHANGED <<mode, warmed, summary>>
    PROVE  Inv'
<1>1. results' \in [Indexes -> Outcome \cup {Task("waiting"), Task("running")}]
  BY DEF Inv, TypeOK
<1>2. TypeOK'
  BY <1>1 DEF Inv, TypeOK, Outcome, Success
<1>3. summary.state # "written"
  BY DEF Inv, SummaryLast
<1>4. t.pc # "waiting"
  <2>1. t \in Outcome => t.pc = "done"
    BY DEF Outcome
  <2>2. Task("running").pc = "running"
    BY DEF Task
  <2>3. QED
    BY <2>1, <2>2
<1>5. \A k \in Indexes : results'[k] = IF k = i THEN t ELSE results[k]
  BY DEF Inv, TypeOK
<1>6. \A k \in Indexes : 0..(k - 1) \subseteq Indexes
  BY ArgumentAssumption, SMT DEF Indexes
<1>7. StartedInOrder'
  BY <1>4, <1>5, <1>6 DEF Inv, StartedInOrder
<1>8. QED
  BY <1>2, <1>3, <1>7 DEF Inv, SummaryLast, ClaimCoversEveryRequest

LEMMA StartStep == ASSUME Inv, NEW i \in Indexes, Start(i) PROVE Inv'
BY TaskMoves DEF Start

LEMMA FinishStep == ASSUME Inv, NEW i \in Indexes, Finish(i) PROVE Inv'
BY TaskMoves DEF Finish, Inv, StartedInOrder

LEMMA SummarizeStep == ASSUME Inv, Summarize PROVE Inv'
<1>1. Successes \subseteq Indexes
  BY DEF Successes
<1>2. PICK n, m : /\ n = Cardinality(Successes) /\ m = Cardinality(Indexes \ Successes)
                  /\ n \in 0..Requests /\ m \in 0..Requests /\ n + m = Requests
  BY <1>1, PartsCounted
<1>3. PICK claim \in BOOLEAN : claim = all_checks_passed
  BY DEF all_checks_passed
<1> DEFINE s == [state |-> "written", successes |-> n, failures |-> m,
                 all_checks_passed |-> claim]
<1>4. summary' = s /\ UNCHANGED <<mode, warmed, results>>
  BY <1>2, <1>3 DEF Summarize
<1>5. /\ s \in Summaries
      /\ s.successes = n /\ s.failures = m
      /\ s.all_checks_passed = claim
  BY <1>2 DEF Summaries
<1> HIDE DEF s
<1>6. TypeOK'
  BY <1>4, <1>5 DEF Inv, TypeOK, Summaries, Outcome, Success
<1>7. SummaryLast'
  BY <1>4 DEF Summarize, SummaryLast
<1>8. claim => \A i \in Indexes : results[i].ok /\ results[i].checks = Checks
  BY <1>3, AllPassed DEF Inv, TypeOK
<1>9. ClaimCoversEveryRequest'
  BY <1>2, <1>4, <1>5, <1>8 DEF ClaimCoversEveryRequest
<1>10. StartedInOrder'
  BY <1>4 DEF Inv, StartedInOrder
<1>11. QED
  BY <1>6, <1>7, <1>9, <1>10 DEF Inv

-----------------------------------------------------------------------------
(* Division by a positive integer.                                         *)

LEMMA Multiple ==
    ASSUME NEW n \in Nat \ {0}, NEW t \in Int, t > 0
    PROVE  n * t >= n
BY SMT

LEMMA Division ==
    ASSUME NEW n \in Nat \ {0}, NEW i \in Int
    PROVE  /\ i \div n \in Int
           /\ i % n \in 0..(n - 1)
           /\ i = n * (i \div n) + (i % n)
BY SMT

LEMMA DivisionUnique ==
    ASSUME NEW n \in Nat \ {0}, NEW t \in Int, NEW k \in 0..(n - 1)
    PROVE  (n * t + k) \div n = t /\ (n * t + k) % n = k
<1> DEFINE i == n * t + k
           q == i \div n
           r == i % n
<1>1. i \in Int
  BY SMT
<1>2. q \in Int /\ r \in 0..(n - 1) /\ i = n * q + r
  BY <1>1, Division
<1>3. n * (q - t) = k - r /\ n * (t - q) = r - k
  BY <1>2, SMT
<1>4. ~(q - t > 0) /\ ~(t - q > 0)
  BY <1>2, <1>3, Multiple, SMT
<1>5. QED
  BY <1>2, <1>3, <1>4, SMT

-----------------------------------------------------------------------------
(* The pairs of gateways, in the order in which the requests name them.    *)

Sources == 0..(Domains - 1)
Offsets == 0..(Domains - 2)

\* The pair of a source and how far behind the next gateway its peer is, and where
\* round number t comes to it.
PairAt(source, offset) == <<source, (source + (1 + offset)) % Domains>>
Index(t, offset, source) == Domains * ((Domains - 1) * t + offset) + source

LEMMA PeerIs ==
    ASSUME NEW s \in Sources, NEW o \in Offsets
    PROVE  (s + (1 + o)) % Domains = IF s + 1 + o < Domains THEN s + 1 + o ELSE s + 1 + o - Domains
<1>1. Domains \in Nat \ {0}
  BY ArgumentAssumption
<1>2. PICK m \in Int : m = s + (1 + o)
  BY SMT DEF Sources, Offsets
<1>3. CASE m < Domains
  <2>1. m \in 0..(Domains - 1) /\ Domains * 0 + m = m
    BY <1>1, <1>2, <1>3, SMT DEF Sources, Offsets
  <2>2. m % Domains = m
    BY <1>1, <2>1, DivisionUnique
  <2>3. QED
    BY <1>1, <1>2, <1>3, <2>2, SMT DEF Sources, Offsets
<1>4. CASE ~(m < Domains)
  <2>1. PICK k \in 0..(Domains - 1) : k = m - Domains
    BY <1>1, <1>2, <1>4, SMT DEF Sources, Offsets
  <2>2. Domains * 1 + k = m
    BY <1>1, <2>1, SMT
  <2>3. m % Domains = k
    BY <1>1, <2>2, DivisionUnique
  <2>4. QED
    BY <1>1, <1>2, <1>4, <2>1, <2>3, SMT DEF Sources, Offsets
<1>5. QED
  BY <1>3, <1>4

\* The pairs at the positions of a round are the pairs of gateways, each one once.
LEMMA PairsAre ==
    /\ \A s \in Sources, o \in Offsets : PairAt(s, o) \in Pairs
    /\ \A s, z \in Sources, o, x \in Offsets : PairAt(s, o) = PairAt(z, x) => s = z /\ o = x
    /\ \A p \in Pairs : \E s \in Sources, o \in Offsets : p = PairAt(s, o)
<1>1. ASSUME NEW s \in Sources, NEW o \in Offsets
      PROVE  PairAt(s, o) \in Pairs
  <2>1. (s + (1 + o)) % Domains \in Sources /\ (s + (1 + o)) % Domains # s
    BY PeerIs, ArgumentAssumption, SMT DEF Sources, Offsets
  <2>2. QED
    BY <2>1 DEF PairAt, Pairs, DomainIds, Sources
<1>2. ASSUME NEW s \in Sources, NEW z \in Sources, NEW o \in Offsets, NEW x \in Offsets,
             PairAt(s, o) = PairAt(z, x)
      PROVE  s = z /\ o = x
  <2>1. s = z /\ (s + (1 + o)) % Domains = (z + (1 + x)) % Domains
    BY <1>2 DEF PairAt
  <2>2. QED
    BY <2>1, PeerIs, ArgumentAssumption, SMT DEF Sources, Offsets
<1>3. ASSUME NEW p \in Pairs
      PROVE  \E s \in Sources, o \in Offsets : p = PairAt(s, o)
  <2>1. PICK s \in Sources, d \in Sources : p = <<s, d>> /\ s # d
    BY DEF Pairs, DomainIds, Sources
  <2> DEFINE o == IF d > s THEN d - s - 1 ELSE d - s - 1 + Domains
  <2>2. o \in Offsets
    BY <2>1, ArgumentAssumption, SMT DEF Sources, Offsets
  <2>3. (s + (1 + o)) % Domains = d
    BY <2>1, <2>2, PeerIs, ArgumentAssumption, SMT DEF Sources, Offsets
  <2>4. QED
    BY <2>1, <2>2, <2>3 DEF PairAt
<1>4. QED
  BY <1>1, <1>2, <1>3

\* Every index is at a position of a round, and names its pair; so the indexes that
\* name a pair are a whole number of rounds apart.
LEMMA IndexPlaced ==
    ASSUME NEW i \in Int
    PROVE  \E t \in Int, o \in Offsets, s \in Sources : i = Index(t, o, s)
<1> DEFINE q == i \div Domains
<1>1. q \in Int /\ i % Domains \in Sources /\ i = Domains * q + (i % Domains)
  BY Division, ArgumentAssumption DEF Sources
<1>2. Domains - 1 \in Nat \ {0}
  BY ArgumentAssumption
<1>3. /\ q \div (Domains - 1) \in Int /\ q % (Domains - 1) \in 0..(Domains - 1 - 1)
      /\ q = (Domains - 1) * (q \div (Domains - 1)) + (q % (Domains - 1))
  BY <1>1, <1>2, Division
<1>4. 0..(Domains - 1 - 1) = Offsets
  BY ArgumentAssumption, SMT DEF Offsets
<1>5. QED
  BY <1>1, <1>3, <1>4 DEF Index

LEMMA IndexNames ==
    ASSUME NEW t \in Int, NEW o \in Offsets, NEW s \in Sources
    PROVE  Index(t, o, s) \in Int /\ request_body(Index(t, o, s)) = PairAt(s, o)
<1>1. PICK q \in Int : q = (Domains - 1) * t + o
  BY ArgumentAssumption, SMT DEF Offsets
<1>2. PICK i \in Int : i = Domains * q + s
  BY ArgumentAssumption, SMT DEF Sources
<1>3. Index(t, o, s) = i
  BY <1>1, <1>2 DEF Index
<1>4. i \div Domains = q /\ i % Domains = s
  BY <1>2, DivisionUnique, ArgumentAssumption DEF Sources
<1>5. Domains - 1 \in Nat \ {0} /\ o \in 0..(Domains - 1 - 1)
  BY ArgumentAssumption, SMT DEF Offsets
<1>6. q % (Domains - 1) = o
  BY <1>1, <1>5, DivisionUnique
<1>7. QED
  BY <1>3, <1>4, <1>6 DEF request_body, PairAt

\* A pair comes up once a round: two indexes that name it are a round or more apart.
Round == Domains * (Domains - 1)

LEMMA OncePerRound ==
    ASSUME NEW i \in Int, NEW k \in Int, request_body(i) = request_body(k), i < k
    PROVE  i + Round <= k
<1>1. PICK t \in Int, o \in Offsets, s \in Sources : i = Index(t, o, s)
  BY IndexPlaced
<1>2. PICK u \in Int, x \in Offsets, z \in Sources : k = Index(u, x, z)
  BY IndexPlaced
<1>3. PairAt(s, o) = PairAt(z, x)
  BY <1>1, <1>2, IndexNames
<1>4. s = z /\ o = x
  BY <1>3, PairsAre
<1>5. k - i = Round * (u - t) /\ Round \in Nat \ {0}
  BY <1>1, <1>2, <1>4, ArgumentAssumption, SMT DEF Index, Round, Offsets, Sources
<1>6. u - t > 0
  <2>1. ASSUME ~(u - t > 0)
        PROVE  FALSE
    <3>1. u - t = 0 \/ Round * (t - u) >= Round
      BY <1>5, <2>1, Multiple, SMT
    <3>2. Round * (t - u) = i - k
      BY <1>5, SMT
    <3>3. QED
      BY <1>5, <3>1, <3>2, SMT
  <2>2. QED
    BY <2>1
<1>7. QED
  BY <1>5, <1>6, Multiple, SMT

\* Any other pair comes up less than a round later.
LEMMA WithinRound ==
    ASSUME NEW p \in Pairs, NEW q \in Pairs
    PROVE  \E d \in 0..(Round - 1) :
               \A i \in Int : request_body(i) = p => request_body(i + d) = q
<1>1. PICK o \in Offsets, s \in Sources : p = PairAt(s, o)
  BY PairsAre
<1>2. PICK x \in Offsets, z \in Sources : q = PairAt(z, x)
  BY PairsAre
<1>3. PICK d0 \in Int : d0 = Domains * (x - o) + (z - s)
  BY ArgumentAssumption, SMT DEF Offsets, Sources
<1>4. Round \in Int /\ -Round < d0 /\ d0 < Round
  <2>1. Domains * o \in 0..(Domains * (Domains - 2)) /\ Domains * x \in 0..(Domains * (Domains - 2))
    BY ArgumentAssumption, SMT DEF Offsets
  <2>2. Domains * (x - o) = Domains * x - Domains * o /\ Round = Domains * (Domains - 2) + Domains
    BY ArgumentAssumption, SMT DEF Offsets, Round
  <2>3. QED
    BY <1>3, <2>1, <2>2, ArgumentAssumption, SMT DEF Sources
<1>5. PICK c \in {0, 1} : d0 + Round * c \in 0..(Round - 1)
  BY <1>4, SMT
<1>6. ASSUME NEW i \in Int, request_body(i) = p
      PROVE  request_body(i + (d0 + Round * c)) = q
  <2>1. PICK t \in Int, y \in Offsets, w \in Sources : i = Index(t, y, w)
    BY IndexPlaced
  <2>2. y = o /\ w = s
    BY <1>1, <1>6, <2>1, IndexNames, PairsAre
  <2>3. i + (d0 + Round * c) = Index(t + c, x, z)
    BY <1>3, <2>1, <2>2, ArgumentAssumption, SMT DEF Index, Round, Offsets, Sources
  <2>4. t + c \in Int
    BY SMT
  <2>5. QED
    BY <1>2, <2>3, <2>4, IndexNames
<1>7. QED
  BY <1>5, <1>6

\* So among the indexes of a stretch, one pair comes up at most once more than another.
LEMMA StretchIsEven ==
    ASSUME NEW S \in SUBSET Int, IsFiniteSet(S), NEW top, top \notin S,
           \A i, k \in S : \A j \in i..k : j \in S,
           NEW p \in Pairs, NEW q \in Pairs
    PROVE  Cardinality({i \in S : request_body(i) = p})
             <= Cardinality({i \in S : request_body(i) = q}) + 1
<1> DEFINE P == {i \in S : request_body(i) = p}
           Q == {i \in S : request_body(i) = q}
<1>1. PICK d \in 0..(Round - 1) :
          \A i \in Int : request_body(i) = p => request_body(i + d) = q
  BY WithinRound
<1> DEFINE f == [i \in P |-> IF i + d \in S THEN i + d ELSE top]
<1>2. f \in [P -> Q \cup {top}]
  BY <1>1
<1>3. Round \in Int
  BY ArgumentAssumption, SMT DEF Round
<1>4. ASSUME NEW i \in P, NEW k \in P, i < k
      PROVE  i + d \in S /\ f[i] # f[k]
  <2>1. i \in Int /\ k \in Int /\ i \in S /\ k \in S
    OBVIOUS
  <2>2. i + Round <= k
    BY <1>4, <2>1, OncePerRound
  <2>3. i + d \in i..k
    BY <1>3, <2>1, <2>2, SMT
  <2>4. i + d \in S
    BY <2>1, <2>3
  <2>5. i + d # k + d
    BY <1>3, <1>4, <2>1, SMT
  <2>6. QED
    BY <2>4, <2>5
<1>5. \A i, k \in P : f[i] = f[k] => i = k
  <2>1. \A i, k \in P : i # k => i < k \/ k < i
    BY SMT
  <2>2. QED
    BY <1>4, <2>1
<1>6. f \in Injection(P, Q \cup {top})
  BY <1>2, <1>5 DEF Injection, IsInjective
<1>7. IsFiniteSet(P) /\ IsFiniteSet(Q)
  BY FS_Subset
<1>8. /\ IsFiniteSet(Q \cup {top})
      /\ Cardinality(Q \cup {top}) = Cardinality(Q) + 1
  BY <1>7, FS_AddElement
<1>9. QED
  BY <1>6, <1>8, FS_Injection

-----------------------------------------------------------------------------
(* The load is even.                                                       *)

LEMMA SentIsStretch ==
    ASSUME warmed \in Nat, StartedInOrder
    PROVE  /\ Sent \subseteq Int /\ IsFiniteSet(Sent) /\ Requests \notin Sent
           /\ \A i, k \in Sent : \A j \in i..k : j \in Sent
<1>1. Sent \subseteq (-warmed)..Requests
  BY ArgumentAssumption, SMT DEF Sent, Indexes
<1>2. IsFiniteSet((-warmed)..Requests)
  BY FS_Interval, ArgumentAssumption, SMT
<1>3. Sent \subseteq Int
  BY <1>1, SMT
<1>4. IsFiniteSet(Sent)
  BY <1>1, <1>2, FS_Subset
<1>5. Requests \notin Sent
  BY ArgumentAssumption, SMT DEF Sent, Indexes
<1>6. ASSUME NEW i \in Sent, NEW k \in Sent, NEW j \in i..k
      PROVE  j \in Sent
  <2>1. i \in Int /\ k \in Int /\ -warmed <= i /\ i <= j /\ j <= k /\ j \in Int /\ k < Requests
    BY <1>3, ArgumentAssumption, SMT DEF Sent, Indexes
  <2>2. CASE j < 0
    BY <2>1, <2>2, SMT DEF Sent
  <2>3. CASE j >= 0
    <3>1. k \in Indexes /\ j \in Indexes /\ results[k].pc # "waiting"
      BY <2>1, <2>3, ArgumentAssumption, SMT DEF Sent, Indexes
    <3>2. j = k \/ j \in 0..(k - 1)
      BY <2>1, <2>3, SMT
    <3>3. results[j].pc # "waiting"
      BY <3>1, <3>2 DEF StartedInOrder
    <3>4. QED
      BY <3>1, <3>3 DEF Sent
  <2>4. QED
    BY <2>1, <2>2, <2>3
<1>7. QED
  BY <1>3, <1>4, <1>5, <1>6

LEMMA LoadIsEven == Inv => EvenLoad
<1> SUFFICES ASSUME Inv
             PROVE  EvenLoad
  OBVIOUS
<1>1. warmed \in Nat /\ StartedInOrder
  BY ArgumentAssumption, SMT DEF Inv, TypeOK
<1>2. ASSUME NEW i \in Sent
      PROVE  request_body(i) \in Pairs
  <2>1. i \in Int
    BY <1>1, SentIsStretch
  <2>2. PICK t \in Int, o \in Offsets, s \in Sources : i = Index(t, o, s)
    BY <2>1, IndexPlaced
  <2>3. QED
    BY <2>2, IndexNames, PairsAre
<1>3. ASSUME NEW p \in Pairs, NEW q \in Pairs
      PROVE  Load(p[1], p[2]) <= Load(q[1], q[2]) + 1
  <2>1. p = <<p[1], p[2]>> /\ q = <<q[1], q[2]>>
    BY DEF Pairs
  <2>2. /\ {i \in Sent : request_body(i) = <<p[1], p[2]>>} = {i \in Sent : request_body(i) = p}
        /\ {i \in Sent : request_body(i) = <<q[1], q[2]>>} = {i \in Sent : request_body(i) = q}
    BY <2>1
  <2>3. QED
    BY <1>1, <2>2, SentIsStretch, StretchIsEven DEF Load
<1>4. QED
  BY <1>2, <1>3 DEF EvenLoad

-----------------------------------------------------------------------------
(* Theorems.                                                               *)

\* Inv is inductive and holds in every reachable state.
THEOREM Invariance == Spec => []Inv
<1>1. Inv /\ [Next]_vars => Inv'
  <2>1. Inv /\ UNCHANGED vars => Inv'
    BY DEF vars, Inv, TypeOK, SummaryLast, StartedInOrder, ClaimCoversEveryRequest, Outcome,
        Success
  <2>2. QED
    BY <2>1, WarmUpStep, StartStep, FinishStep, SummarizeStep DEF Next
<1>2. QED
  BY <1>1, InitInv, PTL DEF Spec

\* What a campaign counts keeps its type, up to the counters of the summary.
THEOREM TypeCorrect == Spec => []TypeOK
<1>1. Inv => TypeOK
  BY DEF Inv
<1>2. QED
  BY <1>1, Invariance, PTL

\* all_checks_passed speaks for every request of the campaign: a request that failed, or
\* passed two of its checks only, cannot hide behind the counts.
THEOREM ClaimCovers == Spec => []ClaimCoversEveryRequest
<1>1. Inv => ClaimCoversEveryRequest
  BY DEF Inv
<1>2. QED
  BY <1>1, Invariance, PTL

\* The requests of a sac campaign, its warm-up included, go round all the ordered pairs of
\* gateways: at no moment is one pair two requests ahead of another, and none of them
\* asks a gateway to talk to itself.
THEOREM LoadSpread == Spec => []EvenLoad
<1>1. Inv => EvenLoad
  BY LoadIsEven
<1>2. QED
  BY <1>1, Invariance, PTL
=============================================================================
