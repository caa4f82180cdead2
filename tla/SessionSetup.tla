----------------------------- MODULE SessionSetup -----------------------------
(***************************************************************************)
(* What POST /sessions promises of the two halves of a session, whatever   *)
(* is lost, late or restarted on the way: Gateway B gains its half first,  *)
(* Gateway A gains its own on B's word and posts the commitment in the     *)
(* same step, each does so at most once, and a half that is gone stays     *)
(* gone.                                                                   *)
(***************************************************************************)
CONSTANT Sessions

VARIABLES
    atB,        \* Gateway B's half of each session
    atA,        \* Gateway A's half
    commitment  \* where the session's commitment is

vars == <<atB, atA, commitment>>

\* A half may still come, is held, or is over; B's word that it accepted the
\* session may outlive its half.
AtB == {"open", "held", "vouched", "over"}
AtA == {"open", "held", "over"}
AtLedger == {"none", "posted", "queued"}

TypeOK ==
    /\ atB \in [Sessions -> AtB]
    /\ atA \in [Sessions -> AtA]
    /\ commitment \in [Sessions -> AtLedger]

Init ==
    /\ atB = [s \in Sessions |-> "open"]
    /\ atA = [s \in Sessions |-> "open"]
    /\ commitment = [s \in Sessions |-> "none"]

-----------------------------------------------------------------------------
\* Gateway B accepts TagA.
Accept(s) ==
    /\ atB[s] = "open" /\ atA[s] # "held"
    /\ atB' = [atB EXCEPT ![s] = "held"]
    /\ UNCHANGED <<atA, commitment>>

\* Gateway A takes B's word and posts the commitment; the word is used up.
Hold(s) ==
    /\ atA[s] = "open" /\ atB[s] \in {"held", "vouched"}
    /\ commitment[s] = "none"
    /\ atA' = [atA EXCEPT ![s] = "held"]
    /\ commitment' = [commitment EXCEPT ![s] = "posted"]
    /\ \/ atB[s] = "held" /\ UNCHANGED atB
       \/ atB' = [atB EXCEPT ![s] = "over"]

\* Nothing can make Gateway B accept the session any more.
GiveUpAtB(s) ==
    /\ atB[s] = "open"
    /\ atB' = [atB EXCEPT ![s] = "over"]
    /\ UNCHANGED <<atA, commitment>>

\* Gateway A answers the client with an error.
GiveUpAtA(s) ==
    /\ atA[s] = "open"
    /\ atA' = [atA EXCEPT ![s] = "over"]
    /\ UNCHANGED <<atB, commitment>>

Queue(s) ==
    /\ commitment[s] = "posted"
    /\ commitment' = [commitment EXCEPT ![s] = "queued"]
    /\ UNCHANGED <<atB, atA>>

\* The commitment is lost, or what tells that it is queued.
Lose(s) ==
    /\ commitment[s] # "none"
    /\ commitment' = [commitment EXCEPT ![s] = "none"]
    /\ UNCHANGED <<atB, atA>>

\* A restart ends what its gateway holds; a session whose request is not made
\* or not provisioned yet may still come.
RestartA ==
    /\ atA' \in [Sessions -> {"open", "over"}]
    /\ \A s \in Sessions : atA'[s] = "open" => atA[s] = "open"
    /\ atB' = [s \in Sessions |-> IF atB[s] = "vouched" THEN "over" ELSE atB[s]]
    /\ commitment' = [s \in Sessions |->
            IF commitment[s] = "queued" THEN "none" ELSE commitment[s]]

RestartB ==
    /\ atB' \in [Sessions -> {"open", "vouched", "over"}]
    /\ \A s \in Sessions :
           /\ atB'[s] = "open" => atB[s] = "open"
           /\ atB'[s] = "vouched" => atB[s] \in {"held", "vouched"}
    /\ UNCHANGED <<atA, commitment>>

Next ==
    \/ \E s \in Sessions : Accept(s) \/ Hold(s) \/ GiveUpAtB(s) \/ GiveUpAtA(s)
                           \/ Queue(s) \/ Lose(s)
    \/ RestartA
    \/ RestartB

Spec == Init /\ [][Next]_vars
=============================================================================
