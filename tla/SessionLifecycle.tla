--------------------------- MODULE SessionLifecycle ---------------------------
(***************************************************************************)
(* What the testbed promises of a session, whoever keeps which part of it: *)
(* it is established, anchored on the ledger, its revocation is requested, *)
(* confirmed and enforced, one step after the other, and a step of one     *)
(* session leaves all the others alone.  Only the ledger adapter, which    *)
(* forgets everything when it restarts, sets sessions back, and it never   *)
(* sets back one that is revoked.                                          *)
(***************************************************************************)
CONSTANT Sessions

VARIABLES
    stage,    \* how far each session has come
    told,     \* sessions whose confirmed revocation only Gateway B still knows of
    expired   \* sessions whose expires_at_ns has passed

vars == <<stage, told, expired>>

Stage == {"absent", "established", "anchored", "requested", "confirmed", "revoked"}

TypeOK ==
    /\ stage \in [Sessions -> Stage]
    /\ told \subseteq Sessions
    /\ expired \subseteq Sessions

Init ==
    /\ stage = [s \in Sessions |-> "absent"]
    /\ told = {}
    /\ expired = {}

-----------------------------------------------------------------------------
Moves(s, from, to) ==
    /\ stage[s] = from
    /\ stage' = [stage EXCEPT ![s] = to]
    /\ told' = told \ {s}
    /\ UNCHANGED expired

Establish(s) == Moves(s, "absent", "established")

\* The ledger confirms the session's commitment.
Anchor(s) == Moves(s, "established", "anchored")

\* A revocation that quotes the anchor is accepted.
Request(s) == Moves(s, "anchored", "requested")

\* No revocation of the session is under way any more, and none was confirmed.
RequestFails(s) == Moves(s, "requested", "anchored")

Confirm(s) == Moves(s, "requested", "confirmed")

\* Gateway B stops authorizing actions of the session.
Enforce(s) == Moves(s, "confirmed", "revoked")

\* A confirmed revocation is given up only if the ledger's record of it is gone.
Abandon(s) == s \in told /\ Moves(s, "confirmed", "established")

Expire(s) ==
    /\ stage[s] # "absent"
    /\ expired' = expired \cup {s}
    /\ UNCHANGED <<stage, told>>

\* The adapter restarts.
Forget ==
    /\ told' \in SUBSET {s \in Sessions : stage[s] = "confirmed"}
    /\ stage' = [s \in Sessions |->
            IF stage[s] \in {"absent", "revoked"} \/ s \in told'
            THEN stage[s] ELSE "established"]
    /\ UNCHANGED expired

Next ==
    \/ \E s \in Sessions :
        \/ Establish(s) \/ Anchor(s) \/ Request(s) \/ RequestFails(s)
        \/ Confirm(s) \/ Enforce(s) \/ Abandon(s) \/ Expire(s)
    \/ Forget

Spec == Init /\ [][Next]_vars
=============================================================================
