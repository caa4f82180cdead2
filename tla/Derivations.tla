----------------------------- MODULE Derivations -----------------------------
(***************************************************************************)
(* How the services derive keys, tags and commitments from several inputs  *)
(* (src/shared/splittrust/crypto.py).  SessionEstablishment takes two      *)
(* derived values for equal only if their inputs are: this module checks   *)
(* that what is handed to the hash function has that property.             *)
(*                                                                         *)
(* A byte string is a sequence of numbers, and a length is one number.     *)
(* SHA-256, HMAC and HKDF are injective.                                   *)
(***************************************************************************)
EXTENDS Naturals, SequencesExt

CONSTANTS
    Fixed,      \* inputs of a fixed length: secrets, digests, nonces, uuid4 identifiers
    Salts,      \* the values of s_sac, which is random
    Text,       \* inputs of any length: DIDs, decimal numbers, ledger identifiers
    Epoch,      \* the values of LEDGER_EPOCH_DIGEST_B64, decoded
    Keys,       \* session keys, the keys of the HMAC
    MaxDerived  \* bound on the values derived in a behaviour

Bytes == Seq(Nat)

ASSUME InputsAssumption == Fixed \cup Salts \cup Text \cup Epoch \subseteq Bytes

\* No s_sac, which is random, is the digest of the ledger epoch.
ASSUME EpochAssumption == Salts \cap Epoch = {}

VARIABLE derived  \* the derivations made so far, by any service for any session

-----------------------------------------------------------------------------
\* A reason may be empty.
Reason == Text \cup {<< >>}

DOMAIN_ROOT == <<2, 2>>
CONFIRMATION_INFO == <<0, 1>>
REVOCATION_TAG == <<0, 2>>
Direction == {<<1, 1>>, <<2, 2>>}  \* dirA, dirB

\* The derivations of each kind: the function applied to the frame of the parts.
Derivation(kind, functions, parts) ==
    [kind: {kind}, function: functions, parts: parts]

sha256 == {<<"sha256">>}
hkdf == {<<"hkdf">>}
hmac == {"hmac"} \X Keys

derive_device_pseudonym ==
    Derivation("device pseudonym", sha256, Fixed \X Fixed \X Text \X Fixed)
derive_ledger_freshness ==
    Derivation("ledger freshness", sha256, Fixed \X Epoch)
derive_salt_commitment ==
    Derivation("salt commitment", sha256, Fixed \X Salts)
derive_session_key ==
    Derivation("session key", hkdf,
        {DOMAIN_ROOT} \X Fixed \X Salts \X Fixed \X Fixed
        \X Fixed \X Text \X Text \X Fixed)
confirmation_tag ==
    Derivation("confirmation tag", hmac,
        {CONFIRMATION_INFO} \X Fixed \X Fixed \X Fixed \X Fixed \X Fixed \X Direction)
derive_session_commitment ==
    Derivation("session commitment", sha256, Fixed \X Text \X Text \X Fixed \X Fixed)
derive_revocation_commitment ==
    Derivation("revocation commitment", sha256,
        {REVOCATION_TAG} \X Fixed \X Fixed \X Text \X Fixed \X Reason \X Text)

AllDerivations ==
    derive_device_pseudonym \cup derive_ledger_freshness \cup derive_salt_commitment
    \cup derive_session_key \cup confirmation_tag \cup derive_session_commitment
    \cup derive_revocation_commitment

\* Mutant: the parts are only joined.
frame_unprefixed(parts) == FlattenSeq(parts)

\* Each part after its length, which is one byte here and four in the code.
frame(parts) == FlattenSeq([i \in DOMAIN parts |-> <<Len(parts[i])>> \o parts[i]])

\* What a derivation computes.
Value(d) == <<d.function, frame(d.parts)>>

-----------------------------------------------------------------------------
Init == derived = {}

\* A service derives a value.
Derive(d) ==
    /\ Cardinality(derived) < MaxDerived
    /\ derived' = derived \cup {d}

Next == \E d \in AllDerivations : Derive(d)

Spec == Init /\ [][Next]_derived

-----------------------------------------------------------------------------
(* Properties.                                                             *)

\* Two derived values are equal only if they are of the same kind and all their
\* inputs are equal: no input can be continued by its neighbour (two DIDs, a
\* reason and a time), and no value of one kind passes for one of another.
ValuesBindInputs == \A d, e \in derived : Value(d) = Value(e) => d = e
=============================================================================
