------------------------- MODULE CloakworkProperties -------------------------
(***************************************************************************)
(* What makes the contracts correct together: invariants, properties of    *)
(* steps, the abstract specification they implement, and the statements of *)
(* the repository's documentation that the code does not keep.             *)
(***************************************************************************)
EXTENDS Cloakwork, Circuit

CONSTANT Witnesses  \* the private witnesses from which callers can prove

(* The signals that submitted public inputs stand for. *)
SignalsOf(pi) ==
  [domain_commitment |-> FieldOf(pi.domain_commitment),
   record_commitment |-> FieldOf(pi.record_commitment),
   owner_commitment |-> FieldOf(pi.owner_commitment),
   nullifier |-> FieldOf(pi.nullifier),
   not_before |-> pi.not_before, not_after |-> pi.not_after,
   dnskey_root_hash |-> FieldOf(pi.dnskey_root_hash),
   verifier_version |-> pi.verifier_version]

(* The proof system is sound: who has a well-formed proof of some public   *)
(* signals has a witness of them.                                          *)
ASSUME ProofSoundness ==
  \A proof \in Proofs :
    /\ proof.form \in {"ok", "truncated", "off_curve"}
    /\ \A pi \in Submissions :
         proof.form = "ok" /\ proof.statement = PublicSignals(SignalsOf(pi))
           => \E w \in Witnesses : CircuitAccepts(w, SignalsOf(pi))

Elements(seq) == {seq[i] : i \in DOMAIN seq}

------------------------------------------------------------------------------
(* Every variable has the type of the storage entry or host value it is. *)
HostTypeOK ==
  /\ sequence \in Nat
  /\ timestamp \in U64
  /\ live_until \in [DOMAIN live_until -> Int]
  /\ signer \in Accounts \cup {NoAddress}

VerifierTypeOK ==
  /\ verifier_initialized \in BOOLEAN
  /\ verifier_admin \in Accounts \cup {NoAddress}
  /\ DOMAIN verifying_keys \subseteq Versions
  /\ verifying_keys \in [DOMAIN verifying_keys -> VerifyingKeys]

RegistryTypeOK ==
  /\ registry_initialized \in BOOLEAN
  /\ registry_admin \in Accounts \cup {NoAddress}
  /\ verifier_contract \in VerifierAddresses \cup {NoAddress}
  /\ DOMAIN credentials \subseteq Nullifiers
  /\ credentials \in [DOMAIN credentials -> DomainCredential]
  /\ nullifier_used \subseteq Nullifiers
  /\ owner_credentials \in [Accounts -> Seq(Nullifiers)]

ActionExecuted ==
  [owner : Accounts, commitment : Commitments, nullifier : Nullifiers, at : U64]

GatedTypeOK ==
  /\ gated_initialized \in BOOLEAN
  /\ gated_registry \in RegistryAddresses \cup {NoAddress}
  /\ events \in Seq(ActionExecuted)

TypeOK == HostTypeOK /\ VerifierTypeOK /\ RegistryTypeOK /\ GatedTypeOK

(***************************************************************************)
(* The registry keeps three records of an issuance, and they agree: a      *)
(* nullifier is used exactly when a credential is stored under it, and an  *)
(* owner's index lists exactly that owner's credentials, each once.        *)
(***************************************************************************)
NullifiersMatchCredentials ==
  /\ nullifier_used = DOMAIN credentials
  /\ \A n \in DOMAIN credentials : credentials[n].nullifier = n

IndexMatchesCredentials ==
  \A a \in Accounts :
    /\ Elements(owner_credentials[a]) = {n \in DOMAIN credentials : credentials[n].owner = a}
    /\ \A i, j \in DOMAIN owner_credentials[a] :
         owner_credentials[a][i] = owner_credentials[a][j] => i = j

IndexIsExact == NullifiersMatchCredentials /\ IndexMatchesCredentials

(***************************************************************************)
(* However often it is renewed, a credential never outlives the present by *)
(* more than the maximum lifetime, and never expired before its issuance.  *)
(***************************************************************************)
ExpiryIsBounded ==
  \A n \in DOMAIN credentials :
    /\ credentials[n].issued_at <= timestamp
    /\ credentials[n].issued_at <= credentials[n].expires_at
    /\ credentials[n].expires_at <= timestamp + MAX_CREDENTIAL_TTL_SECS

(***************************************************************************)
(* Every stored credential was proved: some witness satisfies the circuit  *)
(* with the credential's commitment, nullifier and version, in a validity  *)
(* window that was open when it was issued.  So commitment and nullifier   *)
(* stand for hashes of one domain, whatever public inputs were submitted   *)
(* and however they were encoded.                                          *)
(***************************************************************************)
CredentialsAreProved ==
  \A n \in DOMAIN credentials : \E w \in Witnesses :
    LET c == credentials[n] IN
    /\ FieldOf(c.commitment) = Poseidon(w.domain_bytes_hash, w.nonce)
    /\ FieldOf(c.nullifier) = Poseidon(w.domain_bytes_hash, w.secret)
    /\ w.rrsig_not_before <= c.issued_at /\ c.issued_at <= w.rrsig_not_after
    /\ c.verifier_version \in DOMAIN verifying_keys \ {0}

(***************************************************************************)
(* An honest prover is never turned away: while a proof's window is open,  *)
(* its nullifier is fresh and the key of its circuit is registered, the    *)
(* registry issues.  This needs the registry's input vector to have the    *)
(* circuit's order and encoding, and the two contracts to read the same    *)
(* window from it.                                                         *)
(***************************************************************************)
HonestProofsAreAccepted ==
  \A pi \in Submissions :
    ( /\ \E w \in Witnesses : CircuitAccepts(w, SignalsOf(pi))
      /\ pi.not_before <= timestamp /\ timestamp <= pi.not_after
      /\ pi.nullifier \notin nullifier_used
      /\ verifier_contract = Verifier
      /\ pi.verifier_version \in DOMAIN verifying_keys
      /\ verifying_keys[pi.verifier_version].ic_points = 9 )
    => VerifyAndIssueResult(pi, [form |-> "ok", statement |-> PublicSignals(SignalsOf(pi)),
                                 circuit |-> verifying_keys[pi.verifier_version].circuit]) = "Ok"

------------------------------------------------------------------------------
(***************************************************************************)
(* A stored credential only ages: nothing but its expiry and its status    *)
(* ever changes, and once revoked nothing does.                            *)
(***************************************************************************)
Identity(c) == [owner |-> c.owner, commitment |-> c.commitment, nullifier |-> c.nullifier,
                verifier_version |-> c.verifier_version, issued_at |-> c.issued_at]

CredentialAges ==
  \A n \in DOMAIN credentials :
    /\ n \in DOMAIN credentials'
    /\ Identity(credentials'[n]) = Identity(credentials[n])
    /\ credentials[n].status = "Revoked" => credentials'[n] = credentials[n]

CredentialsOnlyAge == [][CredentialAges]_vars

(***************************************************************************)
(* The contracts are configured once: after a contract's initialize, no    *)
(* call by anyone changes its admin or the contract it calls.              *)
(***************************************************************************)
ConfigurationKept ==
  /\ verifier_initialized => UNCHANGED <<verifier_initialized, verifier_admin>>
  /\ registry_initialized => UNCHANGED registryConfig
  /\ gated_initialized => UNCHANGED <<gated_initialized, gated_registry>>

ConfigurationIsFinal == [][ConfigurationKept]_vars

(***************************************************************************)
(* A credential that a call writes, or an action relies on, stays live for *)
(* more than TTL_THRESHOLD ledgers afterwards, archived before or not.     *)
(***************************************************************************)
CredentialRefreshed ==
  \A n \in DOMAIN credentials' :
    ( \/ n \notin DOMAIN credentials
      \/ n \in DOMAIN credentials /\ credentials'[n] # credentials[n]
      \/ events' # events /\ events'[Len(events')].nullifier = n )
    => live_until'[CredentialKey(n)] > sequence + TTL_THRESHOLD

UseKeepsCredentialsLive == [][CredentialRefreshed]_vars

(***************************************************************************)
(* Whatever entry a call writes, in any of the three contracts, it also    *)
(* extends: the entry stays live for more than TTL_THRESHOLD ledgers, and  *)
(* is not left with the few that the host gives a new or a restored one.   *)
(***************************************************************************)
WrittenKeys ==
  {key \in {VerifierInstance} : verifier_initialized' # verifier_initialized}
    \cup {key \in {VerifierAdminKey} : verifier_admin' # verifier_admin}
    \cup {VerifyingKeyKey(v) : v \in
            {u \in DOMAIN verifying_keys' :
               u \notin DOMAIN verifying_keys \/ verifying_keys'[u] # verifying_keys[u]}}
    \cup {key \in {RegistryInstance} : registry_initialized' # registry_initialized}
    \cup {key \in {RegistryAdminKey} : registry_admin' # registry_admin}
    \cup {key \in {VerifierContractKey} : verifier_contract' # verifier_contract}
    \cup {CredentialKey(n) : n \in
            {m \in DOMAIN credentials' :
               m \notin DOMAIN credentials \/ credentials'[m] # credentials[m]}}
    \cup {NullifierUsedKey(n) : n \in nullifier_used' \ nullifier_used}
    \cup {OwnerCredentialsKey(a) : a \in
            {b \in Accounts : owner_credentials'[b] # owner_credentials[b]}}
    \cup {key \in {GatedInstance} : gated_initialized' # gated_initialized}
    \cup {key \in {GatedRegistryKey} : gated_registry' # gated_registry}

WrittenAreExtended ==
  \A key \in WrittenKeys : live_until'[key] > sequence + TTL_THRESHOLD

WritesAreKeptLive == [][WrittenAreExtended]_vars

(***************************************************************************)
(* The contracts implement the abstract life cycle of credentials, the     *)
(* events of the gated contract being its log of uses.                     *)
(***************************************************************************)
PhaseOf(n) ==
  IF ~IsStored(n) THEN "none" ELSE IF credentials[n].status = "Revoked" THEN "revoked" ELSE "active"
HolderOf(n) == IF IsStored(n) THEN credentials[n].owner ELSE NoAddress
ExpiryOf(n) == IF IsStored(n) THEN credentials[n].expires_at ELSE 0
UseOf(event) == [nullifier |-> event.nullifier, by |-> event.owner, at |-> event.at]

Lifecycle == INSTANCE CredentialLifecycle WITH
  Nobody <- NoAddress,
  MaxLifetime <- MAX_CREDENTIAL_TTL_SECS,
  phase <- [n \in Nullifiers |-> PhaseOf(n)],
  holder <- [n \in Nullifiers |-> HolderOf(n)],
  expiry <- [n \in Nullifiers |-> ExpiryOf(n)],
  log <- [i \in DOMAIN events |-> UseOf(events[i])],
  now <- timestamp,
  authority <- registry_admin,
  actor <- signer

ImplementsLifecycle == Lifecycle!Spec

(***************************************************************************)
(* A credential its owner stops renewing stops being valid by itself, as   *)
(* long as the network closes ledgers.  Only an expiry beyond the model's  *)
(* last timestamp escapes.                                                 *)
(***************************************************************************)
UnrenewedCredentialsExpire ==
  \A n \in Nullifiers :
    (IsStored(n) /\ credentials[n].expires_at < MaxTimestamp)
      ~> (\/ \A a \in Accounts : RequireValidResult(a, n) # "Ok" /\ ~IsCredentialActive(a, n)
          \/ credentials[n].expires_at >= MaxTimestamp)

------------------------------------------------------------------------------
(***************************************************************************)
(* A statement of a comment that the code does not keep; the run that      *)
(* checks it ends with a counterexample.                                   *)
(***************************************************************************)

(* cloakwork-types/src/lib.rs, of the nullifier: "used to prevent the same *)
(* domain proof from issuing multiple credentials"; the nullifiers that    *)
(* are compared are bytes, the ones that are proved are field elements.    *)
DocOneCredentialPerProof ==
  \A n, m \in DOMAIN credentials : FieldOf(n) = FieldOf(m) => n = m
==============================================================================
