-------------------------- MODULE CloakworkRegistry --------------------------
(***************************************************************************)
(* The registry contract: issues a credential for a verified proof, keeps  *)
(* it under the proof's nullifier, and lets its owner renew it and its     *)
(* owner or the admin revoke it.  Other contracts ask it whether a         *)
(* credential is valid.                                                    *)
(***************************************************************************)
EXTENDS CloakworkVerifier

CONSTANTS
  Nullifiers,                   \* the 32-byte nullifiers callers submit
  Commitments,                  \* all other 32-byte commitments and hashes
  VerifierAddresses,            \* what an operator may configure as the verifier
  Verifier,                     \* the address of the deployed verifier
  MAX_CREDENTIAL_TTL_SECS

ASSUME RegistryAssumption ==
  /\ NoAddress \notin VerifierAddresses
  /\ Verifier \in VerifierAddresses
  /\ MAX_CREDENTIAL_TTL_SECS \in Nat \ {0}

VARIABLES
  registry_initialized,  \* DataKey::Initialized, in instance storage
  registry_admin,        \* DataKey::Admin
  verifier_contract,     \* DataKey::VerifierContract
  credentials,           \* DataKey::Credential(nullifier), for the ones stored
  nullifier_used,        \* the nullifiers whose DataKey::NullifierUsed is true
  owner_credentials      \* DataKey::OwnerCredentials(owner), empty when absent

registryConfig == <<registry_initialized, registry_admin, verifier_contract>>
registryVars == <<registryConfig, credentials, nullifier_used, owner_credentials>>

U64 == 0 .. U64_MAX

PublicInputs ==
  [domain_commitment : Commitments, record_commitment : Commitments,
   owner_commitment : Commitments, nullifier : Nullifiers,
   not_before : U64, not_after : U64,
   dnskey_root_hash : Commitments, verifier_version : Versions]

DomainCredential ==
  [owner : Accounts, commitment : Commitments, nullifier : Nullifiers,
   verifier_version : Versions, issued_at : U64, expires_at : U64,
   status : {"Active", "Revoked"}]

RegistryInstance == <<"registry", "Instance">>
RegistryAdminKey == <<"registry", "Admin">>
VerifierContractKey == <<"registry", "VerifierContract">>
CredentialKey(n) == <<"registry", "Credential", n>>
NullifierUsedKey(n) == <<"registry", "NullifierUsed", n>>
OwnerCredentialsKey(a) == <<"registry", "OwnerCredentials", a>>

------------------------------------------------------------------------------
(* The vector handed to the verifier, in the circuit's order. *)
IntToBytes32(x) == [field |-> [hi |-> 0, lo |-> x], multiple |-> 0]

InputsVectorSwapped(pi) ==  \* the window's two ends in the wrong order
  << pi.domain_commitment, pi.record_commitment, pi.owner_commitment, pi.nullifier,
     IntToBytes32(pi.not_after), IntToBytes32(pi.not_before),
     pi.dnskey_root_hash, IntToBytes32(pi.verifier_version) >>

InputsVector(pi) ==
  << pi.domain_commitment, pi.record_commitment, pi.owner_commitment, pi.nullifier,
     IntToBytes32(pi.not_before), IntToBytes32(pi.not_after),
     pi.dnskey_root_hash, IntToBytes32(pi.verifier_version) >>

(***************************************************************************)
(* What verify_and_issue returns, in the order of its checks.  The call to *)
(* the verifier is not a try_ call: an error or a trap of the verifier, or *)
(* a verifier address with no verify_proof behind it, traps the registry.  *)
(***************************************************************************)
VerifierAnswer(pi, proof) ==
  IF verifier_contract = Verifier
  THEN VerifyProofResult(proof, InputsVector(pi), pi.verifier_version)
  ELSE "Trap"

FreshAfterRevocation(n) == n \notin DOMAIN credentials \/ credentials[n].status = "Revoked"
IsFresh(n) == n \notin nullifier_used


VerifyAndIssueResult(pi, proof) ==
  IF ~IsFresh(pi.nullifier) THEN "NullifierAlreadyUsed"
  ELSE IF pi.not_before > timestamp THEN "ProofWindowNotYetActive"
  ELSE IF pi.not_after < timestamp THEN "ProofWindowExpired"
  ELSE IF verifier_contract = NoAddress THEN "Unauthorized"
  ELSE CASE VerifierAnswer(pi, proof) = "True"  -> "Ok"
         [] VerifierAnswer(pi, proof) = "False" -> "ProofVerificationFailed"
         [] OTHER -> "Trap"

MaxExpiry == SaturatingAdd(timestamp, MAX_CREDENTIAL_TTL_SECS)

NewCredentialSwapped(owner, pi) ==  \* two fields of the same Rust type exchanged
  [owner |-> owner, commitment |-> pi.nullifier, nullifier |-> pi.domain_commitment,
   verifier_version |-> pi.verifier_version, issued_at |-> timestamp,
   expires_at |-> Minimum(pi.not_after, MaxExpiry), status |-> "Active"]

NewCredential(owner, pi) ==
  [owner |-> owner, commitment |-> pi.domain_commitment, nullifier |-> pi.nullifier,
   verifier_version |-> pi.verifier_version, issued_at |-> timestamp,
   expires_at |-> Minimum(pi.not_after, MaxExpiry), status |-> "Active"]

IsExpiredAtIssue(n) == credentials[n].expires_at < credentials[n].issued_at
IsExpired(n) == credentials[n].expires_at < timestamp

(* What require_valid_credential ends with, in the order of its checks. *)
RequireValidResult(owner, n) ==
  IF n \notin DOMAIN credentials THEN "CredentialNotFound"
  ELSE IF credentials[n].owner # owner THEN "Unauthorized"
  ELSE IF credentials[n].status = "Revoked" THEN "CredentialRevoked"
  ELSE IF IsExpired(n) THEN "CredentialExpired"
  ELSE "Ok"

------------------------------------------------------------------------------
RegistryInit ==
  /\ registry_initialized = FALSE
  /\ registry_admin = NoAddress
  /\ verifier_contract = NoAddress
  /\ credentials = [n \in {} |-> NoAddress]
  /\ nullifier_used = {}
  /\ owner_credentials = [a \in Accounts |-> <<>>]

RegistryInitializeUnguarded(admin, verifier, s) ==
  /\ s = admin
  /\ registry_initialized' = TRUE
  /\ registry_admin' = admin
  /\ verifier_contract' = verifier
  /\ UNCHANGED <<credentials, nullifier_used, owner_credentials>>
  /\ LET keys == {RegistryInstance, RegistryAdminKey, VerifierContractKey}
     IN  Transaction(s, keys, keys)

RegistryInitialize(admin, verifier, s) ==
  /\ ~registry_initialized
  /\ s = admin
  /\ registry_initialized' = TRUE
  /\ registry_admin' = admin
  /\ verifier_contract' = verifier
  /\ UNCHANGED <<credentials, nullifier_used, owner_credentials>>
  /\ LET keys == {RegistryInstance, RegistryAdminKey, VerifierContractKey}
     IN  Transaction(s, keys, keys)

(* The entries an issuance writes, and the ones it extends after that. *)
IssueWrites(owner, n) == {CredentialKey(n), NullifierUsedKey(n), OwnerCredentialsKey(owner)}
IssueExtendsNoIndex(owner, n) == {CredentialKey(n), NullifierUsedKey(n)}
IssueExtends(owner, n) == {CredentialKey(n), NullifierUsedKey(n), OwnerCredentialsKey(owner)}

VerifyAndIssue(owner, pi, proof, s) ==
  LET n == pi.nullifier IN
  /\ s = owner
  /\ VerifyAndIssueResult(pi, proof) = "Ok"
  /\ credentials' = [m \in DOMAIN credentials \cup {n} |->
                       IF m = n THEN NewCredential(owner, pi) ELSE credentials[m]]
  /\ nullifier_used' = nullifier_used \cup {n}
  /\ owner_credentials' = [owner_credentials EXCEPT ![owner] = Append(@, n)]
  /\ UNCHANGED registryConfig
  /\ Transaction(s, {RegistryInstance, VerifierContractKey, VerifierInstance}
                      \cup IssueWrites(owner, n),
                 {VerifyingKeyKey(pi.verifier_version)} \cup IssueExtends(owner, n))

(***************************************************************************)
(* The checks and the extension the calls on a stored credential share.    *)
(***************************************************************************)
IsStored(n) == n \in DOMAIN credentials
IsUnrevoked(n) == n \in DOMAIN credentials /\ credentials[n].status # "Revoked"

AnyoneMayRevoke(caller, n) == registry_admin # NoAddress
MayRevoke(caller, n) ==
  registry_admin # NoAddress /\ caller \in {credentials[n].owner, registry_admin}

ExtendNothing(n) == {}
ExtendCredential(n) == {CredentialKey(n)}

Revoke(caller, n, s) ==
  /\ IsUnrevoked(n)
  /\ MayRevoke(caller, n)
  /\ s = caller
  /\ credentials' = [credentials EXCEPT ![n].status = "Revoked"]
  /\ UNCHANGED <<registryConfig, nullifier_used, owner_credentials>>
  /\ Transaction(s, {RegistryInstance, RegistryAdminKey, CredentialKey(n)}, ExtendCredential(n))

Renew(n, new_expires_at, s) ==
  /\ IsUnrevoked(n)
  /\ s = credentials[n].owner
  /\ new_expires_at > timestamp
  /\ credentials' = [credentials EXCEPT ![n].expires_at = Minimum(new_expires_at, MaxExpiry)]
  /\ UNCHANGED <<registryConfig, nullifier_used, owner_credentials>>
  /\ Transaction(s, {RegistryInstance, CredentialKey(n)}, ExtendCredential(n))

(* The calls that only read, and extend what they read. *)
RequireValidCredential(owner, n, s) ==
  /\ RequireValidResult(owner, n) = "Ok"
  /\ UNCHANGED registryVars
  /\ Transaction(s, {RegistryInstance, CredentialKey(n)}, ExtendCredential(n))

GetCredential(n, s) ==
  /\ UNCHANGED registryVars
  /\ Transaction(s, {RegistryInstance}, IF IsStored(n) THEN ExtendCredential(n) ELSE {})

GetCredentialsByOwner(owner, s) ==
  /\ UNCHANGED registryVars
  /\ Transaction(s, {RegistryInstance},
                 IF owner_credentials[owner] = <<>> THEN {} ELSE {OwnerCredentialsKey(owner)})
==============================================================================
