------------------------------ MODULE Cloakwork ------------------------------
(***************************************************************************)
(* The three contracts on one ledger: the gated contract calls the         *)
(* registry, the registry calls the verifier, and anyone may call any of   *)
(* them.  Each disjunct of Next but the first is one transaction.          *)
(***************************************************************************)
EXTENDS GatedAction

CONSTANTS
  Submissions,   \* the public inputs callers submit
  Proofs,        \* the proofs callers submit
  Expiries,      \* the expiries owners ask for in a renewal
  Deployer,      \* the account that runs the deployment scripts
  DeployedKey    \* the verifying key they register, as version 1

ASSUME CloakworkAssumption ==
  /\ Submissions \subseteq PublicInputs
  /\ Expiries \subseteq U64
  /\ Deployer \in Accounts
  /\ 1 \in Versions
  /\ DeployedKey \in VerifyingKeys

vars == <<hostVars, verifierVars, registryVars, gatedVars>>

Init ==
  /\ sequence = 0
  /\ timestamp = 0
  /\ live_until = [key \in {VerifierInstance, RegistryInstance, GatedInstance}
                     |-> MIN_PERSISTENT_TTL - 1]
  /\ signer = NoAddress
  /\ VerifierInit
  /\ RegistryInit
  /\ GatedInit

(***************************************************************************)
(* The state the deployment scripts leave behind, when they run within one *)
(* ledger: deploy.sh initializes the three contracts, register_key.js      *)
(* registers the key of circuit version 1.                                 *)
(***************************************************************************)
DeployedInit ==
  /\ sequence = 0
  /\ timestamp = 0
  /\ live_until = [key \in {VerifierInstance, VerifierAdminKey, VerifyingKeyKey(1),
                            RegistryInstance, RegistryAdminKey, VerifierContractKey,
                            GatedInstance, GatedRegistryKey}
                     |-> ExtendTtl(MIN_PERSISTENT_TTL - 1)]
  /\ signer = Deployer
  /\ verifier_initialized = TRUE
  /\ verifier_admin = Deployer
  /\ verifying_keys = [v \in {1} |-> DeployedKey]
  /\ registry_initialized = TRUE
  /\ registry_admin = Deployer
  /\ verifier_contract = Verifier
  /\ credentials = [n \in {} |-> NoAddress]
  /\ nullifier_used = {}
  /\ owner_credentials = [a \in Accounts |-> <<>>]
  /\ gated_initialized = TRUE
  /\ gated_registry = Registry
  /\ events = <<>>

------------------------------------------------------------------------------
VerifierStep(s) ==
  /\ \/ \E admin \in Accounts : VerifierInitialize(admin, s)
     \/ \E v \in Versions, vk \in VerifyingKeys : RegisterKey(v, vk, s)
     \/ \E pi \in Submissions, proof \in Proofs :
          VerifyProof(proof, InputsVector(pi), pi.verifier_version, s)
  /\ UNCHANGED <<registryVars, gatedVars>>

RegistryStep(s) ==
  /\ \/ \E admin \in Accounts, v \in VerifierAddresses : RegistryInitialize(admin, v, s)
     \/ \E owner \in Accounts, pi \in Submissions, proof \in Proofs :
          VerifyAndIssue(owner, pi, proof, s)
     \/ \E caller \in Accounts, n \in Nullifiers : Revoke(caller, n, s)
     \/ \E n \in Nullifiers, e \in Expiries : Renew(n, e, s)
     \/ \E owner \in Accounts, n \in Nullifiers : RequireValidCredential(owner, n, s)
     \/ \E n \in Nullifiers : GetCredential(n, s)
     \/ \E owner \in Accounts : GetCredentialsByOwner(owner, s)
  /\ UNCHANGED <<verifierVars, gatedVars>>

GatedStep(s) ==
  /\ \/ \E r \in RegistryAddresses : GatedInitialize(r, s)
     \/ \E owner \in Accounts, n \in Nullifiers : ExecuteWithCredential(owner, n, s)
  /\ UNCHANGED <<verifierVars, registryVars>>

CloseLedger == LedgerClose /\ UNCHANGED <<verifierVars, registryVars, gatedVars>>

Next ==
  \/ CloseLedger
  \/ \E s \in Accounts : VerifierStep(s) \/ RegistryStep(s) \/ GatedStep(s)

Spec == Init /\ [][Next]_vars

DeployedSpec == DeployedInit /\ [][Next]_vars

(* The network keeps closing ledgers, whatever the contracts' users do. *)
FairSpec == Spec /\ WF_vars(CloseLedger)
==============================================================================
