-------------------------- MODULE CloakworkVerifier --------------------------
(***************************************************************************)
(* The verifier contract: one Groth16 verifying key per circuit version,   *)
(* and the check of a proof against one of them.                           *)
(*                                                                         *)
(* The curve arithmetic is idealised.  A proof says which circuit it was   *)
(* made for and the statement (the public signals, elements of the scalar  *)
(* field) it proves; the pairing equation holds exactly when both are      *)
(* those it is checked for.                                                *)
(*                                                                         *)
(* The contracts receive 32 bytes for each signal, and 32 bytes hold more  *)
(* numbers than the field has elements: [field |-> f, multiple |-> q] are  *)
(* the bytes of f plus q times the order of the field.  A field element    *)
(* that carries an integer is a record of its first 24 bytes (hi) and its  *)
(* last 8 (lo); the registry encodes integers, never with a multiple.      *)
(***************************************************************************)
EXTENDS SorobanHost, Sequences

CONSTANTS
  Accounts,      \* the Stellar addresses that sign transactions
  Versions,      \* the circuit versions callers name (u32)
  VerifyingKeys  \* the verifying keys the admin may register

ASSUME VerifierAssumption ==
  /\ NoAddress \notin Accounts
  /\ Versions \subseteq Nat

VARIABLES
  verifier_initialized,  \* DataKey::Initialized, in instance storage
  verifier_admin,        \* DataKey::Admin
  verifying_keys         \* DataKey::VerifyingKey(version), for the versions stored

verifierVars == <<verifier_initialized, verifier_admin, verifying_keys>>

VerifierInstance == <<"verifier", "Instance">>
VerifierAdminKey == <<"verifier", "Admin">>
VerifyingKeyKey(version) == <<"verifier", "VerifyingKey", version>>

N_PUBLIC_INPUTS == 8
Bytes32ToU64(b) == b.field.lo

(* The scalar an input is taken for: 32 bytes are reduced, not refused. *)
FieldOf(b) == b.field

(***************************************************************************)
(* What verify_proof returns, in the order of its checks.  "Trap" is a     *)
(* host error: the proof's points are not on the curve.                    *)
(***************************************************************************)
PairingForAnyInputs(vk, proof, inputs) == proof.circuit = vk.circuit /\ proof.form = "ok"
PairingCheck(vk, proof, inputs) ==
  /\ proof.circuit = vk.circuit
  /\ proof.statement = [i \in DOMAIN inputs |-> FieldOf(inputs[i])]

VerifyProofResult(proof, inputs, version) ==
  IF version \notin DOMAIN verifying_keys THEN "VersionNotFound"
  ELSE IF Len(inputs) # N_PUBLIC_INPUTS \/ proof.form = "truncated" THEN "InvalidPublicInputs"
  ELSE IF Bytes32ToU64(inputs[5]) > timestamp THEN "ProofWindowNotYetActive"
  ELSE IF Bytes32ToU64(inputs[6]) < timestamp THEN "ProofWindowExpired"
  ELSE IF verifying_keys[version].ic_points # N_PUBLIC_INPUTS + 1 THEN "InvalidPublicInputs"
  ELSE IF proof.form = "off_curve" THEN "Trap"
  ELSE IF PairingCheck(verifying_keys[version], proof, inputs) THEN "True"
  ELSE "False"

------------------------------------------------------------------------------
VerifierInit ==
  /\ verifier_initialized = FALSE
  /\ verifier_admin = NoAddress
  /\ verifying_keys = [v \in {} |-> NoAddress]

VerifierInitialize(admin, s) ==
  /\ ~verifier_initialized
  /\ s = admin
  /\ verifier_initialized' = TRUE
  /\ verifier_admin' = admin
  /\ UNCHANGED verifying_keys
  /\ LET keys == {VerifierInstance, VerifierAdminKey} IN Transaction(s, keys, keys)

(* Registering a version again replaces its key. *)
RegisterKey(version, vk, s) ==
  /\ version # 0
  /\ verifier_admin # NoAddress
  /\ s = verifier_admin
  /\ verifying_keys' = [v \in DOMAIN verifying_keys \cup {version} |->
                          IF v = version THEN vk ELSE verifying_keys[v]]
  /\ UNCHANGED <<verifier_initialized, verifier_admin>>
  /\ LET keys == {VerifierInstance, VerifierAdminKey, VerifyingKeyKey(version)}
     IN  Transaction(s, keys, keys)

(* A direct call by anyone; it changes nothing but the key's time to live. *)
VerifyProof(proof, inputs, version, s) ==
  /\ VerifyProofResult(proof, inputs, version) \in {"True", "False"}
  /\ UNCHANGED verifierVars
  /\ Transaction(s, {VerifierInstance}, {VerifyingKeyKey(version)})
==============================================================================
