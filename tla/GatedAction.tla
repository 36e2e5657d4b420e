----------------------------- MODULE GatedAction -----------------------------
(***************************************************************************)
(* The gated contract and the SDK it calls the registry through: an action *)
(* its caller may execute only with a valid credential, recorded as an     *)
(* event that names the owner and the domain commitment.                   *)
(***************************************************************************)
EXTENDS CloakworkRegistry

CONSTANTS
  RegistryAddresses,  \* what the deployer may configure as the registry
  Registry,           \* the address of the deployed registry
  MaxEvents           \* bound on the number of executed actions

ASSUME GatedAssumption ==
  /\ NoAddress \notin RegistryAddresses
  /\ Registry \in RegistryAddresses
  /\ MaxEvents \in Nat

VARIABLES
  gated_initialized,  \* DataKey::Initialized, in instance storage
  gated_registry,     \* DataKey::Registry
  events              \* the ActionExecuted events published, in order; `nullifier`
                      \* and `at` are history, the event itself has neither

gatedVars == <<gated_initialized, gated_registry, events>>

GatedInstance == <<"gated", "Instance">>
GatedRegistryKey == <<"gated", "Registry">>

(* CloakworkClient::is_credential_active. *)
IsCredentialActive(owner, n) ==
  /\ n \in DOMAIN credentials
  /\ credentials[n].owner = owner
  /\ credentials[n].status = "Active"
  /\ credentials[n].expires_at > timestamp

(***************************************************************************)
(* What execute_with_credential returns after the owner's authorisation.   *)
(* A refusal of require_valid_credential, or a registry address with no    *)
(* registry behind it, traps.                                              *)
(***************************************************************************)
ExecuteResult(owner, n) ==
  IF gated_registry = NoAddress THEN "NotInitialized"
  ELSE IF gated_registry # Registry \/ RequireValidResult(owner, n) # "Ok" THEN "Trap"
  ELSE IF n \notin DOMAIN credentials THEN "CredentialNotFound"
  ELSE "Ok"

------------------------------------------------------------------------------
GatedInit ==
  /\ gated_initialized = FALSE
  /\ gated_registry = NoAddress
  /\ events = <<>>

(* Asks for no authorisation. *)
GatedInitialize(registry, s) ==
  /\ ~gated_initialized
  /\ gated_initialized' = TRUE
  /\ gated_registry' = registry
  /\ UNCHANGED events
  /\ LET keys == {GatedInstance, GatedRegistryKey} IN Transaction(s, keys, keys)

ExecuteWithCredential(owner, n, s) ==
  /\ Len(events) < MaxEvents
  /\ s = owner
  /\ ExecuteResult(owner, n) = "Ok"
  /\ events' = Append(events, [owner |-> owner, commitment |-> credentials[n].commitment,
                               nullifier |-> n, at |-> timestamp])
  /\ UNCHANGED <<gated_initialized, gated_registry>>
  /\ Transaction(s, {GatedInstance, RegistryInstance, CredentialKey(n)},
                 {GatedRegistryKey} \cup ExtendCredential(n))
==============================================================================
