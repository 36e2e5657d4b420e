---------------------------- MODULE CredentialList ----------------------------
(***************************************************************************)
(* The list of a wallet's credentials, as the tabs CredentialManager and   *)
(* GatedActionSection load it: the nullifiers first, then a request for    *)
(* each credential.  Every change of the address and every mounting starts *)
(* a load, and a load goes on whatever happens, as long as its component   *)
(* is mounted; what one that is gone would load is seen by nobody.         *)
(***************************************************************************)
EXTENDS LedgerTransactions

CONSTANT MaxLoads   \* bound on the loads at a time

ASSUME LoadAssumption == MaxLoads \in Nat

VARIABLES
  registry_set,  \* whether the build has config.registryContractId, which is '' by default
  address,       \* walletAddress, or None
  tab,           \* activeTab
  credentials,   \* the credentials shown, as they were found
  loading,
  load_error,    \* whether the last load failed
  loads          \* the calls of loadCredentials that have not returned

listVars == <<credentials, loading, load_error, loads>>

Tabs == {"proof", "credentials", "gated"}
IsOpen == address # None /\ tab # "proof"

ListInit ==
  /\ registry_set \in BOOLEAN
  /\ address = None
  /\ tab = "proof"
  /\ credentials = {}
  /\ loading = FALSE
  /\ load_error = FALSE
  /\ loads = {}

(* What is shown of a credential; the browser's clock is the ledger's. *)
StatusShown(n) ==
  CASE phase[n] = "revoked" -> "Revoked"
    [] phase[n] # "revoked" /\ expiry[n] < now -> "Expired"
    [] OTHER -> "Active"
FoundForAddress(owner, n) ==  \* the address now connected instead of the load's
  [nullifier |-> n, owner |-> address, status |-> StatusShown(n)]
FoundFor(owner, n) == [nullifier |-> n, owner |-> owner, status |-> StatusShown(n)]

ActiveOf(list) == {c \in list : c.status = "Active"}

FreeLoadIds(current) == (1 .. MaxLoads) \ {l.id : l \in current}
NewLoad(owner, current) ==
  [id |-> CHOOSE i \in FreeLoadIds(current) : \A j \in FreeLoadIds(current) : i <= j,
   owner |-> owner, stage |-> "list", left |-> {}, found |-> {}]

(* loadCredentials, up to its awaits. *)
StartLoad(owner) ==
  /\ registry_set
  /\ FreeLoadIds(loads) # {}
  /\ loads' = loads \cup {NewLoad(owner, loads)}
  /\ loading' = TRUE
  /\ load_error' = FALSE
  /\ UNCHANGED credentials

Refresh ==
  /\ tab = "credentials" /\ IsOpen
  /\ ~loading
  /\ StartLoad(address)

(* A load that ends ends the display of loading, whoever started it. *)
EndLoad(l, list, failed) ==
  /\ loads' = loads \ {l}
  /\ credentials' = list
  /\ loading' = FALSE
  /\ load_error' = (load_error \/ failed)
Advance(l, next) ==
  /\ loads' = (loads \ {l}) \cup {next}
  /\ UNCHANGED <<credentials, loading, load_error>>

------------------------------------------------------------------------------
(* The nullifiers arrive; a wallet without any ends the load. *)
ListArrives(l) ==
  /\ l.stage = "list"
  /\ LET nullifiers == {n \in Nullifiers : phase[n] # "none" /\ holder[n] = l.owner}
     IN  IF nullifiers = {} THEN EndLoad(l, {}, FALSE)
         ELSE Advance(l, [l EXCEPT !.stage = "records", !.left = nullifiers])

(* A credential arrives, or is skipped; after the last one the list is shown. *)
RecordArrives(l) ==
  /\ l.stage = "records"
  /\ \E n \in l.left : \E found \in {l.found, l.found \cup {FoundFor(l.owner, n)}} :
       IF l.left = {n} THEN EndLoad(l, found, FALSE)
       ELSE Advance(l, [l EXCEPT !.left = @ \ {n}, !.found = found])

(* The simulation refuses the list: the gated tab then shows none. *)
ListRefused(l) ==
  /\ l.stage = "list"
  /\ EndLoad(l, IF tab = "gated" THEN {} ELSE credentials, TRUE)

(* The account or the list could not be asked for. *)
LoadFails(l) ==
  /\ l.stage = "list"
  /\ EndLoad(l, credentials, TRUE)

LoadAnswer(l) == ListArrives(l) \/ RecordArrives(l) \/ ListRefused(l) \/ LoadFails(l)

------------------------------------------------------------------------------
(***************************************************************************)
(* A component that is mounted starts empty and loads at once, if there is *)
(* a registry to ask.  CredentialManager starts as loading, and stays so   *)
(* when there is none.                                                     *)
(***************************************************************************)
MountList(owner, t) ==
  /\ credentials' = {}
  /\ loading' = (registry_set \/ t = "credentials")
  /\ load_error' = FALSE
  /\ loads' = IF registry_set THEN {NewLoad(owner, {})} ELSE {}

UnmountList ==
  /\ credentials' = {}
  /\ loading' = FALSE
  /\ load_error' = FALSE
  /\ loads' = {}
==============================================================================
