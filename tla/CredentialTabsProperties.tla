----------------------- MODULE CredentialTabsProperties -----------------------
(* What the two tabs of credentials show, and what stands behind it. *)
EXTENDS CredentialTabs, FiniteSets

(***************************************************************************)
(* Every credential shown is on the ledger under the wallet shown beside   *)
(* it, and one shown as revoked is revoked, whichever of several loads is  *)
(* answered last and whatever wallet is connected meanwhile.               *)
(***************************************************************************)
ShownIsOnLedger ==
  \A c \in credentials :
    /\ phase[c.nullifier] # "none" /\ holder[c.nullifier] = c.owner
    /\ c.status = "Revoked" => phase[c.nullifier] = "revoked"

(***************************************************************************)
(* Every wait that is shown has a call of this component in flight that    *)
(* ends it: loading, an action beside its credential, an execution, of     *)
(* which there is one at a time.  The exception is a build without a       *)
(* registry, whose tab of credentials shows itself loading and asks for    *)
(* nothing; no other tab does.                                             *)
(***************************************************************************)
WaitsAreBacked ==
  /\ loading => IF registry_set THEN loads # {} ELSE tab = "credentials"
  /\ action_pending # None =>
       \E a \in actions : a.mounted /\ a.call.nullifier = action_pending
  /\ Cardinality({x \in executions : x.mounted}) = IF running THEN 1 ELSE 0

------------------------------------------------------------------------------
(***************************************************************************)
(* GatedActionDemo.tsx: "Verified Merchant Payment Intent created on       *)
(* Stellar testnet"; the message is shown as soon as the transaction is    *)
(* sent, and stays when it has failed.                                     *)
(***************************************************************************)
DocIntentIsCreated ==
  tx_hash # None /\ ~running => transactions[tx_hash].result = "success"
==============================================================================
