--------------------------- MODULE MCCredentialTabs ---------------------------
(* A small instance; the wallets play the same part, and who took the last *)
(* step on the ledger matters to none of the properties.                   *)
EXTENDS CredentialTabsProperties, TLC

MCSymmetry == Permutations(Accounts)
MCView == <<phase, holder, expiry, now, transactions, pageVars, listVars, managerVars, gatedVars>>

(* Bound: an action and an execution are not under way at once. *)
OneAtATime == actions = {} \/ executions = {}
==============================================================================
