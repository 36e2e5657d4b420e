-------------------------- MODULE LedgerTransactions --------------------------
(***************************************************************************)
(* The ledger as the tabs of the web application that manage and use       *)
(* credentials see it: the abstract life cycle, which the contracts        *)
(* implement, with the transactions that the browser has sent and that the *)
(* network includes, fails or loses.                                       *)
(***************************************************************************)
EXTENDS Integers, Sequences

CONSTANTS
  Nullifiers,
  Accounts,
  None,             \* no address, no credential, no transaction, ...
  MaxLifetime,      \* 30 days
  MaxTime,          \* bound on the ledger's clock
  MaxPolls,         \* how often the outcome of a transaction is asked for again
  MaxTransactions   \* bound on the transactions sent

ASSUME LedgerAssumption ==
  /\ None \notin Accounts \cup Nullifiers
  /\ MaxLifetime \in Nat /\ MaxTime \in Nat
  /\ MaxPolls \in Nat /\ MaxTransactions \in Nat

VARIABLES phase, holder, expiry, log, now, authority, actor, transactions

ledgerVars == <<phase, holder, expiry, log, now, authority, actor>>

Ledger == INSTANCE CredentialLifecycle WITH Nobody <- None

LedgerInit == now = 0 /\ authority = None /\ actor = None /\ Ledger!Init /\ transactions = <<>>

(***************************************************************************)
(* A call is a record of its kind, nullifier, account and expiry.  A       *)
(* simulation takes the signatures that the call requires for granted: who *)
(* renews is found out when the transaction is included.                   *)
(***************************************************************************)
Simulates(call) ==
  /\ phase[call.nullifier] = "active"
  /\ CASE call.kind = "revoke" -> call.by \in {holder[call.nullifier], authority}
       [] call.kind = "renew" -> call.expiry > now
       [] call.kind = "execute" -> call.by = holder[call.nullifier] /\ now <= expiry[call.nullifier]

Perform(call) ==
  /\ actor' = call.by
  /\ \/ call.kind = "revoke" /\ Ledger!Revoke(call.nullifier)
     \/ /\ call.kind = "renew"
        /\ expiry' = [expiry EXCEPT ![call.nullifier] = call.expiry]
        /\ Ledger!Renew(call.nullifier)
     \/ call.kind = "execute" /\ Ledger!Use(call.nullifier)

(* sendTransaction *)
Submitted(call) == Append(transactions, [call |-> call, result |-> "pending"])
MaySubmit == Len(transactions) < MaxTransactions

(* What getTransaction answers, and whether it is asked again. *)
TransactionStatus(t) ==
  CASE transactions[t].result = "success" -> "SUCCESS"
    [] transactions[t].result = "failed" -> "FAILED"
    [] OTHER -> "NOT_FOUND"
MayPollAgain(t, polls) == TransactionStatus(t) = "NOT_FOUND" /\ polls < MaxPolls

------------------------------------------------------------------------------
(* A transaction is included while the ledger accepts it, or fails; one    *)
(* that is lost stays pending.                                             *)
Settle(t, result) ==
  /\ transactions[t].result = "pending"
  /\ transactions' = [transactions EXCEPT ![t].result = result]

Include(t) == Settle(t, "success") /\ Perform(transactions[t].call)
Fail(t) == Settle(t, "failed") /\ UNCHANGED ledgerVars

(* Credentials are issued in the proof tab, and revoked in other browsers. *)
Elsewhere ==
  /\ \E n \in Nullifiers : Ledger!Issue(n) \/ Ledger!Revoke(n)
  /\ UNCHANGED transactions

Clock ==
  /\ now < MaxTime
  /\ now' = now + 1
  /\ Ledger!Tick
  /\ UNCHANGED <<actor, transactions>>
==============================================================================
