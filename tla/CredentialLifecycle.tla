------------------------- MODULE CredentialLifecycle -------------------------
(***************************************************************************)
(* What the on-chain contracts promise together, without proofs, storage   *)
(* or contracts: a nullifier yields at most one credential, which its      *)
(* holder may renew for a bounded time ahead, its holder or the authority  *)
(* may revoke once and for all, and its holder may use while it is active  *)
(* and not past its expiry.                                                *)
(***************************************************************************)
EXTENDS Integers, Sequences

CONSTANTS Nullifiers, Accounts, Nobody, MaxLifetime

VARIABLES
  phase,      \* of each nullifier: "none", "active" or "revoked"
  holder,     \* of each nullifier: the account its credential belongs to
  expiry,     \* of each nullifier: the last second its credential may be used
  log,        \* every use made so far, in order
  now,
  authority,  \* the account that may revoke any credential
  actor       \* the account behind the last step

lifecycleVars == <<phase, holder, expiry, log, now, authority>>

Init ==
  /\ phase = [n \in Nullifiers |-> "none"]
  /\ holder = [n \in Nullifiers |-> Nobody]
  /\ expiry = [n \in Nullifiers |-> 0]
  /\ log = <<>>
  /\ now \in Nat
  /\ authority \in Accounts \cup {Nobody}

Appoint ==
  /\ authority = Nobody
  /\ authority' \in Accounts
  /\ actor' = authority'
  /\ UNCHANGED <<phase, holder, expiry, log, now>>

Issue(n) ==
  /\ phase[n] = "none"
  /\ phase' = [phase EXCEPT ![n] = "active"]
  /\ actor' \in Accounts
  /\ holder' = [holder EXCEPT ![n] = actor']
  /\ \E e \in now .. now + MaxLifetime : expiry' = [expiry EXCEPT ![n] = e]
  /\ UNCHANGED <<log, now, authority>>

Renew(n) ==
  /\ phase[n] = "active"
  /\ actor' = holder[n]
  /\ \E e \in now + 1 .. now + MaxLifetime : expiry' = [expiry EXCEPT ![n] = e]
  /\ UNCHANGED <<phase, holder, log, now, authority>>

Revoke(n) ==
  /\ phase[n] = "active"
  /\ actor' \in {holder[n], authority} \ {Nobody}
  /\ phase' = [phase EXCEPT ![n] = "revoked"]
  /\ UNCHANGED <<holder, expiry, log, now, authority>>

Use(n) ==
  /\ phase[n] = "active"
  /\ now <= expiry[n]
  /\ actor' = holder[n]
  /\ log' = Append(log, [nullifier |-> n, by |-> actor', at |-> now])
  /\ UNCHANGED <<phase, holder, expiry, now, authority>>

Tick ==
  /\ now' \in Nat
  /\ now' > now
  /\ UNCHANGED <<phase, holder, expiry, log, authority>>

Next ==
  \/ Appoint
  \/ Tick
  \/ \E n \in Nullifiers : Issue(n) \/ Renew(n) \/ Revoke(n) \/ Use(n)

Spec == Init /\ [][Next]_lifecycleVars
==============================================================================
