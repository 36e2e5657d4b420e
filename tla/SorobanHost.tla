----------------------------- MODULE SorobanHost -----------------------------
(***************************************************************************)
(* The part of the Soroban host that the Cloakwork contracts depend on:    *)
(* the ledger clock, the time to live of every storage entry, and the      *)
(* address whose authorisation a transaction carries.  The host is not     *)
(* part of the repository; this module says how the contracts use it.      *)
(*                                                                         *)
(*  - A transaction is one action.  A contract function that returns an    *)
(*    error or traps undoes the whole transaction, calls made by the       *)
(*    contracts it invoked included, so a failing call is no step at all.  *)
(*  - Every function of these contracts asks for the authorisation of at   *)
(*    most one address, so a transaction carries one signer.               *)
(*  - An entry whose time to live has run out is archived, not lost.  The  *)
(*    next transaction that has it in its footprint restores it with the   *)
(*    minimum time to live before the contract runs, so a contract never   *)
(*    sees an archived entry as absent.                                    *)
(***************************************************************************)
EXTENDS Integers

CONSTANTS
  TTL_THRESHOLD,       \* entries with at most this many ledgers left are extended
  TTL_TARGET,          \* ... to this many ledgers from now
  MIN_PERSISTENT_TTL,  \* the time to live of a new or restored persistent entry
  U64_MAX,             \* the largest u64
  Gaps,                \* the seconds that may pass between two ledgers
  MaxSequence,         \* bound on the number of ledgers
  MaxTimestamp         \* bound on the ledger timestamp

ASSUME HostAssumption ==
  /\ TTL_THRESHOLD \in Nat
  /\ TTL_TARGET \in Nat
  /\ TTL_THRESHOLD < TTL_TARGET
  /\ MIN_PERSISTENT_TTL \in Nat \ {0}
  /\ U64_MAX \in Nat
  /\ Gaps \subseteq Nat \ {0}
  /\ MaxSequence \in Nat
  /\ MaxTimestamp \in 0 .. U64_MAX

VARIABLES
  sequence,    \* the number of the current ledger
  timestamp,   \* its close time, in seconds
  live_until,  \* for each stored key, the last ledger in which its entry is live
  signer       \* history: the address that authorised the last transaction

hostVars == <<sequence, timestamp, live_until, signer>>

NoAddress == "no address"

(* The u64 operations of the contracts.  Faulty variants, here and in the *)
(* other modules, stand before what they vary and are used by no action.  *)
WrappingAdd(a, b) == (a + b) % (U64_MAX + 1)
SaturatingAdd(a, b) == IF a + b > U64_MAX THEN U64_MAX ELSE a + b
Minimum(a, b) == IF a < b THEN a ELSE b

(***************************************************************************)
(* Storage.  EntryOnAccess is the expiry ledger of an entry as a           *)
(* transaction finds it (restored if it was archived) or creates it.       *)
(***************************************************************************)
IsLive(key) == key \in DOMAIN live_until /\ live_until[key] >= sequence

EntryOnAccess(key) ==
  IF IsLive(key) THEN live_until[key] ELSE sequence + MIN_PERSISTENT_TTL - 1

ExtendTtl(until) ==
  IF until - sequence <= TTL_THRESHOLD THEN sequence + TTL_TARGET ELSE until

(***************************************************************************)
(* A transaction authorised by s whose footprint is `accessed', and which  *)
(* calls extend_ttl for the keys in `extended'.                            *)
(***************************************************************************)
Transaction(s, accessed, extended) ==
  /\ signer' = s
  /\ live_until' = [key \in DOMAIN live_until \cup accessed \cup extended |->
                      IF key \in extended THEN ExtendTtl(EntryOnAccess(key))
                      ELSE IF key \in accessed THEN EntryOnAccess(key)
                      ELSE live_until[key]]
  /\ UNCHANGED <<sequence, timestamp>>

(* The network closes a ledger and opens the next one. *)
LedgerClose ==
  /\ sequence < MaxSequence
  /\ sequence' = sequence + 1
  /\ \E gap \in Gaps : /\ timestamp + gap <= MaxTimestamp
                       /\ timestamp' = timestamp + gap
  /\ signer' = NoAddress
  /\ UNCHANGED live_until
==============================================================================
