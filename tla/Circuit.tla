------------------------------- MODULE Circuit -------------------------------
(***************************************************************************)
(* The Groth16 circuit: which public signals a private witness proves.     *)
(* Poseidon is idealised as collision free: a hash is the pair it hashes.  *)
(***************************************************************************)
EXTENDS Integers

Poseidon(x, y) == <<x, y>>

(* The circuit's constraints on a witness w and the public signals p. *)
CircuitAccepts(w, p) ==
  /\ p.domain_commitment = Poseidon(w.domain_bytes_hash, w.nonce)
  /\ p.record_commitment = Poseidon(w.record_bytes_hash, w.nonce)
  /\ p.owner_commitment = Poseidon(w.owner_bytes_hash, w.nonce)
  /\ p.nullifier = Poseidon(w.domain_bytes_hash, w.secret)
  /\ p.dnskey_root_hash = w.dnskey_chain_hash
  /\ p.not_before = w.rrsig_not_before
  /\ p.not_after = w.rrsig_not_after
  /\ p.not_before <= p.not_after
  /\ p.verifier_version > 0

(* The public signals, in the order the main component declares them; an   *)
(* integer is the field element with it in its last 8 bytes.               *)
IntSignal(x) == [hi |-> 0, lo |-> x]

PublicSignals(p) ==
  << p.domain_commitment, p.record_commitment, p.owner_commitment, p.nullifier,
     IntSignal(p.not_before), IntSignal(p.not_after),
     p.dnskey_root_hash, IntSignal(p.verifier_version) >>

(* The 32 bytes the browser makes of a signal. *)
SignalToBytes32(f) == [field |-> f, multiple |-> 0]
==============================================================================
