----------------------------- MODULE MCCloakwork -----------------------------
(* Small instances of the contracts: two accounts, two domains, one proof  *)
(* window that closes early and one that outlasts the maximum lifetime.    *)
EXTENDS CloakworkProperties, FiniteSets

CONSTANTS alice, bob, d1, d2, nonce, secret, txt, chain, verifierId, registryId, otherId

Witness(d, owner, from, to) ==
  [domain_bytes_hash |-> d, record_bytes_hash |-> txt, owner_bytes_hash |-> owner,
   dnskey_chain_hash |-> chain, nonce |-> nonce, secret |-> secret,
   rrsig_not_before |-> from, rrsig_not_after |-> to]

MCWitnesses == {Witness(d1, alice, 0, 1), Witness(d2, bob, 1, 4)}

Inputs(w, version) ==
  [domain_commitment |-> SignalToBytes32(Poseidon(w.domain_bytes_hash, w.nonce)),
   record_commitment |-> SignalToBytes32(Poseidon(w.record_bytes_hash, w.nonce)),
   owner_commitment |-> SignalToBytes32(Poseidon(w.owner_bytes_hash, w.nonce)),
   nullifier |-> SignalToBytes32(Poseidon(w.domain_bytes_hash, w.secret)),
   not_before |-> w.rrsig_not_before, not_after |-> w.rrsig_not_after,
   dnskey_root_hash |-> SignalToBytes32(w.dnskey_chain_hash), verifier_version |-> version]

Honest == {Inputs(w, 1) : w \in MCWitnesses}

(* Each domain's inputs with the other domain's nullifier. *)
Mixed == {[p EXCEPT !.nullifier = q.nullifier] : <<p, q>> \in
            {pq \in Honest \X Honest : pq[1] # pq[2]}}

(* The first domain's inputs with the other bytes of its nullifier. *)
OtherBytes(b) == [b EXCEPT !.multiple = 1]
Reencoded == {[p EXCEPT !.nullifier = OtherBytes(@)] : p \in
                {Inputs(Witness(d1, alice, 0, 1), 1)}}

(* Bound on the credentials issued in one behaviour. *)
FewCredentials == Cardinality(DOMAIN credentials) <= 2

MCSubmissions == Honest \cup Mixed \cup Reencoded
MCOneProof == {Inputs(Witness(d1, alice, 0, 1), 1)} \cup Reencoded

(* One domain only, for the runs about deployment, storage and liveness. *)
MCOneDomain == {Inputs(Witness(d2, bob, 1, 4), 1)}

MCCommitments ==
  {SignalToBytes32(f) : f \in {Poseidon(x, nonce) : x \in {d1, d2, txt, alice, bob}} \cup {chain}}
MCCanonicalNullifiers == {SignalToBytes32(Poseidon(d, secret)) : d \in {d1, d2}}
MCNullifiers == MCCanonicalNullifiers \cup {OtherBytes(SignalToBytes32(Poseidon(d1, secret)))}

Key(c, points) == [circuit |-> c, ic_points |-> points]
MCDeployedKey == Key("v1", 9)
MCVerifyingKeys == {MCDeployedKey, Key("v1", 8)}
MCDeployedKeys == {MCDeployedKey}

MCProofs ==
  {[form |-> "ok", circuit |-> c, statement |-> PublicSignals(SignalsOf(p))] : c \in {"v1"}, p \in Honest}
    \cup {[form |-> f, circuit |-> "v1", statement |-> <<>>] : f \in {"truncated", "off_curve"}}

(* Who made the last step is looked at only while it is made. *)
MCView == <<sequence, timestamp, live_until, verifierVars, registryVars, gatedVars>>
==============================================================================
