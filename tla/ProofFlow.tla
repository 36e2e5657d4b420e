------------------------------ MODULE ProofFlow ------------------------------
(***************************************************************************)
(* The hook that drives a proof in the browser: from a challenge, over the *)
(* DNSSEC check and the prover worker, to the submission.  What it awaits  *)
(* is in `calls`; an answer is applied whatever has happened meanwhile.    *)
(* Nonce and secret live in a ref that nothing persists; the public part   *)
(* of the state is saved to sessionStorage.                                *)
(***************************************************************************)
EXTENDS WalletConnect, Sequences

CONSTANTS
  Domains,
  MaxChallenges,   \* bound on the challenges generated
  MaxCalls         \* bound on the calls in flight

ASSUME FlowAssumption ==
  /\ None \notin Domains
  /\ MaxChallenges \in Nat
  /\ MaxCalls \in Nat

VARIABLES
  status,       \* ProofState.status
  challenge,    \* domain, commitments and TXT record, which are set together
  proof,        \* the proof and its public signals, by what they were made from
  private,      \* privateRef.current
  session,      \* the entry in sessionStorage, or None
  calls,        \* the asynchronous calls of the mounted hook in flight
  late_saves,   \* what calls of unmounted hooks may still save
  asked         \* history: the challenges generated; the index of one stands
                \* for the random nonce and secret drawn for it

pageVars == <<status, challenge, proof, private, calls>>
flowVars == <<pageVars, session, late_saves, asked>>

Statuses ==
  {"idle", "challenge_generated", "dnssec_checking", "dnssec_found", "dnssec_error",
   "proving", "proof_error", "proof_ready", "submitting", "submit_error", "credential_issued"}

Keys == 1 .. MaxChallenges
ZeroKey == 0   \* the zeroed nonce and secret

(* A challenge commits to a domain and a wallet with a key; a proof is of  *)
(* a domain, with the DNSSEC material of, one hopes, the same domain.      *)
Challenge == [domain : Domains, wallet : Wallets, key : Keys]
Proof == [domain : Domains, wallet : Wallets, key : Keys, material : Domains]
NoKeys == [key |-> ZeroKey, wallet |-> None, material |-> None]
Saved == [status : Statuses, challenge : Challenge \cup {None}]

ASSUME NoneAssumption == None \notin Challenge /\ None \notin Proof

(* Under the least unused number, so that equal calls stay apart. *)
FreeIds(pending) == {i \in 1 .. MaxCalls : \A c \in pending : c.id # i}
NewId(pending) == CHOOSE i \in FreeIds(pending) : TRUE

Begin(content) ==
  /\ FreeIds(calls) # {}
  /\ calls' = calls \cup {[id |-> NewId(calls), of |-> content]}
End(c) == calls' = calls \ {c}

ChallengeCall(c) == [kind |-> "challenge", challenge |-> c]
DnssecCall(d) == [kind |-> "dnssec", domain |-> d]
ProveCall(p) == [kind |-> "prove", proof |-> p]

SetStatus(s, c) ==
  /\ status' = s
  /\ challenge' = c
  /\ session' = [status |-> s, challenge |-> c]

(* Does not save. *)
SetError(s) == status' = s /\ UNCHANGED <<challenge, session>>

------------------------------------------------------------------------------
(* buildInitialState. *)
AllStatuses == Statuses  \* restores whatever was saved
RestorableStatuses == {"idle", "challenge_generated"}
RestoredStatus ==
  IF session # None /\ session.status \in RestorableStatuses THEN session.status ELSE "idle"
RestoredChallenge == IF session = None THEN None ELSE session.challenge

Mount ==
  /\ status' = RestoredStatus
  /\ challenge' = RestoredChallenge
  /\ UNCHANGED <<proof, private, calls, session, late_saves, asked>>

(***************************************************************************)
(* What a call's answer saves when its hook is mounted no more: React may  *)
(* still run the state updater with the last state, and that saves.        *)
(***************************************************************************)
LateSave(c) ==
  CASE c.of.kind = "challenge" -> [status |-> "challenge_generated", challenge |-> c.of.challenge]
    [] c.of.kind = "dnssec" -> [status |-> "dnssec_found", challenge |-> challenge]
    [] c.of.kind = "prove" -> [status |-> "proof_ready", challenge |-> challenge]

Forget ==
  /\ status' = "idle"
  /\ challenge' = None
  /\ proof' = None
  /\ private' = NoKeys

Unmount ==
  /\ Forget
  /\ calls' = {}
  /\ late_saves' = late_saves \cup {LateSave(c) : c \in calls}
  /\ UNCHANGED <<session, asked>>

SaveLate ==
  /\ \E saved \in late_saves : session' = saved /\ late_saves' = late_saves \ {saved}
  /\ UNCHANGED <<pageVars, asked>>

(* A page load: only sessionStorage is left. *)
Reload ==
  /\ Forget
  /\ calls' = {}
  /\ late_saves' = {}
  /\ UNCHANGED <<session, asked>>

FlowInit ==
  /\ status = "idle"
  /\ challenge = None
  /\ proof = None
  /\ private = NoKeys
  /\ session = None
  /\ calls = {}
  /\ late_saves = {}
  /\ asked = <<>>

------------------------------------------------------------------------------
(* generateChallenge, up to its first await; the form is shown while idle. *)
GenerateChallenge(d) ==
  /\ status = "idle"
  /\ Len(asked) < MaxChallenges
  /\ LET key == Len(asked) + 1
         c == [domain |-> d, wallet |-> address, key |-> key]
     IN  /\ asked' = Append(asked, c)
         /\ private' = [key |-> key, wallet |-> address, material |-> None]
         /\ Begin(ChallengeCall(c))
  /\ UNCHANGED <<status, challenge, proof, session, late_saves>>

ChallengeDerived(c) ==
  /\ c.of.kind = "challenge"
  /\ SetStatus("challenge_generated", c.of.challenge)
  /\ End(c)
  /\ UNCHANGED <<proof, private, late_saves, asked>>

(* The hash function cannot be loaded; the rejection is not handled. *)
ChallengeFails(c) ==
  /\ c.of.kind = "challenge"
  /\ End(c)
  /\ UNCHANGED <<status, challenge, proof, private, session, late_saves, asked>>

CheckDNSSEC ==
  /\ status \in {"challenge_generated", "dnssec_error"}
  /\ \/ challenge = None /\ SetError("dnssec_error") /\ UNCHANGED calls
     \/ /\ challenge # None
        /\ SetStatus("dnssec_checking", challenge)
        /\ Begin(DnssecCall(challenge.domain))
  /\ UNCHANGED <<proof, private, late_saves, asked>>

DNSSECFound(c) ==
  /\ c.of.kind = "dnssec"
  /\ private' = [private EXCEPT !.material = c.of.domain]
  /\ SetStatus("dnssec_found", challenge)
  /\ End(c)
  /\ UNCHANGED <<proof, late_saves, asked>>

DNSSECFailureLost(c) ==  \* without the catch
  /\ c.of.kind = "dnssec"
  /\ End(c)
  /\ UNCHANGED <<status, challenge, session, proof, private, late_saves, asked>>

DNSSECFails(c) ==
  /\ c.of.kind = "dnssec"
  /\ SetError("dnssec_error")
  /\ End(c)
  /\ UNCHANGED <<proof, private, late_saves, asked>>

CanProveAnyKey == challenge # None /\ private.material # None  \* without the key check

(* The checks of generateProof; a wallet is missing only with the key. *)
CanProve ==
  /\ challenge # None
  /\ private.material # None
  /\ private.key # ZeroKey
  /\ private.wallet # None

GenerateProof ==
  /\ status \in {"dnssec_found", "proof_error"}
  /\ \/ ~CanProve /\ SetError("proof_error") /\ UNCHANGED calls
     \/ /\ CanProve
        /\ SetStatus("proving", challenge)
        /\ Begin(ProveCall([domain |-> challenge.domain, wallet |-> private.wallet,
                            key |-> private.key, material |-> private.material]))
  /\ UNCHANGED <<proof, private, late_saves, asked>>

ProofArrives(c) ==
  /\ c.of.kind = "prove"
  /\ SetStatus("proof_ready", challenge)
  /\ proof' = c.of.proof
  /\ End(c)
  /\ UNCHANGED <<private, late_saves, asked>>

ProofFails(c) ==
  /\ c.of.kind = "prove"
  /\ SetError("proof_error")
  /\ End(c)
  /\ UNCHANGED <<proof, private, late_saves, asked>>

(* reset; its button is shown beside a challenge.  Calls stay in flight. *)
Reset ==
  /\ status # "idle"
  /\ challenge # None
  /\ Forget
  /\ session' = None
  /\ UNCHANGED <<calls, late_saves, asked>>
==============================================================================
