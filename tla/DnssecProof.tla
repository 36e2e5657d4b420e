------------------------------ MODULE DnssecProof ------------------------------
(***************************************************************************)
(* The zkVM program between a zone that signs record sets and a verifier   *)
(* that learns one bit: any name, signature data and records may be put    *)
(* before it.  Signatures are ideal: one verifies with the key it was made *)
(* with for the message the zone signed, and for no other.                 *)
(***************************************************************************)
EXTENDS RrsetMessage, FiniteSets

CONSTANTS
  Keys,         \* public keys
  Points,       \* those that are points of P-256 in SEC1 form
  Compact,      \* those whose signatures have the form of P-256's
  Signings,     \* what the zone may sign at a time: a record set with some keys
  NoRun,
  MaxSigned,    \* bound on the signatures made
  MaxRecords    \* bound on the records put before the program

ASSUME ProofAssumption ==
  /\ Points \subseteq Compact /\ Compact \subseteq Keys
  /\ MaxSigned \in Nat /\ MaxRecords \in Nat \ {0}

VARIABLES
  zone,    \* the record sets the zone has signed, each with the key that signed it
  run      \* the call of verify_rrsig, or NoRun

vars == <<zone, run>>

Canonical(labels) == Lowercase(labels) = labels
Owners == {labels \in SeqOf(Labels, MaxLabels) : Canonical(labels) /\ Emittable(labels)}
CanonicalOrders ==
  {rdata \in SeqOf(Rdata, MaxRecords) \ {<<>>} :
     \A i, j \in DOMAIN rdata : i < j => rdata[i] < rdata[j]}

SignedSets ==
  [owner : Owners, rdata : CanonicalOrders, terms : Terms, key : Keys,
   signer : {labels \in Signers : Canonical(labels) /\ Emittable(labels)}]

(* What RFC 4034 has a zone sign. *)
SignedFields(s) ==
  [terms |-> s.terms, num_labels |-> NumLabels(s.owner), signer_name |-> s.signer]
SignedData(s) ==
  [sig |-> SignedFields(s),
   rrs |-> [i \in DOMAIN s.rdata |-> [owner |-> s.owner, terms |-> s.terms, rdata |-> s.rdata[i]]]]

ASSUME SigningAssumption == Signings \subseteq SUBSET SignedSets
ASSUME PanickedAssumption == \A s \in SignedSets : SignedData(s) # Panicked

ResultForAnyKey(key, name, sig, records, s) ==  \* looks at no key
  IF ConstructMessage(name, sig, records) = SignedData(s) THEN "valid" ELSE "invalid"

(* No key of another algorithm parses; a signature may, when it is as long. *)
Result(key, name, sig, records, s) ==
  LET message == ConstructMessage(name, sig, records)
  IN  CASE message = Panicked \/ key \notin Points \/ s.key \notin Compact -> "panicked"
        [] OTHER -> IF message = SignedData(s) /\ key = s.key THEN "valid" ELSE "invalid"

Runs ==
  [key : Keys, name : Names, sig : Sig, records : SeqOf(Rdata, MaxRecords), of : SignedSets,
   result : {"valid", "invalid", "panicked"}]

ASSUME NoRunAssumption == NoRun \notin Runs

Init == zone = {} /\ run = NoRun

Sign(sets) ==
  /\ Cardinality(zone \cup sets) <= MaxSigned
  /\ zone' = zone \cup sets
  /\ UNCHANGED run

(* With the signature of s; the program's main passes a single record. *)
VerifyRrsig(key, name, sig, records, s) ==
  /\ run' = [key |-> key, name |-> name, sig |-> sig, records |-> records, of |-> s,
             result |-> Result(key, name, sig, records, s)]
  /\ UNCHANGED zone

Return == run # NoRun /\ run' = NoRun /\ UNCHANGED zone

Next ==
  \/ \E sets \in Signings : Sign(sets)
  \/ /\ run = NoRun
     /\ \E key \in Keys, name \in Names, sig \in Sig,
           records \in SeqOf(Rdata, MaxRecords), s \in zone :
          VerifyRrsig(key, name, sig, records, s)
  \/ Return

Spec == Init /\ [][Next]_vars

------------------------------------------------------------------------------
(* The zone signs record sets, and the program is given what it can parse. *)
TypeOK ==
  /\ zone \subseteq SignedSets
  /\ run \in {NoRun} \cup Runs
  /\ run # NoRun => run.of \in zone

(***************************************************************************)
(* RFC 4592: a zone answers for an owner, in any case, and for every name  *)
(* below a wildcard.                                                       *)
(***************************************************************************)
Covers(owner, labels) ==
  \/ Lowercase(labels) = owner
  \/ /\ owner # <<>> /\ owner[1] = Star
     /\ Len(labels) >= Len(owner)
     /\ \A i \in 2 .. Len(owner) : ToLower[labels[Len(labels) - Len(owner) + i]] = owner[i]

(* A signature made for s: the case of its signer's name says nothing. *)
CarriesFields(sig, s) ==
  /\ sig.terms = s.terms
  /\ sig.num_labels = NumLabels(s.owner)
  /\ Lowercase(sig.signer_name) = s.signer

(***************************************************************************)
(* The bit is not set for anything else than what the zone signed: for a   *)
(* name the signed owner covers, the records signed, all and in their      *)
(* order, under the terms and for the signer signed, and with the key that *)
(* signed.                                                                 *)
(***************************************************************************)
OnlyTheSignedIsValid ==
  run # NoRun /\ run.result = "valid" =>
    /\ Covers(run.of.owner, run.name.labels)
    /\ run.records = run.of.rdata
    /\ CarriesFields(run.sig, run.of)
    /\ run.key = run.of.key

IsGenuine ==
  /\ CarriesFields(run.sig, run.of)
  /\ Covers(run.of.owner, run.name.labels)
  /\ run.key = run.of.key /\ run.key \in Points
  /\ run.records = run.of.rdata

(***************************************************************************)
(* What the zone signed is valid when the signer's name is in lower case,  *)
(* whatever name it covers was asked for: the signed name is found again   *)
(* behind cases and wildcards, below names so long that they cannot be     *)
(* written themselves, and nothing panics.                                 *)
(***************************************************************************)
GenuineIsValid ==
  run # NoRun /\ IsGenuine /\ Canonical(run.sig.signer_name) => run.result = "valid"

(***************************************************************************)
(* message.rs says that the signer's name is taken in canonical form: a    *)
(* genuine signature would be valid in whatever case its signer's name     *)
(* comes.                                                                  *)
(***************************************************************************)
DocSignerIsCanonical ==
  run # NoRun /\ IsGenuine => run.result = "valid"
==============================================================================
