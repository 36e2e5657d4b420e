---------------------------- MODULE DnssecTheorems ----------------------------
(***************************************************************************)
(* Proofs that the zkVM program sets its bit only for what the zone signed *)
(* and finds the signed name again, for any labels and any names.          *)
(***************************************************************************)
EXTENDS DnssecProof, TLAPS

USE NameAssumption, FailedAssumption, MessageAssumption, ProofAssumption

LEMMA BoundedSequences ==
  ASSUME NEW S, NEW bound \in Nat, NEW s \in SeqOf(S, bound)
  PROVE  s \in Seq(S) /\ Len(s) \in 0 .. bound
BY DEF SeqOf

LEMMA LowercaseLabels ==
  ASSUME NEW labels \in Seq(Labels)
  PROVE  /\ Lowercase(labels) \in Seq(Labels)
         /\ Len(Lowercase(labels)) = Len(labels)
         /\ \A i \in 1 .. Len(labels) : Lowercase(labels)[i] = ToLower[labels[i]]
<1>1. DOMAIN labels = 1 .. Len(labels) /\ Len(labels) \in Nat
  OBVIOUS
<1>2. \A i \in 1 .. Len(labels) : labels[i] \in Labels
  OBVIOUS
<1>3. Lowercase(labels) = [i \in 1 .. Len(labels) |-> ToLower[labels[i]]]
  BY <1>1 DEF Lowercase
<1>4. Lowercase(labels) \in [1 .. Len(labels) -> Labels]
  BY <1>2, <1>3
<1>5. Lowercase(labels) \in Seq(Labels) /\ Len(Lowercase(labels)) = Len(labels)
  <2>1. ASSUME NEW m \in Nat, NEW f \in [1 .. m -> Labels]
        PROVE  f \in Seq(Labels) /\ Len(f) = m
    OBVIOUS
  <2> QED
    BY <1>1, <1>4, <2>1, Zenon
<1> QED
  BY <1>3, <1>5

LEMMA StarLabels ==
  ASSUME NEW suffix \in Seq(Labels)
  PROVE  /\ <<Star>> \o suffix \in Seq(Labels)
         /\ Len(<<Star>> \o suffix) = Len(suffix) + 1
         /\ (<<Star>> \o suffix)[1] = Star
         /\ \A i \in 2 .. Len(suffix) + 1 : (<<Star>> \o suffix)[i] = suffix[i - 1]
<1>1. <<Star>> \in Seq(Labels) /\ Len(<<Star>>) = 1 /\ <<Star>>[1] = Star
  OBVIOUS
<1>2. Len(<<Star>> \o suffix) = Len(suffix) + 1
  BY <1>1
<1>3. <<Star>> \o suffix \in Seq(Labels)
  BY <1>1
<1>4. (<<Star>> \o suffix)[1] = Star
  BY <1>1
<1>5. ASSUME NEW i \in 2 .. Len(suffix) + 1
      PROVE  (<<Star>> \o suffix)[i] = suffix[i - 1]
  BY <1>1
<1> QED
  BY <1>2, <1>3, <1>4, <1>5

LEMMA NumLabelsOf ==
  ASSUME NEW labels \in Seq(Labels)
  PROVE  /\ NumLabels(labels) \in Nat
         /\ labels # <<>> /\ labels[1] = Star => NumLabels(labels) = Len(labels) - 1
         /\ ~(labels # <<>> /\ labels[1] = Star) => NumLabels(labels) = Len(labels)
BY DEF NumLabels

LEMMA SameLabels ==
  ASSUME NEW s \in Seq(Labels), NEW t \in Seq(Labels), Len(s) = Len(t),
         \A i \in 1 .. Len(t) : s[i] = t[i]
  PROVE  s = t
<1>1. DOMAIN s = DOMAIN t /\ DOMAIN t = 1 .. Len(t)
  OBVIOUS
<1>2. s = [i \in DOMAIN s |-> s[i]] /\ t = [i \in DOMAIN t |-> t[i]]
  OBVIOUS
<1> QED
  BY <1>1, <1>2

LEMMA SuffixLabels ==
  ASSUME NEW labels \in Seq(Labels), NEW n \in Nat, n < Len(labels),
         NEW suffix, suffix = SubSeq(labels, Len(labels) - n + 1, Len(labels))
  PROVE  /\ suffix \in Seq(Labels)
         /\ Len(suffix) = n
         /\ \A i \in 1 .. n : suffix[i] = labels[Len(labels) - n + i]
<1>1. Len(suffix) = n
  OBVIOUS
<1>2. \A i \in 1 .. n : suffix[i] = labels[Len(labels) - n + i]
  OBVIOUS
<1>3. suffix \in Seq(Labels)
  OBVIOUS
<1> QED
  BY <1>1, <1>2, <1>3

(* A name with more labels than were signed is a wildcard's. *)
LEMMA WildcardLabels ==
  ASSUME NEW name \in AnyName, NEW n \in Nat, n < NumLabels(name.labels),
         DetermineName(name, n) # Failed
  PROVE  \E suffix \in Seq(Labels) :
           /\ DetermineName(name, n).labels = <<Star>> \o suffix
           /\ Len(suffix) = n
           /\ n < Len(name.labels)
           /\ \A i \in 1 .. n : suffix[i] = name.labels[Len(name.labels) - n + i]
<1> DEFINE labels == name.labels
           suffix == SubSeq(labels, Len(labels) - n + 1, Len(labels))
<1>1. labels \in Seq(Labels)
  BY BoundedSequences DEF AnyName
<1>2. n < Len(labels)
  BY <1>1 DEF NumLabels
<1>3. TrimTo(name, n) = [labels |-> suffix, is_fqdn |-> TRUE]
  BY <1>1, <1>2 DEF TrimTo, FromLabels
<1>4. /\ suffix \in Seq(Labels)
      /\ Len(suffix) = n
      /\ \A i \in 1 .. n : suffix[i] = labels[Len(labels) - n + i]
  BY <1>1, <1>2, SuffixLabels
<1>5. DetermineName(name, n) = WildcardOf(name, n)
  BY DEF DetermineName
<1> HIDE DEF suffix
<1>6. CASE IsRoot(TrimTo(name, n))
  <2>1. suffix = <<>>
    BY <1>3, <1>6 DEF IsRoot
  <2>2. <<Star>> \o <<>> = <<Star>>
    OBVIOUS
  <2>3. DetermineName(name, n).labels = <<Star>>
    BY <1>5, <1>6 DEF WildcardOf, FromLabels
  <2>4. DetermineName(name, n).labels = <<Star>> \o suffix
    BY <2>1, <2>2, <2>3
  <2> QED
    BY <1>2, <1>4, <2>4, Zenon
<1>7. CASE ~IsRoot(TrimTo(name, n))
  <2> DEFINE star_name == FromLabels(<<Star>>)
  <2>1. DetermineName(name, n) = AppendName(star_name, TrimTo(name, n))
    BY <1>5, <1>7 DEF WildcardOf
  <2>2. AppendName(star_name, TrimTo(name, n)).labels = star_name.labels \o TrimTo(name, n).labels
    BY <2>1 DEF AppendName
  <2>3. star_name.labels = <<Star>>
    BY DEF FromLabels
  <2>4. TrimTo(name, n).labels = suffix
    BY <1>3
  <2> HIDE DEF star_name
  <2>5. DetermineName(name, n).labels = <<Star>> \o suffix
    BY <2>1, <2>2, <2>3, <2>4
  <2> QED
    BY <1>2, <1>4, <2>5
<1> QED
  BY <1>6, <1>7

(* The name determined covers the name it was determined for. *)
LEMMA DeterminedCovers ==
  ASSUME NEW name \in AnyName, NEW n \in Nat, DetermineName(name, n) # Failed
  PROVE  Covers(Lowercase(DetermineName(name, n).labels), name.labels)
<1> DEFINE labels == name.labels
<1>1. labels \in Seq(Labels)
  BY BoundedSequences DEF AnyName
<1>2. CASE NumLabels(labels) = n
  BY <1>1, <1>2 DEF DetermineName, Covers
<1>3. CASE n < NumLabels(labels)
  <2>1. PICK suffix \in Seq(Labels) :
          /\ DetermineName(name, n).labels = <<Star>> \o suffix
          /\ Len(suffix) = n
          /\ n < Len(labels)
          /\ \A i \in 1 .. n : suffix[i] = labels[Len(labels) - n + i]
    BY <1>3, WildcardLabels
  <2> DEFINE owner == Lowercase(<<Star>> \o suffix)
  <2>2. /\ Len(owner) = n + 1
        /\ owner # <<>>
        /\ owner[1] = Star
        /\ \A i \in 2 .. n + 1 : owner[i] = ToLower[suffix[i - 1]]
    <3>1. /\ <<Star>> \o suffix \in Seq(Labels)
          /\ Len(<<Star>> \o suffix) = n + 1
          /\ (<<Star>> \o suffix)[1] = Star
          /\ \A i \in 2 .. n + 1 : (<<Star>> \o suffix)[i] = suffix[i - 1]
      BY <2>1, StarLabels
    <3>2. /\ Len(owner) = n + 1
          /\ \A i \in 1 .. n + 1 : owner[i] = ToLower[(<<Star>> \o suffix)[i]]
      BY <3>1, LowercaseLabels
    <3> HIDE DEF owner
    <3>3. n + 1 > 0 /\ owner # <<>>
      BY <3>2
    <3>4. owner[1] = Star
      BY <3>1, <3>2, <3>3
    <3>5. ASSUME NEW i \in 2 .. n + 1
          PROVE  owner[i] = ToLower[suffix[i - 1]]
      <4>1. i \in 1 .. n + 1
        OBVIOUS
      <4>2. owner[i] = ToLower[(<<Star>> \o suffix)[i]]
        BY <3>2, <4>1
      <4>3. (<<Star>> \o suffix)[i] = suffix[i - 1]
        BY <3>1
      <4> QED
        BY <4>2, <4>3, Zenon
    <3> QED
      BY <3>2, <3>3, <3>4, <3>5
  <2> HIDE DEF owner
  <2>3. ASSUME NEW i \in 2 .. n + 1
        PROVE  ToLower[labels[Len(labels) - (n + 1) + i]] = owner[i]
    <3>1. i - 1 \in 1 .. n /\ Len(labels) - n + (i - 1) = Len(labels) - (n + 1) + i
      BY <1>1
    <3>2. suffix[i - 1] = labels[Len(labels) - n + (i - 1)]
      BY <2>1, <3>1
    <3>3. owner[i] = ToLower[suffix[i - 1]]
      BY <2>2
    <3> HIDE DEF labels
    <3> QED
      BY <3>1, <3>2, <3>3
  <2>4. Covers(owner, labels)
    BY <1>1, <2>1, <2>2, <2>3 DEF Covers
  <2> QED
    BY <2>1, <2>4 DEF owner
<1>4. CASE ~(NumLabels(labels) = n \/ n < NumLabels(labels))
  BY <1>4 DEF DetermineName
<1> QED
  BY <1>2, <1>3, <1>4

LEMMA SequenceIsBounded ==
  ASSUME NEW S, NEW bound \in Nat, NEW s \in Seq(S), Len(s) <= bound
  PROVE  s \in SeqOf(S, bound)
BY DEF SeqOf

(***************************************************************************)
(* Case does not change the size of a name: an owner that can be written   *)
(* can be written in any case.                                             *)
(***************************************************************************)
LEMMA CaseKeepsSize ==
  ASSUME NEW labels \in Seq(Labels)
  PROVE  WireSize(Lowercase(labels)) = WireSize(labels)
<1>1. DOMAIN labels = 1 .. Len(labels) /\ \A i \in DOMAIN labels : labels[i] \in Labels
  OBVIOUS
<1>2. /\ DOMAIN Lowercase(labels) = DOMAIN labels
      /\ \A i \in DOMAIN labels : Lowercase(labels)[i] = ToLower[labels[i]]
  BY DEF Lowercase
<1>3. WireSizes(Lowercase(labels)) = WireSizes(labels)
  BY <1>1, <1>2, CaseAssumption DEF WireSizes
<1> QED
  BY <1>3 DEF WireSize

(***************************************************************************)
(* The converse: behind any case and below a wildcard the signed owner is  *)
(* found again, and always: the name found has the size of the owner, so   *)
(* that it is not too long with the star, and can be written even where    *)
(* the name itself cannot.                                                 *)
(***************************************************************************)
THEOREM OwnerIsRestored ==
  ASSUME NEW owner \in Seq(Labels), Emittable(owner),
         NEW name \in AnyName, Covers(owner, name.labels)
  PROVE  /\ DetermineName(name, NumLabels(owner)) # Failed
         /\ Lowercase(DetermineName(name, NumLabels(owner)).labels) = owner
         /\ Emittable(DetermineName(name, NumLabels(owner)).labels)
<1>1. PICK labels \in Seq(Labels) : labels = name.labels /\ Len(labels) <= MaxLabels
  BY BoundedSequences DEF AnyName
<1>2. PICK n \in Nat : n = NumLabels(owner)
  BY NumLabelsOf
<1>3. NumLabels(labels) \in {Len(labels), Len(labels) - 1} /\ NumLabels(labels) \in Nat
  BY NumLabelsOf
<1>4. name # Failed
  BY FailedAssumption
<1>5. CASE Lowercase(labels) = owner
  <2>1. Len(owner) = Len(labels) /\ \A i \in 1 .. Len(labels) : owner[i] = ToLower[labels[i]]
    BY <1>5, LowercaseLabels
  <2>2. labels # <<>> => (labels[1] = Star <=> owner[1] = Star)
    <3>1. labels # <<>> => 1 \in 1 .. Len(labels) /\ labels[1] \in Labels
      OBVIOUS
    <3>2. labels # <<>> => owner[1] = ToLower[labels[1]]
      BY <2>1, <3>1
    <3> QED
      BY <3>1, <3>2
  <2>3. labels # <<>> <=> owner # <<>>
    BY <2>1
  <2>4. NumLabels(labels) = n
    <3>1. CASE owner # <<>> /\ owner[1] = Star
      BY <1>2, <2>1, <2>2, <2>3, <3>1, NumLabelsOf
    <3>2. CASE ~(owner # <<>> /\ owner[1] = Star)
      BY <1>2, <2>1, <2>2, <2>3, <3>2, NumLabelsOf
    <3> QED
      BY <3>1, <3>2
  <2>5. DetermineName(name, n) = name
    BY <1>1, <2>4 DEF DetermineName
  <2>6. Emittable(labels)
    BY <1>5, CaseKeepsSize DEF Emittable
  <2> QED
    BY <1>1, <1>2, <1>5, <1>4, <2>5, <2>6
<1>6. CASE /\ owner # <<>> /\ owner[1] = Star
           /\ Len(labels) >= Len(owner)
           /\ \A i \in 2 .. Len(owner) : ToLower[labels[Len(labels) - Len(owner) + i]] = owner[i]
  <2>1. n = Len(owner) - 1
    BY <1>2, <1>6, NumLabelsOf
  <2>2. CASE NumLabels(labels) = n
    <3>1. Len(labels) = Len(owner) /\ labels[1] = Star
      BY <1>6, <2>1, <2>2, NumLabelsOf
    <3>2. ASSUME NEW i \in 1 .. Len(owner)
          PROVE  ToLower[labels[i]] = owner[i]
      <4>1. CASE i = 1
        BY <1>6, <3>1, <4>1
      <4>2. CASE i # 1
        <5>1. i \in 2 .. Len(owner) /\ Len(labels) - Len(owner) + i = i
          <6>1. \A k \in Nat, j \in Int : j \in 1 .. k /\ j # 1 => j \in 2 .. k /\ k - k + j = j
            OBVIOUS
          <6>2. Len(owner) \in Nat /\ Len(labels) = Len(owner) /\ i \in Int /\ i # 1
            BY <3>1, <4>2
          <6> QED
            BY <6>1, <6>2
        <5>2. ToLower[labels[Len(labels) - Len(owner) + i]] = owner[i]
          BY <1>6, <5>1
        <5> QED
          BY <5>1, <5>2
      <4> QED
        BY <4>1, <4>2
    <3>3. Lowercase(labels) = owner
      BY <3>1, <3>2, LowercaseLabels, SameLabels
    <3>4. DetermineName(name, n) = name
      BY <1>1, <2>2 DEF DetermineName
    <3>5. Emittable(labels)
      BY <3>3, CaseKeepsSize DEF Emittable
    <3> QED
      BY <1>1, <1>2, <1>4, <3>3, <3>4, <3>5
  <2>3. CASE n < NumLabels(labels)
    <3>1. n < Len(labels)
      BY <1>3, <2>3
    <3> DEFINE suffix == SubSeq(labels, Len(labels) - n + 1, Len(labels))
               found == <<Star>> \o suffix
    <3>2. /\ suffix \in Seq(Labels) /\ Len(suffix) = n
          /\ \A i \in 1 .. n : suffix[i] = labels[Len(labels) - n + i]
      BY <3>1, SuffixLabels
    <3>3. TrimTo(name, n) = FromLabels(suffix)
      BY <1>1, <3>1 DEF TrimTo
    <3> HIDE DEF suffix
    <3>4. /\ found \in Seq(Labels) /\ Len(found) = Len(owner) /\ found[1] = Star
          /\ \A i \in 2 .. Len(owner) : found[i] = suffix[i - 1]
      <4>1. /\ <<Star>> \o suffix \in Seq(Labels)
            /\ Len(<<Star>> \o suffix) = Len(suffix) + 1
            /\ (<<Star>> \o suffix)[1] = Star
            /\ \A i \in 2 .. Len(suffix) + 1 : (<<Star>> \o suffix)[i] = suffix[i - 1]
        BY <3>2, StarLabels
      <4>2. Len(suffix) + 1 = Len(owner)
        BY <2>1, <3>2
      <4> QED
        BY <4>1, <4>2, Zenon
    <3> HIDE DEF found
    <3>5. ASSUME NEW i \in 1 .. Len(owner)
          PROVE  ToLower[found[i]] = owner[i]
      <4>1. CASE i = 1
        BY <1>6, <3>4, <4>1
      <4>2. CASE i # 1
        <5>1. /\ i - 1 \in 1 .. n
              /\ Len(labels) - n + (i - 1) = Len(labels) - Len(owner) + i
              /\ i \in 2 .. Len(owner)
          BY <2>1, <4>2
        <5>2. ToLower[labels[Len(labels) - Len(owner) + i]] = owner[i]
          BY <1>6, <5>1
        <5>3. found[i] = suffix[i - 1] /\ suffix[i - 1] = labels[Len(labels) - n + (i - 1)]
          BY <3>2, <3>4, <5>1
        <5> QED
          BY <5>1, <5>2, <5>3
      <4> QED
        BY <4>1, <4>2
    <3>6. Lowercase(found) = owner
      <4>1. /\ Lowercase(found) \in Seq(Labels)
            /\ Len(Lowercase(found)) = Len(owner)
            /\ \A i \in 1 .. Len(owner) : Lowercase(found)[i] = ToLower[found[i]]
        BY <3>4, LowercaseLabels
      <4> QED
        BY <3>5, <4>1, SameLabels
    <3>7. NameLen(found) \in 0 .. MAX_NAME
      <4>1. WireSize(found) = WireSize(owner)
        BY <3>4, <3>6, CaseKeepsSize
      <4>2. found # <<>>
        BY <1>6, <3>4
      <4> QED
        BY <4>1, <4>2 DEF NameLen, Emittable
    <3>8. \A fqdn \in BOOLEAN : [labels |-> found, is_fqdn |-> fqdn] # Failed
      <4>1. found \in SeqOf(Labels, MaxLabels)
        BY <1>1, <1>6, <3>4, SequenceIsBounded
      <4> QED
        BY <4>1 DEF AnyName
    <3>9. DetermineName(name, n) = WildcardOf(name, n)
      BY <1>1, <1>3, <2>3 DEF DetermineName
    <3>10. Emittable(found)
      BY <3>4, <3>6, CaseKeepsSize DEF Emittable
    <3>11. ASSUME IsRoot(FromLabels(suffix))
           PROVE  WildcardOf(name, n) = [labels |-> found, is_fqdn |-> TRUE]
      <4>1. suffix = <<>>
        BY <3>11 DEF IsRoot, FromLabels
      <4>2. <<Star>> \o <<>> = <<Star>>
        OBVIOUS
      <4>3. WildcardOf(name, n) = FromLabels(<<Star>>)
        BY <3>3, <3>11 DEF WildcardOf
      <4> QED
        BY <4>1, <4>2, <4>3 DEF found, FromLabels
    <3>12. ASSUME ~IsRoot(FromLabels(suffix))
           PROVE  WildcardOf(name, n) = [labels |-> found, is_fqdn |-> TRUE]
      <4>1. WildcardOf(name, n) = AppendName(FromLabels(<<Star>>), FromLabels(suffix))
        BY <3>3, <3>12 DEF WildcardOf
      <4>2. /\ FromLabels(<<Star>>).labels \o FromLabels(suffix).labels = found
            /\ FromLabels(suffix).is_fqdn = TRUE
        BY DEF FromLabels, found
      <4>3. AppendName(FromLabels(<<Star>>), FromLabels(suffix))
              = [labels |-> found, is_fqdn |-> TRUE]
        <5>1. ~(NameLen(FromLabels(<<Star>>).labels \o FromLabels(suffix).labels) > MAX_NAME)
          <6>1. \A size \in 0 .. MAX_NAME : ~(size > MAX_NAME)
            BY MAX_NAME \in Nat
          <6>2. ~(NameLen(found) > MAX_NAME)
            BY <3>7, <6>1
          <6> QED
            BY <4>2, <6>2, Zenon
        <5> QED
          BY <4>2, <5>1, Zenon DEF AppendName
      <4> QED
        BY <4>1, <4>3
    <3>13. DetermineName(name, NumLabels(owner)) = [labels |-> found, is_fqdn |-> TRUE]
      BY <1>2, <3>9, <3>11, <3>12
    <3>14. DetermineName(name, NumLabels(owner)).labels = found
      BY <3>13
    <3>15. DetermineName(name, NumLabels(owner)) # Failed
      BY <3>8, <3>13
    <3> QED
      BY <3>6, <3>10, <3>14, <3>15
  <2>4. n <= NumLabels(labels)
    BY <1>3, <1>6, <2>1
  <2> QED
    BY <1>3, <2>2, <2>3, <2>4
<1> QED
  BY <1>1, <1>5, <1>6 DEF Covers

------------------------------------------------------------------------------
RunOf ==
  run # NoRun =>
    /\ run.of \in SignedSets
    /\ run.name \in AnyName
    /\ run.sig \in Sig
    /\ run.records \in Seq(Rdata)
    /\ run.result = Result(run.key, run.name, run.sig, run.records, run.of)

RunInv == RunOf /\ zone \subseteq SignedSets

LEMMA ValidIsSigned == RunOf => OnlyTheSignedIsValid
<1> SUFFICES ASSUME RunOf, run # NoRun, run.result = "valid"
             PROVE  /\ Covers(run.of.owner, run.name.labels)
                    /\ run.records = run.of.rdata
                    /\ CarriesFields(run.sig, run.of)
                    /\ run.key = run.of.key
  BY DEF OnlyTheSignedIsValid
<1> DEFINE message == ConstructMessage(run.name, run.sig, run.records)
           owner == DetermineName(run.name, run.sig.num_labels)
<1>1. message # Panicked /\ message = SignedData(run.of) /\ run.key = run.of.key
  BY DEF RunOf, Result
<1>2. /\ owner # Failed
      /\ message = [sig |-> run.sig,
                    rrs |-> [i \in DOMAIN run.records |->
                              [owner |-> RecordOwner(owner, run.sig), terms |-> run.sig.terms,
                               rdata |-> run.records[i]]]]
  BY <1>1 DEF ConstructMessage
<1>3. CarriesFields(run.sig, run.of)
  <2>1. run.sig = SignedFields(run.of)
    BY <1>1, <1>2 DEF SignedData
  <2>2. Lowercase(run.of.signer) = run.of.signer
    BY DEF RunOf, SignedSets, Canonical
  <2> QED
    BY <2>1, <2>2 DEF SignedFields, CarriesFields
<1>4. [i \in DOMAIN run.records |-> [owner |-> RecordOwner(owner, run.sig),
                                     terms |-> run.sig.terms, rdata |-> run.records[i]]]
        = [i \in DOMAIN run.of.rdata |-> [owner |-> run.of.owner, terms |-> run.of.terms,
                                          rdata |-> run.of.rdata[i]]]
  BY <1>1, <1>2 DEF SignedData
<1> HIDE DEF message, owner
<1>5. DOMAIN run.records = DOMAIN run.of.rdata
  BY <1>4
<1>6. \A i \in DOMAIN run.records : /\ run.records[i] = run.of.rdata[i]
                                    /\ RecordOwner(owner, run.sig) = run.of.owner
  BY <1>4, <1>5
<1>7. run.of.rdata \in Seq(Rdata) /\ 1 \in DOMAIN run.of.rdata
  <2>1. run.of.rdata \in SeqOf(Rdata, MaxRecords) /\ run.of.rdata # <<>>
    BY DEF RunOf, SignedSets, CanonicalOrders
  <2> QED
    BY <2>1, BoundedSequences, MaxRecords \in Nat
<1>8. run.records = run.of.rdata
  BY <1>5, <1>6, <1>7 DEF RunOf
<1>9. Covers(run.of.owner, run.name.labels)
  <2>1. run.sig.num_labels \in Nat
    BY DEF RunOf, Sig
  <2>2. Lowercase(owner.labels) = run.of.owner
    BY <1>5, <1>6, <1>7 DEF RecordOwner
  <2> QED
    BY <1>2, <2>1, <2>2, DeterminedCovers DEF RunOf, owner
<1> QED
  BY <1>1, <1>3, <1>8, <1>9

LEMMA GenuineRunIsValid == RunOf => GenuineIsValid
<1> SUFFICES ASSUME RunOf, run # NoRun, IsGenuine, Canonical(run.sig.signer_name)
             PROVE  run.result = "valid"
  BY DEF GenuineIsValid
<1> DEFINE owner == DetermineName(run.name, run.sig.num_labels)
<1>1. /\ run.of.owner \in Seq(Labels) /\ Emittable(run.of.owner)
      /\ Emittable(run.of.signer)
  BY BoundedSequences DEF RunOf, SignedSets, Owners
<1>2. run.sig = SignedFields(run.of) /\ run.sig.num_labels = NumLabels(run.of.owner)
  <2>1. /\ run.sig.terms = run.of.terms
        /\ run.sig.num_labels = NumLabels(run.of.owner)
        /\ run.sig.signer_name = run.of.signer
    BY DEF IsGenuine, CarriesFields, Canonical
  <2>2. run.sig \in [terms : Terms, num_labels : 0 .. MaxLabels, signer_name : Signers]
    BY DEF RunOf, Sig
  <2> QED
    BY <2>1, <2>2 DEF SignedFields
<1>3. /\ owner # Failed
      /\ Lowercase(owner.labels) = run.of.owner
      /\ Emittable(owner.labels)
  BY <1>1, <1>2, OwnerIsRestored DEF RunOf, IsGenuine
<1>4. RecordOwner(owner, run.sig) = run.of.owner
  BY <1>3 DEF RecordOwner
<1>5. run.sig.signer_name = run.of.signer /\ run.sig.terms = run.of.terms
  BY <1>2 DEF SignedFields
<1>6. ConstructMessage(run.name, run.sig, run.records)
        = [sig |-> run.sig,
           rrs |-> [i \in DOMAIN run.records |->
                     [owner |-> RecordOwner(owner, run.sig), terms |-> run.sig.terms,
                      rdata |-> run.records[i]]]]
  <2> DEFINE built == [sig |-> run.sig,
                       rrs |-> [i \in DOMAIN run.records |->
                                 [owner |-> RecordOwner(owner, run.sig),
                                  terms |-> run.sig.terms, rdata |-> run.records[i]]]]
             refused == \/ owner = Failed
                        \/ ~Emittable(run.sig.signer_name)
                        \/ run.records # <<>> /\ ~Emittable(owner.labels)
  <2>1. ConstructMessage(run.name, run.sig, run.records) = IF refused THEN Panicked ELSE built
    BY DEF ConstructMessage
  <2>2. ~refused
    <3>1. Emittable(run.sig.signer_name)
      BY <1>1, <1>5, Zenon
    <3> HIDE DEF owner
    <3> QED
      BY <1>3, <3>1, Zenon
  <2> HIDE DEF built, refused
  <2>3. ConstructMessage(run.name, run.sig, run.records) = built
    BY <2>1, <2>2
  <2> QED
    BY <2>3 DEF built
<1>7. ConstructMessage(run.name, run.sig, run.records) = SignedData(run.of)
  <2>1. run.records = run.of.rdata
    BY DEF IsGenuine
  <2> HIDE DEF owner
  <2> QED
    BY <1>2, <1>4, <1>5, <1>6, <2>1 DEF SignedData
<1>8. SignedData(run.of) # Panicked
  BY PanickedAssumption DEF RunOf
<1>9. Result(run.key, run.name, run.sig, run.records, run.of) = "valid"
  <2>1. run.key = run.of.key /\ run.key \in Points /\ run.key \in Compact
    BY ProofAssumption DEF IsGenuine
  <2> QED
    BY <1>7, <1>8, <2>1 DEF Result
<1> QED
  BY <1>9 DEF RunOf

LEMMA StepRuns == RunInv /\ [Next]_vars => RunInv'
<1> SUFFICES ASSUME RunOf, zone \subseteq SignedSets, [Next]_vars
             PROVE  RunOf' /\ zone' \subseteq SignedSets
  BY DEF RunInv
<1>1. ASSUME NEW sets \in Signings, Sign(sets)
      PROVE  RunOf' /\ zone' \subseteq SignedSets
  <2>1. sets \subseteq SignedSets
    BY SigningAssumption
  <2> QED
    BY <1>1, <2>1 DEF Sign, RunOf
<1>2. ASSUME NEW key \in Keys, NEW name \in Names, NEW sig \in Sig,
             NEW records \in SeqOf(Rdata, MaxRecords), NEW s \in zone,
             VerifyRrsig(key, name, sig, records, s)
      PROVE  RunOf' /\ zone' \subseteq SignedSets
  <2>1. records \in Seq(Rdata)
    BY BoundedSequences
  <2> QED
    BY <1>2, <2>1 DEF VerifyRrsig, RunOf, Names
<1>3. CASE Return
  BY <1>3 DEF Return, RunOf
<1>4. CASE UNCHANGED vars
  BY <1>4 DEF vars, RunOf
<1> QED
  BY <1>1, <1>2, <1>3, <1>4 DEF Next

(***************************************************************************)
(* Whatever is put before the program, its bit says that the zone signed   *)
(* these records for an owner that covers the name.                        *)
(***************************************************************************)
THEOREM OnlyTheSignedIsEverValid == Spec => []OnlyTheSignedIsValid
<1>1. Init => RunInv
  BY DEF Init, RunInv, RunOf
<1>2. RunInv /\ [Next]_vars => RunInv'
  BY StepRuns
<1>3. RunInv => OnlyTheSignedIsValid
  BY ValidIsSigned DEF RunInv
<1> QED
  BY <1>1, <1>2, <1>3, PTL DEF Spec

(***************************************************************************)
(* What the zone signed is valid for every name its owner covers, given    *)
(* the signer's name in lower case: nothing of it is refused or panics.    *)
(***************************************************************************)
THEOREM GenuineIsAlwaysValid == Spec => []GenuineIsValid
<1>1. Init => RunInv
  BY DEF Init, RunInv, RunOf
<1>2. RunInv /\ [Next]_vars => RunInv'
  BY StepRuns
<1>3. RunInv => GenuineIsValid
  BY GenuineRunIsValid DEF RunInv
<1> QED
  BY <1>1, <1>2, <1>3, PTL DEF Spec

==============================================================================
