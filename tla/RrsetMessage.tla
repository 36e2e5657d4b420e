----------------------------- MODULE RrsetMessage -----------------------------
(***************************************************************************)
(* What a DNSSEC signature is checked against: the name under which a      *)
(* record set was signed, and the message made of it and the records.      *)
(* Record data are numbered by their canonical order; numbers, types and   *)
(* classes are written in fixed widths, and all of a signature's fields    *)
(* that are copied as they are make one value.                             *)
(***************************************************************************)
EXTENDS DnsName

CONSTANTS
  Rdata,     \* the data a record may have
  Terms,     \* a signature's type, algorithm, times, key tag and original TTL
  Signers    \* the labels of names of signers

ASSUME MessageAssumption ==
  /\ Rdata \subseteq Int
  /\ \A signer \in Signers : signer \in Seq(Labels) /\ Len(signer) <= MaxLabels

Sig == [terms : Terms, num_labels : 0 .. MaxLabels, signer_name : Signers]

NoStar(name, num_labels) == TrimTo(name, num_labels)  \* forgets the "*."
WildcardOf(name, num_labels) ==
  LET star_name == FromLabels(<<Star>>)
      rightmost == TrimTo(name, num_labels)
  IN  IF IsRoot(rightmost) THEN star_name ELSE AppendName(star_name, rightmost)

DetermineName(name, num_labels) ==
  CASE NumLabels(name.labels) = num_labels -> name
    [] num_labels < NumLabels(name.labels) -> WildcardOf(name, num_labels)
    [] OTHER -> Failed

SignerForOwner(owner, sig) == sig.signer_name  \* takes the wrong name of the two
RecordOwner(owner, sig) == Lowercase(owner.labels)

(***************************************************************************)
(* All records are taken, in the order in which they come; their own       *)
(* names, types, classes and times to live are not read, the class that    *)
(* the call is given counts among the terms.  The name of the signer is    *)
(* written as it is.                                                       *)
(***************************************************************************)
ConstructMessage(name, sig, records) ==
  LET owner == DetermineName(name, sig.num_labels)
  IN  IF \/ owner = Failed
         \/ ~Emittable(sig.signer_name)
         \/ records # <<>> /\ ~Emittable(owner.labels)
      THEN Panicked
      ELSE [sig |-> sig,
            rrs |-> [i \in DOMAIN records |-> [owner |-> RecordOwner(owner, sig),
                                               terms |-> sig.terms, rdata |-> records[i]]]]
==============================================================================
