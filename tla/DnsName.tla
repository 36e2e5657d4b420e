------------------------------- MODULE DnsName -------------------------------
(***************************************************************************)
(* Domain names of the zkVM library: sequences of labels, the leftmost     *)
(* first, with a limit on their length.  A label is a value with a size    *)
(* and a lower-case form.                                                  *)
(***************************************************************************)
EXTENDS SequencesExt, Integers

CONSTANTS
  Labels,
  Star,        \* the wildcard label "*"
  ToLower,     \* of each label: its lower-case form
  LabelSize,   \* of each label: its bytes
  MAX_LABEL,   \* 63
  MAX_NAME,    \* 255
  Failed,      \* the result of an operation that returns an error
  Panicked,    \* the result of one that panics
  MaxLabels    \* bound on the labels of the names considered

ASSUME NameAssumption ==
  /\ Star \in Labels
  /\ ToLower \in [Labels -> Labels]
  /\ \A l \in Labels : ToLower[l] = Star <=> l = Star
  /\ LabelSize \in [Labels -> Nat \ {0}]
  /\ MAX_LABEL \in Nat /\ MAX_NAME \in Nat
  /\ MaxLabels \in Nat

ASSUME CaseAssumption == \A l \in Labels : LabelSize[ToLower[l]] = LabelSize[l]

AnyName == [labels : SeqOf(Labels, MaxLabels), is_fqdn : BOOLEAN]

ASSUME FailedAssumption == Failed \notin AnyName

(* Every label takes a dot or, on the wire, an octet for its length. *)
WireSizes(labels) == [i \in DOMAIN labels |-> 1 + LabelSize[labels[i]]]
WireSize(labels) == FoldLeft(LAMBDA sum, size : sum + size, 0, WireSizes(labels))
NameLen(labels) == IF labels = <<>> THEN 1 ELSE WireSize(labels)

(* What can be put together label by label.  The limit of extend_name does *)
(* not count the empty label that ends a name on the wire.                 *)
Names == {name \in AnyName : NameLen(name.labels) <= MAX_NAME}
Emittable(labels) == WireSize(labels) \in 0 .. MAX_NAME - 1

Lowercase(labels) == [i \in DOMAIN labels |-> ToLower[labels[i]]]

NumLabels(labels) ==
  IF labels # <<>> /\ labels[1] = Star THEN Len(labels) - 1 ELSE Len(labels)

IsRoot(name) == name.labels = <<>> /\ name.is_fqdn

FromLabels(labels) == [labels |-> labels, is_fqdn |-> TRUE]

TrimTo(name, num_labels) ==
  IF num_labels > Len(name.labels) THEN name
  ELSE FromLabels(SubSeq(name.labels, Len(name.labels) - num_labels + 1, Len(name.labels)))

AppendName(name, other) ==
  LET labels == name.labels \o other.labels
  IN  IF other.labels # <<>> /\ NameLen(labels) > MAX_NAME THEN Failed
      ELSE [labels |-> labels, is_fqdn |-> other.is_fqdn]
==============================================================================
