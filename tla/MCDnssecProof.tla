---------------------------- MODULE MCDnssecProof ----------------------------
(* A small instance: a label in two cases, a long one and the wildcard. *)
EXTENDS DnssecProof

CONSTANTS star, a, A, long, zsk, ksk

MCLabels == {star, a, A, long}
MCToLower == [l \in MCLabels |-> IF l = A THEN a ELSE l]
MCLabelSize == [l \in MCLabels |-> IF l = long THEN 3 ELSE 1]
MCSigners == {<<a>>, <<A>>}
MCSignings == {{s} : s \in SignedSets}
==============================================================================
