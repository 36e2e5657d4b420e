------------------------------ MODULE DnsEncoder ------------------------------
(***************************************************************************)
(* The wire format: an encoder that appends to a buffer and remembers      *)
(* where it wrote which names, so that outside the canonical form a name   *)
(* may end in a pointer to an earlier one.  Labels are the sequences of    *)
(* their bytes.                                                            *)
(***************************************************************************)
EXTENDS RrsetMessage

CONSTANTS
  MAX_STRING,    \* 255
  MAX_POINTER,   \* 0x3FFF, behind which no name is remembered
  MAX_OFFSET     \* u16::MAX, behind which remembering one panics

Bytes == 0 .. 255
Words == {n \in Nat : n < 65536}

Broken == {Failed, Panicked}

BinEncoder ==
  [offset : Nat, buffer : Seq(Bytes), canonical_names : BOOLEAN,
   name_pointers : Seq([start : Nat, name : Seq(Bytes)])]

ASSUME EncoderAssumption ==
  /\ MAX_LABEL < 192 /\ MAX_STRING \in Bytes /\ MAX_POINTER \in 0 .. 16383 /\ MAX_OFFSET \in Nat
  /\ MaxLabels \in Bytes
  /\ \A l \in Labels : l \in Seq(Bytes) /\ LabelSize[l] = Len(l)
  /\ \A b \in Broken : b \notin Seq(Bytes) /\ b \notin BinEncoder

NewEncoder == [offset |-> 0, buffer |-> <<>>, name_pointers |-> <<>>, canonical_names |-> FALSE]

WriteSlice(e, data) == [e EXCEPT !.buffer = @ \o data, !.offset = @ + Len(data)]

(* Casts to a fixed width keep the low bits. *)
U16(n) == <<(n \div 256) % 256, n % 256>>
U32(n) == U16(n \div 65536) \o U16(n)
CharacterData(data) == <<Len(data) % 256>> \o data
CharacterStrings(strings) == FlattenSeq([i \in DOMAIN strings |-> CharacterData(strings[i])])

SliceOf(e, start, end) == SubSeq(e.buffer, start + 1, end)

PointersBelow(pointers, offset) ==
  FlattenSeq([i \in DOMAIN pointers |-> IF pointers[i].start < offset THEN <<pointers[i]>> ELSE <<>>])

ResetUntrimmed(e, offset) == [e EXCEPT !.offset = offset]  \* forgets to trim
(* set_offset and trim. *)
ResetTo(e, offset) ==
  [e EXCEPT !.offset = offset, !.buffer = SubSeq(@, 1, offset),
            !.name_pointers = PointersBelow(@, offset)]

(* The number of the pointer to what was written from start to end, or 0. *)
LabelPointer(e, start, end) ==
  SelectInSeq(e.name_pointers, LAMBDA p : p.name = SliceOf(e, start, end))

StoreAnywhere(e, start, end) ==  \* without the check of the offset
  [e EXCEPT !.name_pointers = Append(@, [start |-> start, name |-> SliceOf(e, start, end)])]
StoreLabelPointer(e, start, end) ==
  IF e.offset < MAX_POINTER
  THEN [e EXCEPT !.name_pointers = Append(@, [start |-> start, name |-> SliceOf(e, start, end)])]
  ELSE e

(* Up to the end of the name just written. *)
StorePointers(e, start, fresh) ==
  FoldLeft(LAMBDA f, i : IF i \in fresh THEN StoreLabelPointer(f, start[i], e.offset) ELSE f,
           e, [i \in DOMAIN start |-> i])

(***************************************************************************)
(* A name is written in full; then its labels are looked up from the left. *)
(* Canonically, what is known is passed over; otherwise the first one      *)
(* known is replaced by a pointer.  What is not known is remembered.       *)
(***************************************************************************)
PointerTo(start) == 49152 + (start % (MAX_POINTER + 1))
PointTo(e, n) == WriteSlice(e, U16(PointerTo(e.name_pointers[n].start)))

EmitAsCanonical(e, labels, canonical) ==
  LET full == WriteSlice(e, CharacterStrings(labels))
      start == [i \in DOMAIN labels |-> e.offset + WireSize(SubSeq(labels, 1, i - 1))]
      known == [i \in DOMAIN labels |-> LabelPointer(full, start[i], full.offset)]
      cut == IF canonical THEN 0 ELSE SelectInSeq(known, LAMBDA n : n # 0)
      fresh == {i \in DOMAIN labels : known[i] = 0 /\ (cut = 0 \/ i < cut)}
      stored == StorePointers(full, start, fresh)
      ended == WriteSlice(stored, <<0>>)
  IN  IF \E i \in DOMAIN labels : Len(labels[i]) > MAX_LABEL THEN Failed
      ELSE IF fresh # {} /\ full.offset > MAX_OFFSET THEN Panicked
      ELSE IF cut # 0 THEN PointTo(ResetTo(stored, start[cut]), known[cut])
      ELSE IF Len(ended.buffer) - Len(e.buffer) > MAX_NAME THEN Failed ELSE ended

EmitWithLowercase(e, labels, lowercase) ==
  EmitAsCanonical(e, IF lowercase THEN Lowercase(labels) ELSE labels, e.canonical_names)

------------------------------------------------------------------------------
(* Records. *)
TypeCodes ==
  [A |-> 1, NS |-> 2, CNAME |-> 5, SOA |-> 6, NULL |-> 10, PTR |-> 12, HINFO |-> 13, MX |-> 15,
   TXT |-> 16, SIG |-> 24, KEY |-> 25, AAAA |-> 28, SRV |-> 33, NAPTR |-> 35, OPT |-> 41,
   DS |-> 43, SSHFP |-> 44, RRSIG |-> 46, NSEC |-> 47, DNSKEY |-> 48, NSEC3 |-> 50,
   NSEC3PARAM |-> 51, TLSA |-> 52, CDS |-> 59, CDNSKEY |-> 60, OPENPGPKEY |-> 61, CSYNC |-> 62,
   SVCB |-> 64, HTTPS |-> 65, TSIG |-> 250, IXFR |-> 251, AXFR |-> 252, ANY |-> 255, CAA |-> 257,
   ANAME |-> 65305, ZERO |-> 0]

ClassCodes == [IN |-> 1, CH |-> 3, HS |-> 4, NONE |-> 254, ANY |-> 255]
AlgorithmCodes == [RSASHA256 |-> 8, ECDSAP256SHA256 |-> 13]

(* A signature's fields before its signer. *)
SigHeader(t, num_labels) ==
  U16(TypeCodes[t.type_covered]) \o <<AlgorithmCodes[t.algorithm], num_labels>>
    \o U32(t.original_ttl) \o U32(t.sig_expiration) \o U32(t.sig_inception) \o U16(t.key_tag)

Flags(key) ==
  (IF key.zone_key THEN 256 ELSE 0) + (IF key.revoke THEN 128 ELSE 0)
    + (IF key.secure_entry_point THEN 1 ELSE 0)

EmitSig(e, sig) ==
  LET signed == EmitWithLowercase(WriteSlice(e, SigHeader(sig.terms, sig.num_labels)),
                                  sig.signer_name, e.canonical_names)
  IN  IF signed \in Broken THEN signed ELSE WriteSlice(signed, sig.signature)

EmitDnskey(e, key) ==
  WriteSlice(e, U16(Flags(key)) \o <<3, AlgorithmCodes[key.algorithm]>> \o key.public_key)

(* with_canonical_names: for DNSSEC data the form is canonical, whatever it *)
(* is before and after.                                                     *)
Canonically(e) == [e EXCEPT !.canonical_names = TRUE]
FormOf(e, done) ==
  IF done \in Broken THEN done ELSE [done EXCEPT !.canonical_names = e.canonical_names]

EmitTxt(e, strings) ==
  IF \E i \in DOMAIN strings : Len(strings[i]) > MAX_STRING THEN Failed
  ELSE WriteSlice(e, CharacterStrings(strings))

EmitRdata(e, rdata) ==
  CASE rdata.type = "TXT" -> EmitTxt(e, rdata.txt_data)
    [] rdata.type = "DNSKEY" -> FormOf(e, EmitDnskey(Canonically(e), rdata))
    [] rdata.type = "SIG" -> FormOf(e, EmitSig(Canonically(e), rdata.sig))
==============================================================================
