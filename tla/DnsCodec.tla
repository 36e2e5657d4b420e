------------------------------- MODULE DnsCodec -------------------------------
(***************************************************************************)
(* What is read and written of names: a text typed character by character  *)
(* and read, names and records written to one encoder, and the messages    *)
(* made for signatures, byte by byte.  The three have no state in common,  *)
(* so a behaviour is about one of them.                                    *)
(***************************************************************************)
EXTENDS DnsEncoder, NameText, FiniteSets

CONSTANTS
  Characters,    \* the characters typed
  MaxTyped,      \* bound on them
  Texts,         \* names as text, written and signed for
  Fields,        \* bytes written between names
  Rdatas,        \* record data written
  MaxWrites,     \* bound on what one encoder writes
  TxtOf,         \* of each number in Rdata: the strings of a TXT record
  MaxRecords,    \* bound on the records of a message
  MaxMessages    \* bound on the messages made

ASSUME CodecAssumption ==
  /\ {MaxTyped, MaxWrites, MaxRecords, MaxMessages} \subseteq Nat
  /\ Characters \subseteq Bytes
  /\ \A t \in Texts : FromAscii(t) \notin Broken /\ FromAscii(t).labels \in Seq(Labels)
  /\ \A n, o \in Rdata : TxtOf[n] = TxtOf[o] => n = o

(* The fields of a signature that are copied, and their widths. *)
TermSet ==
  [type_covered : DOMAIN TypeCodes, algorithm : DOMAIN AlgorithmCodes,
   original_ttl : Nat, sig_expiration : Nat, sig_inception : Nat,
   key_tag : Words, class : DOMAIN ClassCodes]

ASSUME TermsAssumption ==
  /\ Terms \subseteq TermSet
  /\ \A t \in Terms : \A n \in {t.original_ttl, t.sig_expiration, t.sig_inception} :
       n \div 65536 \in Words

ASSUME RecordAssumption ==
  /\ \A n \in Rdata : TxtOf[n] \in Seq(Seq(Bytes))
  /\ Panicked \notin [sig : Sig, rrs : Seq([owner : Seq(Labels), terms : Terms, rdata : Rdata])]

(* What one encoder is given. *)
ASSUME WriteAssumption ==
  /\ Fields \subseteq Seq(Bytes)
  /\ Rdatas \subseteq
       [type : {"TXT"}, txt_data : Seq(Seq(Bytes))]
       \cup [type : {"DNSKEY"}, zone_key : BOOLEAN, revoke : BOOLEAN, secure_entry_point : BOOLEAN,
             algorithm : DOMAIN AlgorithmCodes, public_key : Seq(Bytes)]
       \cup [type : {"SIG"}, sig : [terms : Terms, num_labels : Bytes, signer_name : Seq(Labels),
                                   signature : Seq(Bytes)]]

VARIABLES
  text,        \* the characters typed
  parser,      \* the reader of them
  encoder,     \* an encoder, or how it ended
  writes,      \* how often it was written to
  written,     \* the names it wrote: where, and in which form
  messages     \* calls of construct_rrset_message_with_sig, and their bytes

vars == <<text, parser, encoder, writes, written, messages>>

Unread == text = <<>>
Unwritten == encoder = NewEncoder
Unsigned == messages = {}

Init ==
  /\ text = <<>> /\ parser = NewParser
  /\ encoder = NewEncoder /\ writes = 0 /\ written = {}
  /\ messages = {}

Type(c) ==
  /\ Unwritten /\ Unsigned /\ Len(text) < MaxTyped
  /\ text' = Append(text, c)
  /\ parser' = ReadChar(parser, c)
  /\ UNCHANGED <<encoder, writes, written, messages>>

------------------------------------------------------------------------------
Emitted(e, names) ==
  /\ Unread /\ Unsigned /\ encoder \notin Broken /\ writes < MaxWrites
  /\ encoder' = e
  /\ writes' = writes + 1
  /\ written' = written \cup names
  /\ UNCHANGED <<text, parser, messages>>

GivenNames == {FromAscii(t) : t \in Texts}

NameAt(start, labels, canonical) == [start |-> start, labels |-> labels, canonical |-> canonical]

EmitName(labels, lowercase) ==
  Emitted(EmitWithLowercase(encoder, labels, lowercase),
          {NameAt(encoder.offset, IF lowercase THEN Lowercase(labels) ELSE labels,
                  encoder.canonical_names)})

EmitField(data) == Emitted(WriteSlice(encoder, data), {})

(* Of record data only the signer of a signature is a name. *)
EmitRecordData(rdata) ==
  Emitted(EmitRdata(encoder, rdata),
          IF rdata.type # "SIG" THEN {}
          ELSE LET header == SigHeader(rdata.sig.terms, rdata.sig.num_labels)
               IN  {NameAt(encoder.offset + Len(header), Lowercase(rdata.sig.signer_name), TRUE)})

SetCanonicalNames ==
  /\ Unread /\ Unsigned /\ encoder \notin Broken
  /\ encoder' = [encoder EXCEPT !.canonical_names = ~@]
  /\ UNCHANGED <<text, parser, writes, written, messages>>

------------------------------------------------------------------------------
(* The bytes of ConstructMessage. *)
CanonicalEncoder == [NewEncoder EXCEPT !.canonical_names = TRUE]

PlaceRecord(e, owner, terms, rdata) ==
  LET named == EmitAsCanonical(e, RecordOwner(owner, terms), TRUE)
      data == EmitTxt(CanonicalEncoder, TxtOf[rdata])
  IN  IF {named, data} \cap Broken # {} THEN Panicked
      ELSE WriteSlice(named, U16(TypeCodes[terms.type_covered]) \o U16(ClassCodes[terms.class])
                               \o U32(terms.original_ttl)
                               \o U16(Len(data.buffer)) \o data.buffer)

(* The length of record data is cut off at 16 bits; longer strings panic. *)
FitData ==
  {n \in Rdata : /\ \A i \in DOMAIN TxtOf[n] : Len(TxtOf[n][i]) <= MAX_STRING
                 /\ Len(CharacterStrings(TxtOf[n])) \in Words}

PlaceRecords(e, owner, terms, records) ==
  FoldLeft(LAMBDA f, rdata : IF f = Panicked THEN f ELSE PlaceRecord(f, owner, terms, rdata),
           e, records)

ConstructBytes(name, sig, records) ==
  LET owner == DetermineName(name, sig.num_labels)
      signer == EmitAsCanonical(WriteSlice(CanonicalEncoder, SigHeader(sig.terms, sig.num_labels)),
                                sig.signer_name, TRUE)
      all == PlaceRecords(signer, owner, sig.terms, records)
  IN  IF owner = Failed \/ signer \in Broken \/ all = Panicked THEN Panicked ELSE all.buffer

Construct(name, sig, records) ==
  /\ Unread /\ Unwritten /\ Cardinality(messages) < MaxMessages
  /\ messages' = messages \cup {[message |-> ConstructMessage(name, sig, records),
                                 bytes |-> ConstructBytes(name, sig, records),
                                 signs |-> records # <<>>,
                                 fits |-> \A i \in DOMAIN records : records[i] \in FitData]}
  /\ UNCHANGED <<text, parser, encoder, writes, written>>

Next ==
  \/ \E c \in Characters : Type(c)
  \/ \E name \in GivenNames, lowercase \in BOOLEAN : EmitName(name.labels, lowercase)
  \/ \E data \in Fields : EmitField(data)
  \/ \E rdata \in Rdatas : EmitRecordData(rdata)
  \/ SetCanonicalNames
  \/ \E name \in GivenNames, sig \in Sig, records \in SeqOf(Rdata, MaxRecords) :
       Construct(name, sig, records)

Spec == Init /\ [][Next]_vars

------------------------------------------------------------------------------
TypeOK ==
  /\ text \in Seq(Characters)
  /\ parser.state \in ParseState \cup {"failed", Panicked}
  /\ encoder \in Broken \cup BinEncoder
  /\ encoder \notin Broken => encoder.offset = Len(encoder.buffer)
  /\ \A w \in written : w.start \in Nat /\ w.labels \in Seq(Labels)

(***************************************************************************)
(* The host hands a name to the program as the text Display gives and the  *)
(* program reads it with from_ascii: what was once read from a text is     *)
(* read back as the same labels, dots in them, escapes and octal numbers   *)
(* included, and of a label of any bytes never another name.  (An escaped  *)
(* dot at the end of a relative name is taken for its end.)                *)
(***************************************************************************)
TextIsReadBack ==
  LET parsed == EndText(parser, text)
      raw == FromLabels(<<text>>)
  IN  /\ parsed \notin {Failed, Panicked} => FromAscii(Display(parsed)).labels = parsed.labels
      /\ Len(text) \in 1 .. MAX_LABEL => FromAscii(Display(raw)) \in {Failed, raw}

(***************************************************************************)
(* RFC 1035: labels with their lengths up to an empty one or a pointer to  *)
(* where the name goes on.                                                 *)
(***************************************************************************)
NextLabels(buffer, next) ==
  [at \in Nat |->
    LET size == buffer[at + 1]
        end == at + 1 + size
        target == 256 * (size - 192) + buffer[at + 2]
    IN  IF at >= Len(buffer) THEN <<Failed>>
        ELSE IF size = 0 THEN <<>>
        ELSE IF size < 192 /\ end <= Len(buffer) THEN <<SubSeq(buffer, at + 2, end)>> \o next[end]
        ELSE IF size >= 192 /\ at + 2 <= Len(buffer) THEN next[target] ELSE <<Failed>>]

LabelsAt(buffer, start) ==
  LET read[fuel \in 0 .. Len(buffer)] ==
        IF fuel = 0 THEN [at \in Nat |-> <<Failed>>] ELSE NextLabels(buffer, read[fuel - 1])
  IN  read[Len(buffer)][start]

WireForm(labels) == CharacterStrings(labels) \o <<0>>

(***************************************************************************)
(* Every name written is read at its place as the labels it was written    *)
(* for, pointers to names that end in pointers themselves and names behind *)
(* the reach of pointers included; in canonical form it has none.          *)
(***************************************************************************)
NamesAreReadable ==
  encoder \notin Broken =>
    \A w \in written :
      /\ LabelsAt(encoder.buffer, w.start) = w.labels
      /\ w.canonical => IsPrefix(WireForm(w.labels), SubSeq(encoder.buffer, w.start + 1, encoder.offset))

(***************************************************************************)
(* Two calls make the same bytes exactly if they mean the same message:    *)
(* what the signature is checked against leaves no choice of another name, *)
(* field or record; and what is no message has no bytes.  DnssecProof      *)
(* takes this for granted.  It is said of record data that fits, whose     *)
(* length is written as it is; of calls that do not panic, as a long       *)
(* message may; and of messages with records, as without any no class is   *)
(* written.                                                                *)
(***************************************************************************)
MessagesAreToldApart ==
  /\ \A c \in messages : c.fits /\ c.message = Panicked => c.bytes = Panicked
  /\ \A c, d \in messages :
       c.fits /\ d.fits /\ (c.signs \/ d.signs) /\ Panicked \notin {c.bytes, d.bytes}
       => (c.bytes = d.bytes <=> c.message = d.message)
==============================================================================
