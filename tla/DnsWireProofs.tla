----------------------------- MODULE DnsWireProofs -----------------------------
(***************************************************************************)
(* Proofs about reading what was written: the bytes that are signed tell   *)
(* messages apart, and every name is read back, through its pointers.      *)
(***************************************************************************)
EXTENDS DnsCodecProofs
------------------------------------------------------------------------------
(* A character string tells its length, and a name ends in an empty one. *)
Short(s) == s \in Seq(Bytes) /\ Len(s) < 256

LEMMA SameString ==
  ASSUME NEW s, Short(s), NEW t, Short(t), NEW u \in Seq(Bytes), NEW v \in Seq(Bytes),
         Cat(CharacterData(s), u) = Cat(CharacterData(t), v)
  PROVE  s = t /\ u = v
<1> DEFINE a == CharacterData(s)  b == CharacterData(t)
<1>1. /\ s \in Seq(Bytes) /\ Len(s) \in Nat /\ Len(s) < 256
      /\ t \in Seq(Bytes) /\ Len(t) \in Nat /\ Len(t) < 256
  BY DEF Short
<1>2. a \in Seq(Bytes) /\ Len(a) = 1 + Len(s) /\ a[1] = Len(s) % 256
  BY <1>1, CharacterBytes
<1>3. b \in Seq(Bytes) /\ Len(b) = 1 + Len(t) /\ b[1] = Len(t) % 256
  BY <1>1, CharacterBytes
<1>4. a = <<Len(s) % 256>> \o s /\ b = <<Len(t) % 256>> \o t
  BY DEF CharacterData
<1> HIDE DEF a, b
<1>5. a[1] = b[1]
  <2>1. Len(u) \in Nat /\ Len(v) \in Nat
    OBVIOUS
  <2>2. 1 \in 1 .. Len(a) + Len(u) /\ 1 <= Len(a) /\ 1 \in 1 .. Len(b) + Len(v) /\ 1 <= Len(b)
    BY <1>1, <1>2, <1>3, <2>1
  <2>3. (a \o u)[1] = a[1]
    BY <1>2, <2>2, ConcatProperties
  <2>4. (b \o v)[1] = b[1]
    BY <1>3, <2>2, ConcatProperties
  <2> QED
    BY <2>3, <2>4 DEF Cat, a, b
<1>6. Len(s) = Len(t)
  <2>1. ASSUME NEW k \in Nat, k < 256
        PROVE  k % 256 = k
    BY <2>1
  <2>2. Len(s) % 256 = Len(s) /\ Len(t) % 256 = Len(t)
    BY <1>1, <2>1
  <2> QED
    BY <1>2, <1>3, <1>5, <2>2
<1>7. a = b /\ u = v
  <2>1. Cat(a, u) = Cat(b, v) /\ Len(a) = Len(b)
    BY <1>2, <1>3, <1>6 DEF a, b
  <2> QED
    BY <1>2, <1>3, <2>1, SameStart
<1>8. s = t
  <2> DEFINE c == <<Len(s) % 256>>
  <2>1. c \in Seq(Bytes)
    BY <1>1, LowByte
  <2>2. Cat(c, s) = Cat(c, t)
    BY <1>4, <1>6, <1>7 DEF Cat
  <2> HIDE DEF c
  <2> QED
    BY <1>1, <2>1, <2>2, SameEnd
<1> QED
  BY <1>7, <1>8

AllShort(strings) == strings \in Seq(Seq(Bytes)) /\ \A i \in 1 .. Len(strings) : Len(strings[i]) < 256

LEMMA StringsApart ==
  ASSUME NEW s, AllShort(s), NEW t, AllShort(t)
  PROVE  /\ StringParts(s) \in Seq(Seq(Bytes)) /\ Len(StringParts(s)) = Len(s)
         /\ Apart(Bytes, StringParts(s), StringParts(t))
         /\ \A i \in 1 .. Len(s) : StringParts(s)[i] # <<>>
         /\ \A i \in 1 .. Len(s) : i <= Len(t) /\ StringParts(s)[i] = StringParts(t)[i] => s[i] = t[i]
<1>1. /\ s \in Seq(Seq(Bytes)) /\ Len(s) \in Nat /\ t \in Seq(Seq(Bytes)) /\ Len(t) \in Nat
      /\ \A i \in 1 .. Len(s) : Len(s[i]) < 256
      /\ \A i \in 1 .. Len(t) : Len(t[i]) < 256
  BY DEF AllShort
<1>2. /\ StringParts(s) \in Seq(Seq(Bytes)) /\ Len(StringParts(s)) = Len(s)
      /\ \A i \in 1 .. Len(s) : Short(s[i]) /\ StringParts(s)[i] = CharacterData(s[i])
  BY <1>1, StringBytes DEF Short
<1>3. \A i \in 1 .. Len(t) : Short(t[i]) /\ StringParts(t)[i] = CharacterData(t[i])
  BY <1>1, StringBytes DEF Short
<1>4. Len(StringParts(t)) = Len(t)
  BY <1>1, StringBytes
<1>5. ASSUME NEW i \in 1 .. Len(s), i <= Len(t), NEW u \in Seq(Bytes), NEW v \in Seq(Bytes),
             Cat(StringParts(s)[i], u) = Cat(StringParts(t)[i], v)
      PROVE  s[i] = t[i]
  <2>1. i \in 1 .. Len(t)
    BY <1>1, <1>5
  <2>2. Cat(CharacterData(s[i]), u) = Cat(CharacterData(t[i]), v)
    BY <1>2, <1>3, <1>5, <2>1
  <2>3. Short(s[i]) /\ Short(t[i])
    BY <1>2, <1>3, <2>1
  <2> QED
    BY <2>2, <2>3, SameString
<1>6. ASSUME NEW i \in 1 .. Len(s), i <= Len(t), s[i] = t[i]
      PROVE  StringParts(s)[i] = StringParts(t)[i]
  <2>1. i \in 1 .. Len(t)
    BY <1>1, <1>6
  <2> QED
    BY <1>2, <1>3, <1>6, <2>1
<1>7. Apart(Bytes, StringParts(s), StringParts(t))
  BY <1>2, <1>4, <1>5, <1>6 DEF Apart
<1>8. ASSUME NEW i \in 1 .. Len(s)
      PROVE  StringParts(s)[i] # <<>>
  <2>1. s[i] \in Seq(Bytes) /\ Len(s[i]) \in Nat /\ StringParts(s)[i] = CharacterData(s[i])
    BY <1>2 DEF Short
  <2>2. Len(CharacterData(s[i])) = 1 + Len(s[i])
    BY <2>1, CharacterBytes
  <2>3. Len(CharacterData(s[i])) # 0
    BY <2>1, <2>2
  <2> QED
    BY <2>1, <2>3
<1>9. ASSUME NEW i \in 1 .. Len(s), i <= Len(t), StringParts(s)[i] = StringParts(t)[i]
      PROVE  s[i] = t[i]
  <2> DEFINE none == <<>>
  <2>1. none \in Seq(Bytes)
    OBVIOUS
  <2> HIDE DEF none
  <2> QED
    BY <1>5, <1>9, <2>1
<1> QED
  BY <1>2, <1>7, <1>8, <1>9

LEMMA SameStrings ==
  ASSUME NEW s, AllShort(s), NEW t, AllShort(t), CharacterStrings(s) = CharacterStrings(t)
  PROVE  s = t
<1> DEFINE p == StringParts(s)  q == StringParts(t)
<1>1. /\ p \in Seq(Seq(Bytes)) /\ Len(p) = Len(s) /\ Apart(Bytes, p, q)
      /\ \A i \in 1 .. Len(s) : p[i] # <<>>
      /\ \A i \in 1 .. Len(s) : i <= Len(t) /\ p[i] = q[i] => s[i] = t[i]
  BY StringsApart
<1>2. /\ q \in Seq(Seq(Bytes)) /\ Len(q) = Len(t) /\ Apart(Bytes, q, p)
      /\ \A i \in 1 .. Len(t) : q[i] # <<>>
  BY StringsApart
<1>3. s \in Seq(Seq(Bytes)) /\ t \in Seq(Seq(Bytes))
  BY DEF AllShort
<1>4. FlattenSeq(p) = FlattenSeq(q)
  BY <1>3, StringBytes
<1> HIDE DEF p, q
<1>5. p = q
  <2>1. \A i \in 1 .. Len(p) : p[i] # <<>>
    BY <1>1
  <2>2. \A i \in 1 .. Len(q) : q[i] # <<>>
    BY <1>2
  <2> QED
    BY <1>1, <1>2, <1>4, <2>1, <2>2, FlattenApart
<1>6. Len(s) = Len(t) /\ Len(s) \in Nat
  BY <1>1, <1>2, <1>3, <1>5
<1>7. \A i \in 1 .. Len(s) : s[i] = t[i]
  BY <1>1, <1>5, <1>6
<1> DEFINE Q == Seq(Bytes)
<1>8. s \in Seq(Q) /\ t \in Seq(Q)
  BY <1>3
<1> HIDE DEF Q
<1> QED
  BY <1>6, <1>7, <1>8, SeqEqual


Written(labels) == Cat(CharacterStrings(labels), <<0>>)

LEMMA NameEnds ==
  ASSUME NEW labels \in Seq(Labels)
  PROVE  /\ AllShort(Append(labels, <<>>)) /\ Len(Append(labels, <<>>)) = Len(labels) + 1
         /\ Append(labels, <<>>)[Len(labels) + 1] = <<>>
         /\ \A i \in 1 .. Len(labels) : Append(labels, <<>>)[i] = labels[i] /\ Len(labels[i]) # 0
         /\ Written(labels) \in Seq(Bytes)
         /\ Written(labels) = FlattenSeq(StringParts(Append(labels, <<>>)))
<1> DEFINE Q == Seq(Bytes)  none == <<>>  more == Append(labels, none)  n == Len(labels)
<1>1. none \in Seq(Bytes) /\ Len(none) = 0
  OBVIOUS
<1>2. labels \in Seq(Q) /\ n \in Nat
  BY LabelBytes
<1>3. \A i \in 1 .. n : Len(labels[i]) < 256 /\ Len(labels[i]) # 0
  <2> SUFFICES ASSUME NEW i \in 1 .. n PROVE Len(labels[i]) < 256 /\ Len(labels[i]) # 0
    OBVIOUS
  <2>1. Len(labels[i]) \in 1 .. MAX_LABEL
    BY LabelBytes
  <2>2. MAX_LABEL \in Nat /\ MAX_LABEL < 192
    BY EncoderAssumption, NameAssumption
  <2> QED
    BY <2>1, <2>2
<1>4. CharacterData(none) = <<0>>
  <2>1. <<0>> \o <<>> = <<0>>
    OBVIOUS
  <2>2. Len(none) % 256 = 0
    BY <1>1
  <2> QED
    BY <2>1, <2>2 DEF CharacterData
<1>5. StringParts(labels) \in Seq(Seq(Bytes)) /\ CharacterStrings(labels) = FlattenSeq(StringParts(labels))
  BY <1>2, StringBytes
<1>6. <<0>> \in Seq(Bytes) /\ CharacterStrings(labels) \in Seq(Bytes)
  <2>1. 0 \in Bytes
    BY DEF Bytes
  <2> QED
    BY <1>2, <2>1, StringBytes
<1> HIDE DEF none, Q
<1>7. /\ more \in Seq(Q) /\ Len(more) = n + 1
      /\ \A i \in 1 .. n + 1 : more[i] = IF i <= n THEN labels[i] ELSE none
  BY <1>1, <1>2, AppendProperties DEF Q
<1>8. \A i \in 1 .. n : more[i] = labels[i]
  BY <1>2, <1>7
<1>9. more[n + 1] = none
  BY <1>2, <1>7
<1> HIDE DEF more
<1>10. AllShort(more)
  <2>1. \A i \in 1 .. Len(more) : Len(more[i]) < 256
    <3> SUFFICES ASSUME NEW i \in 1 .. n + 1 PROVE Len(more[i]) < 256
      BY <1>7
    <3>1. CASE i = n + 1
      BY <1>1, <1>9, <3>1
    <3>2. CASE i # n + 1
      <4>1. i \in 1 .. n
        BY <1>2, <3>2
      <4> QED
        BY <1>3, <1>8, <4>1
    <3> QED
      BY <3>1, <3>2
  <2> QED
    BY <1>7, <2>1 DEF AllShort, Q
<1>11. StringParts(more) = Append(StringParts(labels), <<0>>)
  <2>1. more \in Seq(Seq(Bytes)) /\ labels \in Seq(Seq(Bytes))
    BY <1>2, <1>7 DEF Q
  <2>2. /\ StringParts(more) \in Seq(Seq(Bytes)) /\ Len(StringParts(more)) = n + 1
        /\ \A i \in 1 .. n + 1 : StringParts(more)[i] = CharacterData(more[i])
    BY <1>7, <2>1, StringBytes
  <2>3. /\ Len(StringParts(labels)) = n
        /\ \A i \in 1 .. n : StringParts(labels)[i] = CharacterData(labels[i])
    BY <2>1, StringBytes
  <2> DEFINE zero == <<0>>  p == StringParts(more)  q == StringParts(labels)
  <2>4. p \in Seq(Q) /\ q \in Seq(Q) /\ zero \in Q
    BY <1>5, <1>6, <2>2 DEF Q
  <2>5. zero = CharacterData(none)
    BY <1>4
  <2> HIDE DEF zero, p, q
  <2>6. /\ Append(q, zero) \in Seq(Q) /\ Len(Append(q, zero)) = n + 1
        /\ \A i \in 1 .. n + 1 : Append(q, zero)[i] = IF i <= n THEN q[i] ELSE zero
    BY <2>3, <2>4, AppendProperties DEF q
  <2>7. ASSUME NEW i \in 1 .. n + 1
        PROVE  p[i] = Append(q, zero)[i]
    <3>1. CASE i = n + 1
      BY <1>2, <1>9, <2>2, <2>5, <2>6, <3>1 DEF p
    <3>2. CASE i # n + 1
      <4>1. i \in 1 .. n /\ i <= n
        BY <1>2, <3>2
      <4> QED
        BY <1>8, <2>2, <2>3, <2>6, <4>1 DEF p, q
    <3> QED
      BY <3>1, <3>2
  <2>8. Len(p) = n + 1
    BY <2>2 DEF p
  <2>9. p = Append(q, zero)
    BY <2>4, <2>6, <2>7, <2>8, SeqEqual
  <2> QED
    BY <2>9 DEF p, q, zero
<1>12. FlattenSeq(StringParts(more)) = Written(labels)
  BY <1>5, <1>6, <1>11, FlattenAppend DEF Written, Cat
<1>13. Written(labels) \in Seq(Bytes)
  BY <1>6, CatLength DEF Written
<1>14. /\ AllShort(more) /\ Len(more) = n + 1 /\ more[n + 1] = none
       /\ \A i \in 1 .. n : more[i] = labels[i] /\ Len(labels[i]) # 0
       /\ Written(labels) \in Seq(Bytes)
       /\ Written(labels) = FlattenSeq(StringParts(more))
  BY <1>3, <1>7, <1>8, <1>9, <1>10, <1>12, <1>13
<1> QED
  BY <1>14 DEF more, n, none

LEMMA NoLabelMore ==
  ASSUME NEW labels \in Seq(Labels), NEW other \in Seq(Labels),
         NEW u \in Seq(Bytes), NEW v \in Seq(Bytes), Cat(Written(labels), u) = Cat(Written(other), v)
  PROVE  /\ Len(other) <= Len(labels)
         /\ \A i \in 1 .. Len(labels) : i <= Len(other) => labels[i] = other[i]
<1> DEFINE s == Append(labels, <<>>)  t == Append(other, <<>>)  n == Len(labels)  m == Len(other)
           p == StringParts(s)  q == StringParts(t)
<1>1. n \in Nat /\ m \in Nat
  OBVIOUS
<1>2. /\ AllShort(s) /\ Len(s) = n + 1 /\ s[n + 1] = <<>>
      /\ \A i \in 1 .. n : s[i] = labels[i]
      /\ Written(labels) = FlattenSeq(p)
  BY NameEnds
<1>3. /\ AllShort(t) /\ Len(t) = m + 1
      /\ \A i \in 1 .. m : t[i] = other[i] /\ Len(other[i]) # 0
      /\ Written(other) = FlattenSeq(q)
  BY NameEnds
<1> HIDE DEF s, t, n, m
<1>4. /\ p \in Seq(Seq(Bytes)) /\ Len(p) = n + 1 /\ Apart(Bytes, p, q)
      /\ \A i \in 1 .. n + 1 : i <= m + 1 /\ p[i] = q[i] => s[i] = t[i]
  <2>1. /\ p \in Seq(Seq(Bytes)) /\ Len(p) = Len(s) /\ Apart(Bytes, p, q)
        /\ \A i \in 1 .. Len(s) : i <= Len(t) /\ p[i] = q[i] => s[i] = t[i]
    BY <1>2, <1>3, StringsApart
  <2> HIDE DEF p, q
  <2> QED
    BY <1>2, <1>3, <2>1
<1>5. q \in Seq(Seq(Bytes)) /\ Len(q) = m + 1
  BY <1>2, <1>3, StringsApart
<1>6. Cat(FlattenSeq(p), u) = Cat(FlattenSeq(q), v)
  BY <1>2, <1>3
<1> HIDE DEF p, q
<1>7. \A i \in 0 .. Len(p) : i <= Len(q) => SameTo(p, q, i)
  BY <1>4, <1>5, <1>6, PartsAgree
<1>8. ASSUME NEW i \in 1 .. n + 1, i <= m + 1
      PROVE  s[i] = t[i]
  <2>1. i \in 0 .. Len(p) /\ i <= Len(q) /\ i # 0
    BY <1>1, <1>4, <1>5, <1>8
  <2>2. p[i] = q[i]
    BY <1>7, <2>1 DEF SameTo
  <2> QED
    BY <1>4, <1>8, <2>2
<1>9. m <= n
  <2> SUFFICES ASSUME n < m PROVE FALSE
    BY <1>1
  <2>1. n + 1 \in 1 .. n + 1 /\ n + 1 <= m + 1 /\ n + 1 \in 1 .. m
    BY <1>1
  <2>2. s[n + 1] = t[n + 1]
    BY <1>8, <2>1
  <2>3. Len(<<>>) = 0
    OBVIOUS
  <2> QED
    BY <1>2, <1>3, <2>1, <2>2, <2>3
<1>10. ASSUME NEW i \in 1 .. n, i <= m
       PROVE  labels[i] = other[i]
  <2>1. i \in 1 .. n + 1 /\ i <= m + 1 /\ i \in 1 .. m
    BY <1>1, <1>10
  <2> QED
    BY <1>2, <1>3, <1>8, <2>1
<1> QED
  BY <1>9, <1>10 DEF n, m

LEMMA SameName ==
  ASSUME NEW labels \in Seq(Labels), NEW other \in Seq(Labels),
         NEW u \in Seq(Bytes), NEW v \in Seq(Bytes), Cat(Written(labels), u) = Cat(Written(other), v)
  PROVE  labels = other /\ u = v
<1>1. Len(labels) \in Nat /\ Len(other) \in Nat
  OBVIOUS
<1>2. /\ Len(other) <= Len(labels)
      /\ \A i \in 1 .. Len(labels) : i <= Len(other) => labels[i] = other[i]
  BY NoLabelMore
<1>3. Len(labels) <= Len(other)
  BY NoLabelMore
<1>4. Len(labels) = Len(other)
  BY <1>1, <1>2, <1>3
<1>5. \A i \in 1 .. Len(labels) : labels[i] = other[i]
  BY <1>1, <1>2, <1>4
<1>6. labels = other
  BY <1>4, <1>5, SeqEqual
<1>7. Written(labels) \in Seq(Bytes)
  BY NameEnds
<1> QED
  BY <1>6, <1>7, SameEnd

------------------------------------------------------------------------------
(* Numbers and codes of a fixed width. *)
LEMMA LongNumber ==
  ASSUME NEW n \in Nat
  PROVE  n = 65536 * (n \div 65536) + 256 * ((n \div 256) % 256) + (n % 256)
<1> DEFINE h == n \div 256
<1>1. h \in Nat /\ n = 256 * h + (n % 256)
  OBVIOUS
<1>2. h \div 256 = n \div 65536
  OBVIOUS
<1>3. h = 256 * (h \div 256) + (h % 256)
  BY <1>1
<1> QED
  BY <1>1, <1>2, <1>3

Long(n) == n \in Nat /\ n \div 65536 \in Words

LEMMA SameLong ==
  ASSUME NEW m, Long(m), NEW n, Long(n), U32(m) = U32(n)
  PROVE  m = n
<1> DEFINE a == m \div 65536  c == n \div 65536  p == U16(a)  q == U16(m)  r == U16(c)  s == U16(n)
<1>1. m \in Nat /\ n \in Nat /\ a \in Words /\ c \in Words
  BY DEF Long
<1>2. U32(m) = Cat(p, q) /\ U32(n) = Cat(r, s)
  BY <1>1, U32Bytes
<1>3. a \in Nat /\ a < 65536 /\ c \in Nat /\ c < 65536
  BY <1>1, WordNumber
<1> HIDE DEF a, c
<1>4. p \in Seq(Bytes) /\ Len(p) = 2
  BY <1>3, U16Bytes
<1>5. r \in Seq(Bytes) /\ Len(r) = 2
  BY <1>3, U16Bytes
<1>6. q \in Seq(Bytes) /\ s \in Seq(Bytes)
  BY <1>1, U16Bytes
<1> HIDE DEF p, q, r, s
<1>7. Len(p) = Len(r) /\ Cat(p, q) = Cat(r, s)
  BY <1>2, <1>4, <1>5
<1>8. p = r /\ q = s
  BY <1>4, <1>5, <1>6, <1>7, SameStart
<1>9. a = c
  BY <1>3, <1>8, U16Same DEF p, r
<1> DEFINE d == (m \div 256) % 256  e == m % 256  f == (n \div 256) % 256  g == n % 256
<1>10. <<d, e>> = <<f, g>>
  BY <1>8 DEF q, s, U16
<1>11. m = 65536 * a + 256 * d + e
  BY <1>1, LongNumber DEF a
<1>12. n = 65536 * c + 256 * f + g
  BY <1>1, LongNumber DEF c
<1> HIDE DEF d, e, f, g
<1>13. d = f /\ e = g
  BY <1>10
<1> QED
  BY <1>9, <1>11, <1>12, <1>13

LEMMA TypeCodeTold ==
  ASSUME NEW type \in DOMAIN TypeCodes, NEW other \in DOMAIN TypeCodes,
         TypeCodes[type] = TypeCodes[other]
  PROVE  type = other
BY SMTT(100) DEF TypeCodes

LEMMA ClassCodeTold ==
  ASSUME NEW class \in DOMAIN ClassCodes, NEW other \in DOMAIN ClassCodes,
         ClassCodes[class] = ClassCodes[other]
  PROVE  class = other
BY DEF ClassCodes

LEMMA AlgorithmCodeTold ==
  ASSUME NEW algorithm \in DOMAIN AlgorithmCodes, NEW other \in DOMAIN AlgorithmCodes,
         AlgorithmCodes[algorithm] = AlgorithmCodes[other]
  PROVE  algorithm = other
BY DEF AlgorithmCodes

LEMMA ClassCode ==
  ASSUME NEW class \in DOMAIN ClassCodes
  PROVE  ClassCodes[class] \in Nat /\ ClassCodes[class] < 65536
BY DEF ClassCodes

LEMMA SameTerms ==
  ASSUME NEW t \in Terms, NEW u \in Terms,
         t.type_covered = u.type_covered, t.algorithm = u.algorithm,
         t.original_ttl = u.original_ttl, t.sig_expiration = u.sig_expiration,
         t.sig_inception = u.sig_inception, t.key_tag = u.key_tag, t.class = u.class
  PROVE  t = u
<1> DEFINE types == DOMAIN TypeCodes  algorithms == DOMAIN AlgorithmCodes
           classes == DOMAIN ClassCodes
<1>1. t \in TermSet /\ u \in TermSet
  BY TermsAssumption
<1>2. {t, u} \subseteq [type_covered : types, algorithm : algorithms, original_ttl : Nat,
                        sig_expiration : Nat, sig_inception : Nat, key_tag : Words,
                        class : classes]
  BY <1>1 DEF TermSet
<1> HIDE DEF types, algorithms, classes
<1> QED
  BY <1>2

LEMMA LongTerms ==
  ASSUME NEW t \in Terms
  PROVE  Long(t.original_ttl) /\ Long(t.sig_expiration) /\ Long(t.sig_inception)
BY TermsTyped, TermsAssumption DEF Long

Two(bytes) == bytes \in Seq(Bytes) /\ Len(bytes) = 2
Four(bytes) == bytes \in Seq(Bytes) /\ Len(bytes) = 4

(* All a signature's header tells: every field but the class. *)
ToldByHeader(t, m, u, n) ==
  /\ t.type_covered = u.type_covered /\ t.algorithm = u.algorithm
  /\ t.original_ttl = u.original_ttl /\ t.sig_expiration = u.sig_expiration
  /\ t.sig_inception = u.sig_inception /\ t.key_tag = u.key_tag /\ m = n

LEMMA SameHeader ==
  ASSUME NEW t \in Terms, NEW m \in Bytes, NEW u \in Terms, NEW n \in Bytes,
         SigHeader(t, m) = SigHeader(u, n)
  PROVE  ToldByHeader(t, m, u, n)
<1> DEFINE a == U16(TypeCodes[t.type_covered])  b == <<AlgorithmCodes[t.algorithm], m>>
           c == U32(t.original_ttl)  d == U32(t.sig_expiration)  f == U32(t.sig_inception)
           g == U16(t.key_tag)
           p == U16(TypeCodes[u.type_covered])  q == <<AlgorithmCodes[u.algorithm], n>>
           r == U32(u.original_ttl)  s == U32(u.sig_expiration)  v == U32(u.sig_inception)
           w == U16(u.key_tag)
<1>1. ASSUME NEW k \in Terms, NEW l \in Bytes
      PROVE  /\ Two(U16(TypeCodes[k.type_covered])) /\ Two(<<AlgorithmCodes[k.algorithm], l>>)
             /\ Four(U32(k.original_ttl)) /\ Four(U32(k.sig_expiration))
             /\ Four(U32(k.sig_inception)) /\ Two(U16(k.key_tag))
  <2>1. TypeCodes[k.type_covered] \in Nat /\ AlgorithmCodes[k.algorithm] \in Bytes
    BY TermsTyped, TypeCode, AlgorithmCode
  <2>2. k.original_ttl \in Nat /\ k.sig_expiration \in Nat /\ k.sig_inception \in Nat /\ k.key_tag \in Nat
    BY TermsTyped
  <2>3. U16(TypeCodes[k.type_covered]) \in Seq(Bytes) /\ Len(U16(TypeCodes[k.type_covered])) = 2
    BY <2>1, U16Bytes
  <2>4. U16(k.key_tag) \in Seq(Bytes) /\ Len(U16(k.key_tag)) = 2
    BY <2>2, U16Bytes
  <2>5. /\ U32(k.original_ttl) \in Seq(Bytes) /\ Len(U32(k.original_ttl)) = 4
        /\ U32(k.sig_expiration) \in Seq(Bytes) /\ Len(U32(k.sig_expiration)) = 4
        /\ U32(k.sig_inception) \in Seq(Bytes) /\ Len(U32(k.sig_inception)) = 4
    BY <2>2, FourBytes
  <2> DEFINE code == AlgorithmCodes[k.algorithm]
  <2>6. <<code, l>> \in Seq(Bytes) /\ Len(<<code, l>>) = 2
    <3> HIDE DEF code
    <3> QED
      BY <2>1, Pair DEF code
  <2> QED
    BY <2>3, <2>4, <2>5, <2>6 DEF Two, Four
<1>2. HeaderOf(a, b, c, d, f, g) = HeaderOf(p, q, r, s, v, w)
  BY HeaderBytes
<1>3. Two(a) /\ Two(b) /\ Four(c) /\ Four(d) /\ Four(f) /\ Two(g)
  BY <1>1
<1>4. Two(p) /\ Two(q) /\ Four(r) /\ Four(s) /\ Four(v) /\ Two(w)
  BY <1>1
<1> HIDE DEF a, b, c, d, f, g, p, q, r, s, v, w
<1>5. a = p /\ b = q /\ c = r /\ d = s /\ f = v /\ g = w
  <2> USE DEF Two, Four
  <2> DEFINE a1 == Cat(a, b)  a2 == Cat(a1, c)  a3 == Cat(a2, d)  a4 == Cat(a3, f)
             p1 == Cat(p, q)  p2 == Cat(p1, r)  p3 == Cat(p2, s)  p4 == Cat(p3, v)
  <2>1. a1 \in Seq(Bytes) /\ Len(a1) = Len(a) + Len(b) /\ p1 \in Seq(Bytes) /\ Len(p1) = Len(p) + Len(q)
    BY <1>3, <1>4, CatLength
  <2>2. Cat(a4, g) = Cat(p4, w)
    BY <1>2 DEF HeaderOf
  <2>3. a1 = p1 => a = p /\ b = q
    BY <1>3, <1>4, SameStart
  <2> HIDE DEF a1, p1
  <2>4. a2 \in Seq(Bytes) /\ Len(a2) = Len(a1) + Len(c) /\ p2 \in Seq(Bytes) /\ Len(p2) = Len(p1) + Len(r)
    BY <1>3, <1>4, <2>1, CatLength
  <2>5. a2 = p2 => a1 = p1 /\ c = r
    BY <1>3, <1>4, <2>1, SameStart
  <2> HIDE DEF a2, p2
  <2>6. a3 \in Seq(Bytes) /\ Len(a3) = Len(a2) + Len(d) /\ p3 \in Seq(Bytes) /\ Len(p3) = Len(p2) + Len(s)
    BY <1>3, <1>4, <2>4, CatLength
  <2>7. Len(a2) = Len(p2)
    BY <1>3, <1>4, <2>1, <2>4
  <2>8. a3 = p3 => a2 = p2 /\ d = s
    BY <1>3, <1>4, <2>4, <2>7, SameStart
  <2> HIDE DEF a3, p3
  <2>9. a4 \in Seq(Bytes) /\ Len(a4) = Len(a3) + Len(f) /\ p4 \in Seq(Bytes) /\ Len(p4) = Len(p3) + Len(v)
    BY <1>3, <1>4, <2>6, CatLength
  <2>10. Len(a3) = Len(p3)
    BY <1>3, <1>4, <2>6, <2>7
  <2>11. a4 = p4 => a3 = p3 /\ f = v
    BY <1>3, <1>4, <2>6, <2>10, SameStart
  <2> HIDE DEF a4, p4
  <2>12. Len(a4) = Len(p4)
    BY <1>3, <1>4, <2>9, <2>10
  <2>13. a4 = p4 /\ g = w
    BY <1>3, <1>4, <2>2, <2>9, <2>12, SameStart
  <2> QED
    BY <1>3, <1>4, <2>3, <2>5, <2>8, <2>11, <2>13
<1>6. t.type_covered = u.type_covered
  <2>1. t.type_covered \in DOMAIN TypeCodes /\ u.type_covered \in DOMAIN TypeCodes
    BY TermsTyped
  <2> DEFINE x == TypeCodes[t.type_covered]  y == TypeCodes[u.type_covered]
  <2>2. x \in Nat /\ x < 65536 /\ y \in Nat /\ y < 65536
    BY <2>1, TypeCode
  <2>3. U16(x) = U16(y)
    BY <1>5 DEF a, p
  <2>4. x = y
    <3> HIDE DEF x, y
    <3> QED
      BY <2>2, <2>3, U16Same
  <2> QED
    BY <2>1, <2>4, TypeCodeTold
<1>7. t.algorithm = u.algorithm /\ m = n
  <2>1. t.algorithm \in DOMAIN AlgorithmCodes /\ u.algorithm \in DOMAIN AlgorithmCodes
    BY TermsTyped
  <2> DEFINE x == AlgorithmCodes[t.algorithm]  y == AlgorithmCodes[u.algorithm]
  <2>2. <<x, m>> = <<y, n>>
    BY <1>5 DEF b, q
  <2>3. x = y /\ m = n
    <3> HIDE DEF x, y
    <3> QED
      BY <2>2
  <2> QED
    BY <2>1, <2>3, AlgorithmCodeTold
<1>8. t.original_ttl = u.original_ttl /\ t.sig_expiration = u.sig_expiration /\ t.sig_inception = u.sig_inception
  BY <1>5, LongTerms, SameLong DEF c, d, f, r, s, v
<1>9. t.key_tag = u.key_tag
  BY <1>5, TermsTyped, U16Same DEF g, w
<1> QED
  BY <1>6, <1>7, <1>8, <1>9 DEF ToldByHeader

------------------------------------------------------------------------------
(* Records as they are signed. *)
DataOf(n) == CharacterStrings(TxtOf[n])
TailHead(t, n) ==
  Cat(Cat(Cat(U16(TypeCodes[t.type_covered]), U16(ClassCodes[t.class])), U32(t.original_ttl)),
      U16(Len(DataOf(n))))
RecordBytes(owner, t, n) == Cat(Written(owner), Cat(TailHead(t, n), DataOf(n)))

LEMMA DataTyped ==
  ASSUME NEW n \in FitData
  PROVE  /\ AllShort(TxtOf[n]) /\ DataOf(n) \in Seq(Bytes)
         /\ Len(DataOf(n)) \in Nat /\ Len(DataOf(n)) < 65536
<1> DEFINE strings == TxtOf[n]
<1>1. strings \in Seq(Seq(Bytes)) /\ \A i \in DOMAIN strings : Len(strings[i]) <= MAX_STRING
  BY RecordAssumption DEF FitData
<1>2. MAX_STRING \in Nat /\ MAX_STRING < 256
  BY EncoderAssumption DEF Bytes
<1> HIDE DEF strings
<1>3. \A i \in 1 .. Len(strings) : Len(strings[i]) \in Nat
  BY <1>1
<1>4. AllShort(strings)
  BY <1>1, <1>2, <1>3 DEF AllShort
<1>5. DataOf(n) \in Seq(Bytes)
  BY <1>1, StringBytes DEF DataOf, strings
<1>6. Len(DataOf(n)) \in Words
  BY DEF FitData, DataOf
<1>7. Len(DataOf(n)) \in Nat /\ Len(DataOf(n)) < 65536
  BY <1>6, WordNumber
<1> QED
  BY <1>4, <1>5, <1>7 DEF strings

LEMMA TailTyped ==
  ASSUME NEW t \in Terms, NEW n \in FitData
  PROVE  /\ TailHead(t, n) \in Seq(Bytes) /\ Len(TailHead(t, n)) = 10
         /\ Cat(TailHead(t, n), DataOf(n)) \in Seq(Bytes)
         /\ Len(Cat(TailHead(t, n), DataOf(n))) = 10 + Len(DataOf(n))
<1> DEFINE a == U16(TypeCodes[t.type_covered])  b == U16(ClassCodes[t.class])
           c == U32(t.original_ttl)  d == U16(Len(DataOf(n)))
           e == Cat(a, b)  f == Cat(e, c)  g == Cat(f, d)  h == Cat(g, DataOf(n))
<1>1. /\ TypeCodes[t.type_covered] \in Nat /\ ClassCodes[t.class] \in Nat /\ t.original_ttl \in Nat
      /\ Len(DataOf(n)) \in Nat /\ DataOf(n) \in Seq(Bytes)
  BY TermsTyped, TypeCode, ClassCode, DataTyped
<1>2. a \in Seq(Bytes) /\ Len(a) = 2
  BY <1>1, U16Bytes
<1>3. b \in Seq(Bytes) /\ Len(b) = 2
  BY <1>1, U16Bytes
<1>4. c \in Seq(Bytes) /\ Len(c) = 4
  BY <1>1, FourBytes
<1>5. d \in Seq(Bytes) /\ Len(d) = 2
  BY <1>1, U16Bytes
<1> HIDE DEF a, b, c, d
<1>6. e \in Seq(Bytes) /\ Len(e) = Len(a) + Len(b)
  BY <1>2, <1>3, CatLength
<1> HIDE DEF e
<1>7. f \in Seq(Bytes) /\ Len(f) = Len(e) + Len(c)
  BY <1>4, <1>6, CatLength
<1> HIDE DEF f
<1>8. g \in Seq(Bytes) /\ Len(g) = Len(f) + Len(d)
  BY <1>5, <1>7, CatLength
<1> HIDE DEF g
<1>9. h \in Seq(Bytes) /\ Len(h) = Len(g) + Len(DataOf(n))
  <2> DEFINE data == DataOf(n)
  <2>1. data \in Seq(Bytes)
    BY <1>1
  <2> HIDE DEF data
  <2>2. Cat(g, data) \in Seq(Bytes) /\ Len(Cat(g, data)) = Len(g) + Len(data)
    BY <1>8, <2>1, CatLength
  <2> QED
    BY <2>2 DEF data
<1> HIDE DEF h
<1>10. Len(g) = 10
  BY <1>2, <1>3, <1>4, <1>5, <1>6, <1>7, <1>8
<1>11. g \in Seq(Bytes) /\ Len(g) = 10 /\ h \in Seq(Bytes) /\ Len(h) = 10 + Len(DataOf(n))
  BY <1>8, <1>9, <1>10
<1> QED
  BY <1>11 DEF h, g, f, e, d, c, b, a, TailHead

LEMMA SameTail ==
  ASSUME NEW t \in Terms, NEW n \in FitData, NEW u \in Terms, NEW o \in FitData,
         TailHead(t, n) = TailHead(u, o)
  PROVE  t.class = u.class /\ Len(DataOf(n)) = Len(DataOf(o))
<1> DEFINE a == U16(TypeCodes[t.type_covered])  b == U16(ClassCodes[t.class])
           c == U32(t.original_ttl)  d == U16(Len(DataOf(n)))  e == Cat(a, b)  f == Cat(e, c)
           p == U16(TypeCodes[u.type_covered])  q == U16(ClassCodes[u.class])
           r == U32(u.original_ttl)  s == U16(Len(DataOf(o)))  v == Cat(p, q)  w == Cat(v, r)
<1>1. ASSUME NEW k \in Terms, NEW l \in FitData
      PROVE  /\ Two(U16(TypeCodes[k.type_covered])) /\ Two(U16(ClassCodes[k.class]))
             /\ Four(U32(k.original_ttl)) /\ Two(U16(Len(DataOf(l))))
  <2>1. /\ TypeCodes[k.type_covered] \in Nat /\ ClassCodes[k.class] \in Nat /\ k.original_ttl \in Nat
        /\ Len(DataOf(l)) \in Nat
    BY TermsTyped, TypeCode, ClassCode, DataTyped
  <2> QED
    BY <2>1, U16Bytes, FourBytes DEF Two, Four
<1>2. Two(a) /\ Two(b) /\ Four(c) /\ Two(d) /\ Two(p) /\ Two(q) /\ Four(r) /\ Two(s)
  BY <1>1
<1>3. Cat(f, d) = Cat(w, s)
  BY DEF TailHead
<1> HIDE DEF a, b, c, d, p, q, r, s
<1> USE <1>2 DEF Two, Four
<1>4. /\ e \in Seq(Bytes) /\ Len(e) = Len(a) + Len(b)
      /\ v \in Seq(Bytes) /\ Len(v) = Len(p) + Len(q)
  BY CatLength
<1>5. e = v => b = q
  BY SameStart
<1> HIDE DEF e, v
<1>6. /\ f \in Seq(Bytes) /\ Len(f) = Len(e) + Len(c)
      /\ w \in Seq(Bytes) /\ Len(w) = Len(v) + Len(r)
  BY <1>4, CatLength
<1>7. f = w => e = v
  BY <1>4, SameStart
<1> HIDE DEF f, w
<1>8. Len(f) = Len(w)
  BY <1>4, <1>6
<1>9. f = w /\ d = s
  BY <1>3, <1>6, <1>8, SameStart
<1>10. b = q
  BY <1>5, <1>7, <1>9
<1>11. t.class = u.class
  <2>1. t.class \in DOMAIN ClassCodes /\ u.class \in DOMAIN ClassCodes
    BY TermsTyped
  <2> DEFINE x == ClassCodes[t.class]  y == ClassCodes[u.class]
  <2>2. x \in Nat /\ x < 65536 /\ y \in Nat /\ y < 65536
    BY <2>1, ClassCode
  <2>3. U16(x) = U16(y)
    BY <1>10 DEF b, q
  <2>4. x = y
    <3> HIDE DEF x, y
    <3> QED
      BY <2>2, <2>3, U16Same
  <2> QED
    BY <2>1, <2>4, ClassCodeTold
<1>12. Len(DataOf(n)) = Len(DataOf(o))
  <2> DEFINE x == Len(DataOf(n))  y == Len(DataOf(o))
  <2>1. x \in Nat /\ x < 65536 /\ y \in Nat /\ y < 65536
    BY DataTyped
  <2>2. U16(x) = U16(y)
    BY <1>9 DEF d, s
  <2>3. x = y
    <3> HIDE DEF x, y
    <3> QED
      BY <2>1, <2>2, U16Same
  <2> QED
    BY <2>3
<1> QED
  BY <1>11, <1>12

LEMMA SameRecord ==
  ASSUME NEW owner \in Seq(Labels), NEW t \in Terms, NEW n \in FitData,
         NEW other \in Seq(Labels), NEW u \in Terms, NEW o \in FitData,
         NEW x \in Seq(Bytes), NEW y \in Seq(Bytes),
         Cat(RecordBytes(owner, t, n), x) = Cat(RecordBytes(other, u, o), y)
  PROVE  /\ owner = other /\ t.class = u.class /\ n = o
         /\ RecordBytes(owner, t, n) = RecordBytes(other, u, o)
<1> DEFINE a == Written(owner)  h == TailHead(t, n)  d == DataOf(n)  tail == Cat(h, d)
           b == Written(other)  g == TailHead(u, o)  e == DataOf(o)  end == Cat(g, e)
<1>1. a \in Seq(Bytes) /\ b \in Seq(Bytes)
  BY NameEnds
<1>2. h \in Seq(Bytes) /\ Len(h) = 10 /\ tail \in Seq(Bytes) /\ d \in Seq(Bytes)
  BY TailTyped, DataTyped
<1>3. g \in Seq(Bytes) /\ Len(g) = 10 /\ end \in Seq(Bytes) /\ e \in Seq(Bytes)
  BY TailTyped, DataTyped
<1>4. RecordBytes(owner, t, n) = Cat(a, tail) /\ RecordBytes(other, u, o) = Cat(b, end)
  BY DEF RecordBytes
<1> HIDE DEF h, d, g, e
<1>5. owner = other /\ Cat(tail, x) = Cat(end, y)
  <2> HIDE DEF tail, end
  <2>1. Cat(Cat(a, tail), x) = Cat(a, Cat(tail, x)) /\ Cat(Cat(b, end), y) = Cat(b, Cat(end, y))
    BY <1>1, <1>2, <1>3, CatThree
  <2> DEFINE r == Cat(tail, x)  s == Cat(end, y)
  <2>2. r \in Seq(Bytes) /\ s \in Seq(Bytes)
    BY <1>2, <1>3, CatLength
  <2>3. Cat(a, r) = Cat(b, s)
    BY <1>4, <2>1
  <2> HIDE DEF r, s
  <2>4. owner = other /\ r = s
    BY <2>2, <2>3, SameName
  <2> QED
    BY <2>4 DEF r, s
<1>6. h = g /\ Cat(d, x) = Cat(e, y)
  <2>1. Cat(Cat(h, d), x) = Cat(h, Cat(d, x)) /\ Cat(Cat(g, e), y) = Cat(g, Cat(e, y))
    BY <1>2, <1>3, CatThree
  <2> DEFINE r == Cat(d, x)  s == Cat(e, y)
  <2>2. r \in Seq(Bytes) /\ s \in Seq(Bytes)
    BY <1>2, <1>3, CatLength
  <2>3. Cat(h, r) = Cat(g, s) /\ Len(h) = Len(g)
    BY <1>2, <1>3, <1>5, <2>1
  <2> HIDE DEF r, s
  <2>4. h = g /\ r = s
    BY <1>2, <1>3, <2>2, <2>3, SameStart
  <2> QED
    BY <2>4 DEF r, s
<1>7. t.class = u.class /\ Len(d) = Len(e)
  BY <1>6, SameTail DEF h, g, d, e
<1>8. d = e
  BY <1>2, <1>3, <1>6, <1>7, SameStart
<1>9. TxtOf[n] = TxtOf[o]
  BY <1>8, DataTyped, SameStrings DEF d, e, DataOf
<1>10. n = o
  BY <1>9, CodecAssumption DEF FitData
<1> QED
  BY <1>4, <1>5, <1>6, <1>7, <1>8, <1>10

RecordParts(owner, t, records) == [i \in DOMAIN records |-> RecordBytes(owner, t, records[i])]

LEMMA PartsTyped ==
  ASSUME NEW owner \in Seq(Labels), NEW t \in Terms, NEW records \in Seq(FitData)
  PROVE  /\ RecordParts(owner, t, records) \in Seq(Seq(Bytes))
         /\ Len(RecordParts(owner, t, records)) = Len(records)
         /\ \A i \in 1 .. Len(records) :
              /\ records[i] \in FitData
              /\ RecordParts(owner, t, records)[i] = RecordBytes(owner, t, records[i])
              /\ RecordParts(owner, t, records)[i] # <<>>
<1> DEFINE p == RecordParts(owner, t, records)  m == Len(records)
<1>1. m \in Nat /\ DOMAIN records = 1 .. m /\ \A i \in 1 .. m : records[i] \in FitData
  OBVIOUS
<1>2. ASSUME NEW n \in FitData
      PROVE  RecordBytes(owner, t, n) \in Seq(Bytes) /\ RecordBytes(owner, t, n) # <<>>
  <2> DEFINE a == Written(owner)  tail == Cat(TailHead(t, n), DataOf(n))
  <2>1. a \in Seq(Bytes)
    BY NameEnds
  <2>2. tail \in Seq(Bytes) /\ Len(tail) = 10 + Len(DataOf(n)) /\ Len(DataOf(n)) \in Nat
    BY TailTyped, DataTyped
  <2> HIDE DEF a, tail
  <2>3. Cat(a, tail) \in Seq(Bytes) /\ Len(Cat(a, tail)) = Len(a) + Len(tail) /\ Len(a) \in Nat
    BY <2>1, <2>2, CatLength
  <2>4. Len(Cat(a, tail)) # 0
    BY <2>2, <2>3
  <2>5. Cat(a, tail) # <<>>
    BY <2>4
  <2> QED
    BY <2>3, <2>5 DEF RecordBytes, a, tail
<1>3. \A i \in 1 .. m : /\ p[i] = RecordBytes(owner, t, records[i])
                        /\ p[i] \in Seq(Bytes) /\ p[i] # <<>>
  BY <1>1, <1>2 DEF RecordParts
<1> DEFINE Q == Seq(Bytes)
<1>4. p = [i \in 1 .. m |-> p[i]]
  BY <1>1 DEF RecordParts
<1> HIDE DEF p, Q
<1>5. p \in Seq(Q) /\ Len(p) = m
  BY <1>1, <1>3, <1>4 DEF Q
<1> QED
  BY <1>1, <1>3, <1>5 DEF p, Q

LEMMA RecordsApart ==
  ASSUME NEW owner \in Seq(Labels), NEW t \in Terms, NEW r \in Seq(FitData),
         NEW other \in Seq(Labels), NEW u \in Terms, NEW s \in Seq(FitData)
  PROVE  Apart(Bytes, RecordParts(owner, t, r), RecordParts(other, u, s))
<1> DEFINE p == RecordParts(owner, t, r)  q == RecordParts(other, u, s)
<1>1. SUFFICES ASSUME NEW i \in 1 .. Len(p), i <= Len(q), NEW x \in Seq(Bytes), NEW y \in Seq(Bytes),
                      Cat(p[i], x) = Cat(q[i], y)
               PROVE  p[i] = q[i]
  BY DEF Apart
<1>2. Len(p) = Len(r) /\ Len(q) = Len(s) /\ Len(r) \in Nat /\ Len(s) \in Nat
  BY PartsTyped
<1>3. i \in 1 .. Len(r) /\ i \in 1 .. Len(s)
  BY <1>1, <1>2
<1>4. p[i] = RecordBytes(owner, t, r[i]) /\ r[i] \in FitData
  BY <1>3, PartsTyped
<1>5. q[i] = RecordBytes(other, u, s[i]) /\ s[i] \in FitData
  BY <1>3, PartsTyped
<1> HIDE DEF p, q
<1> QED
  BY <1>1, <1>4, <1>5, SameRecord

LEMMA SameRecords ==
  ASSUME NEW owner \in Seq(Labels), NEW t \in Terms, NEW r \in Seq(FitData),
         NEW other \in Seq(Labels), NEW u \in Terms, NEW s \in Seq(FitData),
         FlattenSeq(RecordParts(owner, t, r)) = FlattenSeq(RecordParts(other, u, s))
  PROVE  r = s /\ (r # <<>> => owner = other /\ t.class = u.class)
<1> DEFINE p == RecordParts(owner, t, r)  q == RecordParts(other, u, s)
<1>1. /\ p \in Seq(Seq(Bytes)) /\ Len(p) = Len(r)
      /\ \A i \in 1 .. Len(r) : r[i] \in FitData /\ p[i] = RecordBytes(owner, t, r[i]) /\ p[i] # <<>>
  BY PartsTyped
<1>2. /\ q \in Seq(Seq(Bytes)) /\ Len(q) = Len(s)
      /\ \A i \in 1 .. Len(s) : s[i] \in FitData /\ q[i] = RecordBytes(other, u, s[i]) /\ q[i] # <<>>
  BY PartsTyped
<1>3. Apart(Bytes, p, q) /\ Apart(Bytes, q, p)
  BY RecordsApart
<1>4. FlattenSeq(p) = FlattenSeq(q)
  OBVIOUS
<1> HIDE DEF p, q
<1>5. p = q
  <2>1. (\A i \in 1 .. Len(p) : p[i] # <<>>) /\ (\A i \in 1 .. Len(q) : q[i] # <<>>)
    BY <1>1, <1>2
  <2> QED
    BY <1>1, <1>2, <1>3, <1>4, <2>1, FlattenApart
<1>6. Len(r) = Len(s) /\ Len(r) \in Nat
  BY <1>1, <1>2, <1>5
<1>7. ASSUME NEW i \in 1 .. Len(r)
      PROVE  r[i] = s[i] /\ owner = other /\ t.class = u.class
  <2> DEFINE none == <<>>
  <2>1. none \in Seq(Bytes) /\ r[i] \in FitData /\ s[i] \in FitData
    BY <1>1, <1>2, <1>6
  <2>2. Cat(RecordBytes(owner, t, r[i]), none) = Cat(RecordBytes(other, u, s[i]), none)
    BY <1>1, <1>2, <1>5, <1>6
  <2> HIDE DEF none
  <2> QED
    BY <2>1, <2>2, SameRecord
<1>8. r = s
  BY <1>6, <1>7, SeqEqual
<1>9. r # <<>> => 1 \in 1 .. Len(r)
  BY <1>6
<1> QED
  BY <1>7, <1>8, <1>9

------------------------------------------------------------------------------
(* What the encoder of a message is given, and what it then holds. *)
Holds(e, b) == Sound(e) /\ e.buffer = b

LEMMA HoldsMore ==
  ASSUME NEW e, NEW b, Holds(e, b), NEW d \in Seq(Bytes)
  PROVE  Holds(WriteSlice(e, d), Cat(b, d)) /\ b \in Seq(Bytes)
<1>1. PICK a \in Seq(Bytes), c \in BOOLEAN : \E ps \in Seq(PointersTo(Len(a))) : e = EncoderOf(a, ps, c)
  BY DEF Holds, Sound
<1>2. PICK ps \in Seq(PointersTo(Len(a))) : e = EncoderOf(a, ps, c)
  BY <1>1
<1>3. a = b
  BY <1>2, EncoderFields DEF Holds
<1>4. WriteSlice(e, d) = EncoderOf(Cat(a, d), ps, c)
  BY <1>2, WriteTo
<1>5. WriteSlice(e, d).buffer = Cat(b, d)
  BY <1>3, <1>4, EncoderFields
<1>6. Sound(WriteSlice(e, d))
  BY SoundWrite DEF Holds
<1> QED
  BY <1>3, <1>5, <1>6 DEF Holds

HoldsName(out, b, labels) ==
  out \in Broken \/ (Emittable(labels) /\ Holds(out, Cat(b, Written(labels))))

LEMMA CanonicalName ==
  ASSUME NEW e, NEW b, Holds(e, b), NEW labels \in Seq(Labels)
  PROVE  HoldsName(EmitAsCanonical(e, labels, TRUE), b, labels)
<1> DEFINE out == EmitAsCanonical(e, labels, TRUE)
           wire == CharacterStrings(labels)
           zero == <<0>>
<1>1. PICK a \in Seq(Bytes), c \in BOOLEAN : \E ps \in Seq(PointersTo(Len(a))) : e = EncoderOf(a, ps, c)
  BY DEF Holds, Sound
<1>2. PICK ps \in Seq(PointersTo(Len(a))) : e = EncoderOf(a, ps, c)
  BY <1>1
<1>3. a = b
  BY <1>2, EncoderFields DEF Holds
<1>4. wire \in Seq(Bytes) /\ zero \in Seq(Bytes)
  <2>1. wire \in Seq(Bytes)
    BY <1>1, StartsOf
  <2>2. 0 \in Bytes
    BY DEF Bytes
  <2> QED
    BY <2>1, <2>2
<1>5. out \in Broken \/ InFull(out, b, ps, c, labels)
  <2>1. \/ out = Panicked /\ Len(b) + Len(wire) > MAX_OFFSET
        \/ out = Failed /\ ~Emittable(labels)
        \/ InFull(out, b, ps, c, labels)
        \/ ~TRUE /\ Pointed(out, b, ps, c, labels)
    BY <1>2, <1>3, EmittedName
  <2> QED
    BY <2>1 DEF Broken
<1> HIDE DEF out
<1>6. CASE InFull(out, b, ps, c, labels)
  <2> DEFINE bytes == Cat(b, wire)
  <2>1. PICK qs \in Seq(PointersTo(Len(bytes))) : out = EncoderOf(Cat(bytes, zero), qs, c)
    BY <1>6 DEF InFull
  <2>2. bytes \in Seq(Bytes)
    BY <1>3, <1>4, CatLength
  <2>3. Cat(bytes, zero) = Cat(b, Written(labels))
    <3>1. Written(labels) = Cat(wire, zero)
      BY DEF Written
    <3> HIDE DEF wire, zero
    <3>2. Cat(Cat(b, wire), zero) = Cat(b, Cat(wire, zero))
      BY <1>3, <1>4, CatThree
    <3> QED
      BY <3>1, <3>2
  <2> HIDE DEF bytes, zero
  <2>4. Holds(EncoderOf(bytes, qs, c), bytes)
    BY <2>1, <2>2, EncoderFields DEF Sound, Holds
  <2>5. WriteSlice(EncoderOf(bytes, qs, c), zero) = EncoderOf(Cat(bytes, zero), qs, c)
    BY <1>4, <2>2, WriteTo
  <2>6. Holds(out, Cat(bytes, zero))
    BY <1>4, <2>1, <2>4, <2>5, HoldsMore
  <2>7. Emittable(labels)
    BY <1>6 DEF InFull
  <2> QED
    BY <2>3, <2>6, <2>7 DEF HoldsName, out
<1> QED
  BY <1>5, <1>6 DEF HoldsName, out

LEMMA CanonicalHolds == Holds(CanonicalEncoder, <<>>)
<1> DEFINE none == <<>>  c == TRUE
<1>1. c \in BOOLEAN /\ CanonicalEncoder = [NewEncoder EXCEPT !.canonical_names = c]
  BY DEF CanonicalEncoder
<1> HIDE DEF c
<1>2. Sound(CanonicalEncoder) /\ CanonicalEncoder = EncoderOf(none, none, c)
  BY <1>1, NewIsSound
<1> HIDE DEF none
<1>3. Holds(CanonicalEncoder, none)
  BY <1>2, EncoderFields DEF Holds
<1> QED
  BY <1>3 DEF none

LEMMA DataPlaced ==
  ASSUME NEW n \in FitData
  PROVE  EmitTxt(CanonicalEncoder, TxtOf[n]) \notin Broken
         /\ EmitTxt(CanonicalEncoder, TxtOf[n]).buffer = DataOf(n)
<1> DEFINE none == <<>>
<1>1. none \in Seq(Bytes) /\ DataOf(n) \in Seq(Bytes)
  BY DataTyped
<1>2. Holds(CanonicalEncoder, none)
  BY CanonicalHolds DEF none
<1>3. EmitTxt(CanonicalEncoder, TxtOf[n]) = WriteSlice(CanonicalEncoder, DataOf(n))
  <2> DEFINE strings == TxtOf[n]
  <2>1. strings \in Seq(Seq(Bytes)) /\ \A i \in DOMAIN strings : Len(strings[i]) <= MAX_STRING
    BY RecordAssumption DEF FitData
  <2>2. MAX_STRING \in Nat
    BY EncoderAssumption DEF Bytes
  <2> HIDE DEF strings
  <2>3. \A i \in DOMAIN strings : ~(Len(strings[i]) > MAX_STRING)
    <3>1. \A i \in DOMAIN strings : Len(strings[i]) \in Nat
      BY <2>1
    <3> QED
      BY <2>1, <2>2, <3>1
  <2> QED
    BY <2>3 DEF EmitTxt, DataOf, strings
<1>4. Cat(none, DataOf(n)) = DataOf(n)
  BY <1>1, CatNothing
<1> HIDE DEF none
<1>5. Holds(WriteSlice(CanonicalEncoder, DataOf(n)), DataOf(n))
  BY <1>1, <1>2, <1>4, HoldsMore
<1> QED
  BY <1>3, <1>5, EncoderTyped DEF Holds

LEMMA PlacedRecord ==
  ASSUME NEW e, NEW owner, NEW t \in Terms, NEW n \in FitData
  PROVE  LET named == EmitAsCanonical(e, RecordOwner(owner, t), TRUE)
         IN  PlaceRecord(e, owner, t, n) =
               IF named \in Broken THEN Panicked
               ELSE WriteSlice(named, Cat(TailHead(t, n), DataOf(n)))
<1> DEFINE named == EmitAsCanonical(e, RecordOwner(owner, t), TRUE)
           data == EmitTxt(CanonicalEncoder, TxtOf[n])
<1>1. data \notin Broken /\ data.buffer = DataOf(n)
  BY DataPlaced
<1>2. PlaceRecord(e, owner, t, n) =
        IF {named, data} \cap Broken # {} THEN Panicked
        ELSE WriteSlice(named, U16(TypeCodes[t.type_covered]) \o U16(ClassCodes[t.class])
                                 \o U32(t.original_ttl) \o U16(Len(data.buffer)) \o data.buffer)
  BY DEF PlaceRecord
<1> HIDE DEF named, data
<1>3. {named, data} \cap Broken # {} <=> named \in Broken
  BY <1>1
<1>4. PlaceRecord(e, owner, t, n) =
        IF named \in Broken THEN Panicked ELSE WriteSlice(named, Cat(TailHead(t, n), DataOf(n)))
  BY <1>1, <1>2, <1>3 DEF TailHead, Cat
<1> QED
  BY <1>4 DEF named

Encoders == {e \in BinEncoder : Sound(e)} \cup {Panicked}

LEMMA PlaceTyped ==
  ASSUME NEW e, Sound(e), NEW owner, NEW t \in Terms, RecordOwner(owner, t) \in Seq(Labels),
         NEW n \in FitData
  PROVE  PlaceRecord(e, owner, t, n) \in Encoders
<1> DEFINE named == EmitAsCanonical(e, RecordOwner(owner, t), TRUE)
           tail == Cat(TailHead(t, n), DataOf(n))
<1>1. PlaceRecord(e, owner, t, n) = IF named \in Broken THEN Panicked ELSE WriteSlice(named, tail)
  BY PlacedRecord
<1>2. tail \in Seq(Bytes)
  BY TailTyped
<1>3. named \in Broken \/ Sound(named)
  BY SoundName
<1> HIDE DEF named, tail
<1>4. named \in Broken \/ Sound(WriteSlice(named, tail))
  BY <1>2, <1>3, SoundWrite
<1> QED
  BY <1>1, <1>4, EncoderTyped DEF Encoders

HoldsRecord(out, b, owner, t, n) ==
  out = Panicked \/ (Emittable(owner) /\ Holds(out, Cat(b, RecordBytes(owner, t, n))))

LEMMA RecordHeld ==
  ASSUME NEW e, NEW b, Holds(e, b),
         NEW owner, NEW t \in Terms, RecordOwner(owner, t) \in Seq(Labels), NEW n \in FitData
  PROVE  HoldsRecord(PlaceRecord(e, owner, t, n), b, RecordOwner(owner, t), t, n)
<1> DEFINE low == RecordOwner(owner, t)
           named == EmitAsCanonical(e, low, TRUE)
           tail == Cat(TailHead(t, n), DataOf(n))
           out == PlaceRecord(e, owner, t, n)
<1>1. out = IF named \in Broken THEN Panicked ELSE WriteSlice(named, tail)
  BY PlacedRecord
<1>2. tail \in Seq(Bytes)
  BY TailTyped
<1>3. HoldsName(named, b, low)
  BY CanonicalName
<1>4. low \in Seq(Labels) /\ RecordBytes(low, t, n) = Cat(Written(low), tail)
  BY DEF RecordBytes
<1> HIDE DEF named, tail, low, out
<1>5. CASE named \in Broken
  BY <1>1, <1>5 DEF HoldsRecord, out
<1>6. CASE named \notin Broken
  <2>1. Emittable(low) /\ Holds(named, Cat(b, Written(low)))
    BY <1>3, <1>6 DEF HoldsName
  <2>2. named \notin Broken
    BY <1>6
  <2>3. Holds(out, Cat(Cat(b, Written(low)), tail))
    BY <1>1, <1>2, <2>1, <2>2, HoldsMore
  <2>4. b \in Seq(Bytes) /\ Written(low) \in Seq(Bytes)
    BY <1>2, <1>4, HoldsMore, NameEnds
  <2>5. Cat(Cat(b, Written(low)), tail) = Cat(b, Cat(Written(low), tail))
    BY <1>2, <2>4, CatThree
  <2> QED
    BY <1>4, <2>1, <2>3, <2>5 DEF HoldsRecord, low, out
<1> QED
  BY <1>5, <1>6

------------------------------------------------------------------------------
(* All records, one after the other. *)
Placing(owner, t, records) ==
  [i \in 1 .. Len(records) |->
     [f \in Encoders |-> IF f = Panicked THEN f ELSE PlaceRecord(f, owner, t, records[i])]]

LEMMA PlaceRun ==
  ASSUME NEW e \in Encoders, NEW owner, NEW t \in Terms, RecordOwner(owner, t) \in Seq(Labels),
         NEW records \in Seq(FitData)
  PROVE  \E f : /\ IsRun(f, Encoders, Len(records), e, Placing(owner, t, records))
                /\ PlaceRecords(e, owner, t, records) = f[Len(records)]
<1> DEFINE n == Len(records)
           T == Encoders
           Next1(f, i) == IF f = Panicked THEN f ELSE PlaceRecord(f, owner, t, records[i])
           next == Placing(owner, t, records)
           Step(h) == [s \in SUBSET (1 .. n) |-> IF s = {} THEN e ELSE Next1(h[s \ {Max(s)}], Max(s))]
           it == CHOOSE h : h = Step(h)
<1>1. n \in Nat /\ DOMAIN records = 1 .. n /\ \A i \in 1 .. n : records[i] \in FitData
  OBVIOUS
<1>2. e \in T
  OBVIOUS
<1>3. ASSUME NEW i \in 1 .. n, NEW f \in T
      PROVE  Next1(f, i) \in T /\ next[i][f] = Next1(f, i)
  <2>1. f = Panicked \/ Sound(f)
    BY DEF Encoders
  <2>2. Sound(f) => PlaceRecord(f, owner, t, records[i]) \in T
    BY <1>1, PlaceTyped
  <2>3. Next1(f, i) \in T
    BY <2>1, <2>2
  <2> QED
    BY <2>3 DEF Placing
<1> HIDE DEF T
<1>4. next \in [1 .. n -> [T -> T]]
  <2>1. \A i \in 1 .. n : next[i] \in [T -> T]
    BY <1>3 DEF Placing, T
  <2>2. next = [i \in 1 .. n |-> next[i]]
    BY DEF Placing
  <2> HIDE DEF next
  <2> QED
    BY <2>1, <2>2
<1> HIDE DEF next
<1>5. PlaceRecords(e, owner, t, records) = it[1 .. n]
  <2> DEFINE Step2(h) == [s \in SUBSET (DOMAIN records) |->
                            IF s = {} THEN e
                            ELSE IF h[s \ {Max(s)}] = Panicked THEN h[s \ {Max(s)}]
                                 ELSE PlaceRecord(h[s \ {Max(s)}], owner, t, records[Max(s)])]
             it2 == CHOOSE h : h = Step2(h)
  <2>1. PlaceRecords(e, owner, t, records) = it2[DOMAIN records]
    BY DEF PlaceRecords, FoldLeft, MapThenFoldSet
  <2>2. DOMAIN records = 1 .. n
    BY <1>1
  <2>3. ASSUME NEW h
        PROVE  Step2(h) = Step(h)
    BY <2>2
  <2> HIDE DEF Step, Step2
  <2>4. it2 = it
    BY <2>3
  <2> QED
    BY <2>1, <2>2, <2>4
<1>6. \E h : h = Step(h)
  <2>1. PICK h : IsFold(h, T, n, e, next)
    BY <1>1, <1>2, <1>4, FoldExists
  <2>2. h = [s \in SUBSET (1 .. n) |-> h[s]]
    BY <2>1 DEF IsFold
  <2>3. ASSUME NEW s \in SUBSET (1 .. n)
        PROVE  h[s] = IF s = {} THEN e ELSE Next1(h[s \ {Max(s)}], Max(s))
    <3>1. CASE s = {}
      BY <2>1, <3>1 DEF IsFold
    <3>2. CASE s # {}
      <4>1. Max(s) \in 1 .. n
        BY <1>1, <3>2, LargestNumber
      <4>2. s \ {Max(s)} \in SUBSET (1 .. n)
        OBVIOUS
      <4>3. h[s \ {Max(s)}] \in T /\ h[s] = next[Max(s)][h[s \ {Max(s)}]]
        BY <2>1, <3>2, <4>2 DEF IsFold
      <4> HIDE DEF Next1
      <4> QED
        BY <1>3, <3>2, <4>1, <4>3
    <3> QED
      BY <3>1, <3>2
  <2> HIDE DEF Next1
  <2> QED
    BY <2>2, <2>3
<1> HIDE DEF Next1
<1>7. it = Step(it)
  <2> HIDE DEF Step
  <2> QED
    BY <1>6
<1> HIDE DEF it
<1>8. FoldsTo(it, T, n, e, next)
  <2>1. ASSUME NEW s \in SUBSET (1 .. n), s # {}, it[s \ {Max(s)}] \in T
        PROVE  it[s] = next[Max(s)][it[s \ {Max(s)}]]
    <3>1. Max(s) \in 1 .. n
      BY <1>1, <2>1, LargestNumber
    <3>2. it[s] = Next1(it[s \ {Max(s)}], Max(s))
      BY <1>7, <2>1
    <3> QED
      BY <1>3, <2>1, <3>1, <3>2
  <2>2. ASSUME NEW s \in SUBSET (1 .. n), s = {}
        PROVE  it[s] = e
    BY <1>7, <2>2
  <2> QED
    BY <2>1, <2>2 DEF FoldsTo
<1> HIDE DEF n
<1>9. PICK f : IsRun(f, T, n, e, next) /\ it[1 .. n] = f[n]
  <2>1. n \in Nat /\ e \in T /\ next \in [1 .. n -> [T -> T]] /\ FoldsTo(it, T, n, e, next)
    BY <1>1, <1>2, <1>4, <1>8
  <2> QED
    BY <2>1, FoldIsRun
<1> QED
  BY <1>5, <1>9 DEF T, n, next

LEMMA RecordTyped ==
  ASSUME NEW owner \in Seq(Labels), NEW t \in Terms, NEW n \in FitData
  PROVE  RecordBytes(owner, t, n) \in Seq(Bytes)
<1> DEFINE a == Written(owner)  tail == Cat(TailHead(t, n), DataOf(n))
<1>1. a \in Seq(Bytes) /\ tail \in Seq(Bytes)
  BY NameEnds, TailTyped
<1>2. RecordBytes(owner, t, n) = Cat(a, tail)
  BY DEF RecordBytes
<1> HIDE DEF a, tail
<1> QED
  BY <1>1, <1>2, CatLength

HoldsAll(out, b, owner, t, records) ==
  \/ out = Panicked
  \/ /\ records = <<>> \/ Emittable(owner)
     /\ Holds(out, Cat(b, FlattenSeq(RecordParts(owner, t, records))))

HoldsTo(out, b, owner, p, i) ==
  \/ out = Panicked
  \/ /\ i = 0 \/ Emittable(owner)
     /\ FlattenTo(p, i) \in Seq(Bytes)
     /\ Holds(out, Cat(b, FlattenTo(p, i)))

LEMMA RecordsHeld ==
  ASSUME NEW e, NEW b, Holds(e, b), NEW owner, NEW t \in Terms,
         RecordOwner(owner, t) \in Seq(Labels), NEW records \in Seq(FitData)
  PROVE  HoldsAll(PlaceRecords(e, owner, t, records), b, RecordOwner(owner, t), t, records)
<1> DEFINE low == RecordOwner(owner, t)
           n == Len(records)
           p == RecordParts(low, t, records)
           out == PlaceRecords(e, owner, t, records)
<1>1. e \in Encoders
  BY EncoderTyped DEF Holds, Encoders
<1>2. PICK f : IsRun(f, Encoders, n, e, Placing(owner, t, records)) /\ out = f[n]
  BY <1>1, PlaceRun
<1>3. n \in Nat /\ b \in Seq(Bytes)
  <2> DEFINE none == <<>>
  <2>1. none \in Seq(Bytes)
    OBVIOUS
  <2> HIDE DEF none
  <2>2. b \in Seq(Bytes)
    BY <2>1, HoldsMore
  <2> QED
    BY <2>2
<1>4. /\ f[0] = e
      /\ \A i \in 1 .. n :
           f[i] = IF f[i - 1] = Panicked THEN Panicked ELSE PlaceRecord(f[i - 1], owner, t, records[i])
  <2>1. ASSUME NEW i \in 1 .. n
        PROVE  f[i] = IF f[i - 1] = Panicked THEN Panicked ELSE PlaceRecord(f[i - 1], owner, t, records[i])
    <3>1. i - 1 \in 0 .. n
      BY <1>3
    <3>2. f[i - 1] \in Encoders /\ f[i] = Placing(owner, t, records)[i][f[i - 1]]
      BY <1>2, <3>1 DEF IsRun
    <3> QED
      BY <3>2 DEF Placing
  <2> QED
    BY <1>2, <2>1 DEF IsRun
<1>5. /\ p \in Seq(Seq(Bytes)) /\ Len(p) = n
      /\ \A i \in 1 .. n : records[i] \in FitData /\ p[i] = RecordBytes(low, t, records[i])
  BY PartsTyped
<1>6. FlattenTo(p, 0) = <<>> /\ FlattenTo(p, n) = FlattenSeq(p)
  BY <1>5, FlattenEnds
<1>7. low \in Seq(Labels) /\ low = RecordOwner(owner, t)
  OBVIOUS
<1> HIDE DEF low, p, out
<1> DEFINE numbers == {i \in 0 .. n : HoldsTo(f[i], b, low, p, i)}
<1>8. 0 \in numbers
  <2> DEFINE none == <<>>
  <2>1. none \in Seq(Bytes) /\ Cat(b, none) = b
    BY <1>3, CatNothing
  <2>2. FlattenTo(p, 0) = none
    BY <1>6
  <2> HIDE DEF none
  <2>3. HoldsTo(f[0], b, low, p, 0)
    BY <1>4, <2>1, <2>2 DEF HoldsTo
  <2> QED
    BY <1>3, <2>3
<1>9. ASSUME NEW i \in 0 .. n - 1, i \in numbers
      PROVE  i + 1 \in numbers
  <2> DEFINE before == FlattenTo(p, i)  d == Cat(b, before)  after == FlattenTo(p, i + 1)
             rec == RecordBytes(low, t, records[i + 1])
  <2>1. i + 1 \in 1 .. n /\ (i + 1) - 1 = i /\ i + 1 \in 0 .. n /\ i \in 0 .. Len(p) - 1
    BY <1>3, <1>5
  <2>2. CASE f[i] = Panicked
    <3>1. f[i + 1] = Panicked
      BY <1>4, <2>1, <2>2
    <3> QED
      BY <2>1, <3>1 DEF HoldsTo
  <2>3. CASE f[i] # Panicked
    <3>1. before \in Seq(Bytes) /\ Holds(f[i], d)
      BY <1>9, <2>3 DEF HoldsTo
    <3>2. f[i + 1] = PlaceRecord(f[i], owner, t, records[i + 1]) /\ records[i + 1] \in FitData
      BY <1>4, <1>5, <2>1, <2>3
    <3>3. HoldsRecord(f[i + 1], d, low, t, records[i + 1])
      BY <1>7, <3>1, <3>2, RecordHeld
    <3>4. after = Cat(before, rec)
      BY <1>5, <2>1, FlattenNext
    <3>5. rec \in Seq(Bytes)
      BY <1>7, <3>2, RecordTyped
    <3> HIDE DEF before, rec, after
    <3>6. Cat(Cat(b, before), rec) = Cat(b, Cat(before, rec))
      BY <1>3, <3>1, <3>5, CatThree
    <3>7. Cat(before, rec) \in Seq(Bytes)
      BY <3>1, <3>5, CatLength
    <3>8. HoldsTo(f[i + 1], b, low, p, i + 1)
      BY <3>3, <3>4, <3>6, <3>7 DEF HoldsTo, HoldsRecord, after, rec
    <3> QED
      BY <2>1, <3>8
  <2> QED
    BY <2>2, <2>3
<1> HIDE DEF numbers
<1>10. n \in 0 .. n
  BY <1>3
<1>11. n \in numbers
  BY <1>3, <1>8, <1>9, <1>10, CountedNumbers
<1>12. HoldsTo(f[n], b, low, p, n)
  BY <1>11 DEF numbers
<1>13. n = 0 => records = <<>>
  OBVIOUS
<1> QED
  BY <1>2, <1>6, <1>12, <1>13 DEF HoldsAll, HoldsTo, p, low, out

------------------------------------------------------------------------------
(* The messages. *)
MessageHead(sig) == Cat(SigHeader(sig.terms, sig.num_labels), Written(sig.signer_name))
MessageBytes(sig, owner, records) ==
  Cat(MessageHead(sig), FlattenSeq(RecordParts(owner, sig.terms, records)))
MessageOf(sig, owner, records) ==
  [sig |-> sig, rrs |-> [i \in DOMAIN records |->
                           [owner |-> owner, terms |-> sig.terms, rdata |-> records[i]]]]

LEMMA SigTyped ==
  ASSUME NEW sig \in Sig
  PROVE  sig.terms \in Terms /\ sig.num_labels \in Bytes /\ sig.num_labels \in Nat
         /\ sig.signer_name \in Seq(Labels)
<1>1. sig.terms \in Terms /\ sig.num_labels \in 0 .. MaxLabels /\ sig.signer_name \in Signers
  BY DEF Sig
<1>2. MaxLabels \in Bytes
  BY EncoderAssumption
<1>3. sig.num_labels \in Bytes /\ sig.num_labels \in Nat
  BY <1>1, <1>2 DEF Bytes
<1> QED
  BY <1>1, <1>3, MessageAssumption

LEMMA SigSame ==
  ASSUME NEW sig \in Sig, NEW other \in Sig, sig.terms = other.terms,
         sig.num_labels = other.num_labels, sig.signer_name = other.signer_name
  PROVE  sig = other
<1> DEFINE numbers == 0 .. MaxLabels
<1>1. {sig, other} \subseteq [terms : Terms, num_labels : numbers, signer_name : Signers]
  BY DEF Sig
<1> HIDE DEF numbers
<1> QED
  BY <1>1

LEMMA HeadTyped ==
  ASSUME NEW sig \in Sig
  PROVE  MessageHead(sig) \in Seq(Bytes)
<1>1. SigHeader(sig.terms, sig.num_labels) \in Seq(Bytes)
  BY SigTyped, HeaderBytes
<1>2. Written(sig.signer_name) \in Seq(Bytes)
  BY SigTyped, NameEnds
<1> QED
  BY <1>1, <1>2, CatLength DEF MessageHead

LEMMA MessageTyped ==
  ASSUME NEW sig \in Sig, NEW owner \in Seq(Labels), NEW records \in Seq(FitData)
  PROVE  /\ FlattenSeq(RecordParts(owner, sig.terms, records)) \in Seq(Bytes)
         /\ MessageBytes(sig, owner, records) \in Seq(Bytes)
         /\ MessageBytes(sig, owner, records) # Panicked
         /\ MessageOf(sig, owner, records) # Panicked
<1> DEFINE parts == RecordParts(owner, sig.terms, records)
           all == FlattenSeq(parts)
<1>1. sig.terms \in Terms
  BY SigTyped
<1>2. parts \in Seq(Seq(Bytes))
  BY <1>1, PartsTyped
<1> HIDE DEF parts
<1>3. all \in Seq(Bytes)
  <2> DEFINE i == 0
  <2>1. i \in 0 .. Len(parts)
    BY <1>2
  <2> HIDE DEF i
  <2> QED
    BY <1>2, <2>1, LongerPrefix
<1>4. MessageBytes(sig, owner, records) = Cat(MessageHead(sig), all)
  BY DEF MessageBytes, parts
<1> HIDE DEF all
<1>5. MessageBytes(sig, owner, records) \in Seq(Bytes)
  BY <1>3, <1>4, HeadTyped, CatLength
<1>6. MessageBytes(sig, owner, records) # Panicked
  BY <1>5, EncoderAssumption DEF Broken
<1>7. MessageOf(sig, owner, records) # Panicked
  <2> DEFINE rr(i) == [owner |-> owner, terms |-> sig.terms, rdata |-> records[i]]
             set == [owner : Seq(Labels), terms : Terms, rdata : Rdata]
             rrs == [i \in DOMAIN records |-> rr(i)]
             n == Len(records)
  <2>1. DOMAIN records = 1 .. n /\ n \in Nat /\ \A i \in 1 .. n : records[i] \in Rdata
    BY DEF FitData
  <2>2. \A i \in 1 .. n : rr(i) \in set
    BY <1>1, <2>1
  <2>3. rrs = [i \in 1 .. n |-> rr(i)]
    BY <2>1
  <2> HIDE DEF rr, set, n
  <2>4. rrs \in Seq(set)
    BY <2>1, <2>2, <2>3, IsASeq
  <2> HIDE DEF rrs
  <2>5. [sig |-> sig, rrs |-> rrs] \in [sig : Sig, rrs : Seq(set)]
    BY <2>4
  <2>6. MessageOf(sig, owner, records) = [sig |-> sig, rrs |-> rrs]
    BY DEF MessageOf, rrs, rr
  <2> QED
    BY <2>5, <2>6, RecordAssumption DEF set
<1> QED
  BY <1>3, <1>5, <1>6, <1>7 DEF all, parts

(* The end of a name, and the name below a wildcard. *)
LEMMA DetermineTyped ==
  ASSUME NEW name, name.labels \in Seq(Labels), NEW n \in Nat
  PROVE  DetermineName(name, n) = Failed \/ DetermineName(name, n).labels \in Seq(Labels)
<1> DEFINE labels == name.labels  size == Len(labels)
           end == SubSeq(labels, size - n + 1, size)
           rightmost == TrimTo(name, n)
           star == <<Star>>
<1>1. size \in Nat
  OBVIOUS
<1>2. rightmost.labels \in Seq(Labels)
  <2>1. CASE n > size
    BY <2>1 DEF TrimTo
  <2>2. CASE ~(n > size)
    <3>1. \A i \in size - n + 1 .. size : labels[i] \in Labels
      <4> SUFFICES ASSUME NEW i \in size - n + 1 .. size PROVE labels[i] \in Labels
        OBVIOUS
      <4>1. i \in 1 .. size
        BY <1>1, <2>2
      <4> QED
        BY <4>1, ElementOfSeq
    <3>2. end \in Seq(Labels)
      BY <1>1, <3>1, SubSeqProperties
    <3>3. rightmost = FromLabels(end)
      BY <2>2 DEF TrimTo
    <3> QED
      BY <3>2, <3>3 DEF FromLabels
  <2> QED
    BY <2>1, <2>2
<1>3. star \in Seq(Labels) /\ FromLabels(star).labels = star
  BY NameAssumption DEF FromLabels
<1> HIDE DEF rightmost, star
<1>4. \/ AppendName(FromLabels(star), rightmost) = Failed
      \/ AppendName(FromLabels(star), rightmost).labels \in Seq(Labels)
  <2>1. star \o rightmost.labels \in Seq(Labels)
    BY <1>2, <1>3, ConcatProperties
  <2> QED
    BY <1>3, <2>1 DEF AppendName
<1>5. WildcardOf(name, n) = Failed \/ WildcardOf(name, n).labels \in Seq(Labels)
  <2>1. WildcardOf(name, n) = IF IsRoot(rightmost) THEN FromLabels(star)
                              ELSE AppendName(FromLabels(star), rightmost)
    BY DEF WildcardOf, rightmost, star
  <2> QED
    BY <1>3, <1>4, <2>1
<1> QED
  BY <1>5 DEF DetermineName

LEMMA SameSize ==
  ASSUME NEW labels \in Seq(Labels)
  PROVE  Emittable(Lowercase(labels)) <=> Emittable(labels)
<1> DEFINE low == Lowercase(labels)
<1>1. DOMAIN low = DOMAIN labels /\ \A i \in DOMAIN labels : low[i] = ToLower[labels[i]] /\ labels[i] \in Labels
  BY DEF Lowercase
<1> HIDE DEF low
<1>2. \A i \in DOMAIN labels : LabelSize[low[i]] = LabelSize[labels[i]]
  BY <1>1, CaseAssumption
<1>3. WireSizes(low) = WireSizes(labels)
  BY <1>1, <1>2 DEF WireSizes
<1>4. WireSize(low) = WireSize(labels)
  BY <1>3 DEF WireSize
<1> QED
  BY <1>4 DEF Emittable, low

(* What a call makes: a message and its bytes, or a panic. *)
Makes(message, bytes, sig, owner, records) ==
  \/ bytes = Panicked
  \/ message = MessageOf(sig, owner, records) /\ bytes = MessageBytes(sig, owner, records)

LEMMA Constructed ==
  ASSUME NEW name, name.labels \in Seq(Labels), NEW sig \in Sig,
         NEW records \in Seq(FitData)
  PROVE  \E low \in Seq(Labels) :
           Makes(ConstructMessage(name, sig, records), ConstructBytes(name, sig, records),
                 sig, low, records)
<1> DEFINE message == ConstructMessage(name, sig, records)
           bytes == ConstructBytes(name, sig, records)
           owner == DetermineName(name, sig.num_labels)
           low == RecordOwner(owner, sig.terms)
           header == SigHeader(sig.terms, sig.num_labels)
           begun == WriteSlice(CanonicalEncoder, header)
           signer == EmitAsCanonical(begun, sig.signer_name, TRUE)
           all == PlaceRecords(signer, owner, sig.terms, records)
<1>1. /\ sig.terms \in Terms /\ sig.num_labels \in Bytes /\ sig.num_labels \in Nat
      /\ sig.signer_name \in Seq(Labels)
  BY SigTyped
<1>2. owner = Failed \/ owner.labels \in Seq(Labels)
  BY <1>1, DetermineTyped
<1>3. bytes = IF owner = Failed \/ signer \in Broken \/ all = Panicked THEN Panicked ELSE all.buffer
  BY DEF ConstructBytes
<1>4. message = IF \/ owner = Failed
                   \/ ~Emittable(sig.signer_name)
                   \/ records # <<>> /\ ~Emittable(owner.labels)
                THEN Panicked ELSE MessageOf(sig, low, records)
  BY DEF ConstructMessage, MessageOf, RecordOwner
<1>5. \E labels : labels \in Seq(Labels)
  BY EmptySeq
<1>6. header \in Seq(Bytes) /\ Len(header) = 18
  BY <1>1, HeaderBytes
<1> HIDE DEF header
<1>7. Holds(begun, header)
  <2> DEFINE none == <<>>
  <2>1. Cat(none, header) = header
    BY <1>6, CatNothing
  <2>2. Holds(CanonicalEncoder, none)
    BY CanonicalHolds
  <2> HIDE DEF none
  <2> QED
    BY <1>6, <2>1, <2>2, HoldsMore
<1> HIDE DEF begun
<1>8. HoldsName(signer, header, sig.signer_name)
  BY <1>1, <1>7, CanonicalName
<1> HIDE DEF message, bytes, owner, low, signer, all
<1>9. CASE owner = Failed \/ signer \in Broken
  BY <1>3, <1>5, <1>9 DEF Makes, bytes
<1>10. CASE owner # Failed /\ signer \notin Broken
  <2> DEFINE head == MessageHead(sig)
  <2>1. head = Cat(header, Written(sig.signer_name))
    BY DEF MessageHead, header
  <2> HIDE DEF head
  <2>2. Emittable(sig.signer_name) /\ Holds(signer, head)
    BY <1>8, <1>10, <2>1 DEF HoldsName
  <2>3. low \in Seq(Labels) /\ (Emittable(low) <=> Emittable(owner.labels))
    <3>1. owner.labels \in Seq(Labels) /\ low = Lowercase(owner.labels)
      BY <1>2, <1>10 DEF low, RecordOwner
    <3> QED
      BY <3>1, LowercaseTyped, SameSize
  <2>4. HoldsAll(all, head, low, sig.terms, records)
    BY <1>1, <2>2, <2>3, RecordsHeld DEF all, low
  <2>5. CASE all = Panicked
    BY <1>3, <2>3, <2>5 DEF Makes, bytes
  <2>6. CASE all # Panicked
    <3>1. records = <<>> \/ Emittable(low)
      BY <2>4, <2>6 DEF HoldsAll
    <3>2. message = MessageOf(sig, low, records)
      BY <1>4, <1>10, <2>2, <2>3, <3>1
    <3>3. Holds(all, MessageBytes(sig, low, records))
      BY <2>4, <2>6 DEF HoldsAll, MessageBytes, head
    <3>4. all.buffer = MessageBytes(sig, low, records)
      BY <3>3 DEF Holds
    <3>5. bytes = MessageBytes(sig, low, records)
      BY <1>3, <1>10, <2>6, <3>4
    <3> QED
      BY <2>3, <3>2, <3>5 DEF Makes, message, bytes
  <2> QED
    BY <2>5, <2>6
<1> QED
  BY <1>9, <1>10

(* Equal bytes mean the same signature, name and records, and so the same   *)
(* message.                                                                *)
LEMMA BytesTell ==
  ASSUME NEW sig \in Sig, NEW owner \in Seq(Labels), NEW r \in Seq(FitData),
         NEW other \in Sig, NEW name \in Seq(Labels), NEW s \in Seq(FitData), r # <<>> \/ s # <<>>,
         MessageBytes(sig, owner, r) = MessageBytes(other, name, s)
  PROVE  MessageOf(sig, owner, r) = MessageOf(other, name, s)
<1> DEFINE a == SigHeader(sig.terms, sig.num_labels)  b == Written(sig.signer_name)
           c == FlattenSeq(RecordParts(owner, sig.terms, r))
           p == SigHeader(other.terms, other.num_labels)  q == Written(other.signer_name)
           v == FlattenSeq(RecordParts(name, other.terms, s))
<1>1. /\ sig.terms \in Terms /\ sig.num_labels \in Bytes /\ sig.signer_name \in Seq(Labels)
      /\ other.terms \in Terms /\ other.num_labels \in Bytes /\ other.signer_name \in Seq(Labels)
  BY SigTyped
<1>2. a \in Seq(Bytes) /\ Len(a) = 18 /\ p \in Seq(Bytes) /\ Len(p) = 18
  BY <1>1, HeaderBytes
<1>3. b \in Seq(Bytes) /\ q \in Seq(Bytes)
  BY <1>1, NameEnds
<1>4. c \in Seq(Bytes) /\ v \in Seq(Bytes)
  BY MessageTyped
<1>5. Cat(Cat(a, b), c) = Cat(Cat(p, q), v)
  BY DEF MessageBytes, MessageHead
<1> HIDE DEF a, b, c, p, q, v
<1>6. Cat(a, Cat(b, c)) = Cat(p, Cat(q, v))
  BY <1>2, <1>3, <1>4, <1>5, CatThree
<1>7. Cat(b, c) \in Seq(Bytes) /\ Cat(q, v) \in Seq(Bytes)
  BY <1>3, <1>4, CatThree
<1>8. a = p /\ Cat(b, c) = Cat(q, v)
  BY <1>2, <1>6, <1>7, SameStart
<1>9. ToldByHeader(sig.terms, sig.num_labels, other.terms, other.num_labels)
  BY <1>1, <1>8, SameHeader DEF a, p
<1>10. sig.signer_name = other.signer_name /\ c = v
  BY <1>1, <1>4, <1>8, SameName DEF b, q
<1>11. r = s /\ (r # <<>> => owner = name /\ sig.terms.class = other.terms.class)
  BY <1>1, <1>10, SameRecords DEF c, v
<1>12. owner = name /\ sig.terms.class = other.terms.class
  BY <1>11
<1>13. sig.terms = other.terms
  BY <1>1, <1>9, <1>12, SameTerms DEF ToldByHeader
<1>14. sig = other
  BY <1>9, <1>10, <1>13, SigSame DEF ToldByHeader
<1> QED
  BY <1>11, <1>12, <1>14

LEMMA MessageTells ==
  ASSUME NEW sig \in Sig, NEW owner \in Seq(Labels), NEW r \in Seq(FitData),
         NEW other \in Sig, NEW name \in Seq(Labels), NEW s \in Seq(FitData), r # <<>> \/ s # <<>>,
         MessageOf(sig, owner, r) = MessageOf(other, name, s)
  PROVE  MessageBytes(sig, owner, r) = MessageBytes(other, name, s)
<1> DEFINE f == [i \in DOMAIN r |-> [owner |-> owner, terms |-> sig.terms, rdata |-> r[i]]]
           g == [i \in DOMAIN s |-> [owner |-> name, terms |-> other.terms, rdata |-> s[i]]]
<1>1. sig = other /\ f = g
  BY DEF MessageOf
<1>2. DOMAIN r = 1 .. Len(r) /\ DOMAIN s = 1 .. Len(s) /\ Len(r) \in Nat /\ Len(s) \in Nat
  OBVIOUS
<1>3. DOMAIN r = DOMAIN s
  BY <1>1
<1>4. ASSUME NEW i \in DOMAIN r
      PROVE  r[i] = s[i] /\ owner = name
  <2>1. f[i] = g[i]
    BY <1>1
  <2>2. [owner |-> owner, terms |-> sig.terms, rdata |-> r[i]]
          = [owner |-> name, terms |-> other.terms, rdata |-> s[i]]
    BY <1>3, <2>1
  <2> QED
    BY <2>2
<1> HIDE DEF f, g
<1>5. Len(r) = Len(s)
  <2> DEFINE m == Len(r)  n == Len(s)
  <2>1. m \in Nat /\ n \in Nat /\ 1 .. m = 1 .. n
    BY <1>2, <1>3
  <2> HIDE DEF m, n
  <2>2. (m # 0 => m \in 1 .. m) /\ (n # 0 => n \in 1 .. n)
    BY <2>1
  <2>3. (m # 0 => m \in 1 .. n) /\ (n # 0 => n \in 1 .. m)
    BY <2>1, <2>2
  <2>4. m = n
    BY <2>1, <2>3
  <2> QED
    BY <2>4 DEF m, n
<1>6. r = s
  BY <1>2, <1>4, <1>5, SeqEqual
<1>7. Len(r) # 0
  BY <1>6
<1>8. 1 \in DOMAIN r
  BY <1>2, <1>7
<1>9. owner = name
  BY <1>4, <1>8
<1> QED
  BY <1>1, <1>6, <1>9

(***************************************************************************)
(* Whatever was made before: every call is of a signature, a name and      *)
(* records, and its message and bytes are the ones of these.               *)
(***************************************************************************)
Told(call, sig, owner, records) ==
  /\ call.signs = (records # <<>>)
  /\ Makes(call.message, call.bytes, sig, owner, records)

MadeOf(call) ==
  \E sig \in Sig, owner \in Seq(Labels), records \in Seq(FitData) : Told(call, sig, owner, records)

ToldInv == \A call \in messages : call.fits => MadeOf(call)

LEMMA ToldIsInductive == Spec => []ToldInv
<1>1. Init => ToldInv
  BY DEF Init, ToldInv
<1>2. ToldInv /\ [Next]_vars => ToldInv'
  <2> SUFFICES ASSUME ToldInv, [Next]_vars PROVE ToldInv'
    OBVIOUS
  <2>1. CASE UNCHANGED messages
    BY <2>1 DEF ToldInv
  <2>2. ASSUME NEW c \in Characters, Type(c) PROVE ToldInv'
    BY <2>1, <2>2 DEF Type
  <2>3. ASSUME NEW e, NEW names, Emitted(e, names) PROVE ToldInv'
    BY <2>1, <2>3 DEF Emitted
  <2>4. ASSUME NEW name \in GivenNames, NEW lowercase \in BOOLEAN, EmitName(name.labels, lowercase)
        PROVE  ToldInv'
    BY <2>3, <2>4 DEF EmitName
  <2>5. ASSUME NEW data \in Fields, EmitField(data) PROVE ToldInv'
    BY <2>3, <2>5 DEF EmitField
  <2>6. ASSUME NEW rdata \in Rdatas, EmitRecordData(rdata) PROVE ToldInv'
    BY <2>3, <2>6 DEF EmitRecordData
  <2>7. CASE SetCanonicalNames
    BY <2>1, <2>7 DEF SetCanonicalNames
  <2>8. ASSUME NEW name \in GivenNames, NEW sig \in Sig, NEW records \in SeqOf(Rdata, MaxRecords),
               Construct(name, sig, records)
        PROVE  ToldInv'
    <3> DEFINE call == [message |-> ConstructMessage(name, sig, records),
                        bytes |-> ConstructBytes(name, sig, records),
                        signs |-> records # <<>>,
                        fits |-> \A i \in DOMAIN records : records[i] \in FitData]
    <3>1. name.labels \in Seq(Labels)
      BY CodecAssumption DEF GivenNames
    <3>2. messages' = messages \cup {call}
      BY <2>8 DEF Construct
    <3>3. ASSUME call.fits
          PROVE  MadeOf(call)
      <4>1. PICK m \in 0 .. MaxRecords : records \in [1 .. m -> Rdata]
        BY DEF SeqOf
      <4>2. records \in Seq(FitData)
        <5>1. \A i \in 1 .. m : records[i] \in FitData
          BY <3>3, <4>1
        <5> QED
          BY <4>1, <5>1, CodecAssumption
      <4>3. PICK low \in Seq(Labels) :
              Makes(ConstructMessage(name, sig, records), ConstructBytes(name, sig, records),
                    sig, low, records)
        BY <3>1, <4>2, Constructed
      <4>4. Told(call, sig, low, records)
        BY <4>3 DEF Told
      <4> HIDE DEF call
      <4> QED
        BY <4>2, <4>4 DEF MadeOf
    <3> HIDE DEF call
    <3> QED
      BY <3>2, <3>3 DEF ToldInv
  <2>9. CASE UNCHANGED vars
    BY <2>1, <2>9 DEF vars
  <2> QED
    BY <2>2, <2>4, <2>5, <2>6, <2>7, <2>8, <2>9 DEF Next
<1> QED
  BY <1>1, <1>2, PTL DEF Spec

(***************************************************************************)
(* Whatever the names, signatures and records whose data fits, and however *)
(* long the messages: two calls of construct_rrset_message_with_sig with   *)
(* records that do not panic make the same bytes exactly if they mean the  *)
(* same message.                                                           *)
(***************************************************************************)
THEOREM MessagesAreAlwaysToldApart == Spec => []MessagesAreToldApart
<1>1. ToldInv => MessagesAreToldApart
  <2> SUFFICES ASSUME ToldInv
               PROVE  MessagesAreToldApart
    OBVIOUS
  <2>1. ASSUME NEW c \in messages, c.fits, c.message = Panicked
        PROVE  c.bytes = Panicked
    <3>1. PICK sig \in Sig, owner \in Seq(Labels), r \in Seq(FitData) : Told(c, sig, owner, r)
      BY <2>1 DEF ToldInv, MadeOf
    <3>2. MessageOf(sig, owner, r) # Panicked
      BY MessageTyped
    <3> QED
      BY <2>1, <3>1, <3>2 DEF Told, Makes
  <2>2. ASSUME NEW c \in messages, NEW d \in messages, c.fits, d.fits, c.signs \/ d.signs,
               c.bytes # Panicked, d.bytes # Panicked
        PROVE  c.bytes = d.bytes <=> c.message = d.message
    <3>1. PICK sig \in Sig, owner \in Seq(Labels), r \in Seq(FitData) : Told(c, sig, owner, r)
      BY <2>2 DEF ToldInv, MadeOf
    <3>2. PICK other \in Sig, name \in Seq(Labels), s \in Seq(FitData) : Told(d, other, name, s)
      BY <2>2 DEF ToldInv, MadeOf
    <3>3. r # <<>> \/ s # <<>>
      BY <2>2, <3>1, <3>2 DEF Told
    <3>4. /\ c.message = MessageOf(sig, owner, r) /\ c.bytes = MessageBytes(sig, owner, r)
          /\ d.message = MessageOf(other, name, s) /\ d.bytes = MessageBytes(other, name, s)
      BY <2>2, <3>1, <3>2 DEF Told, Makes
    <3>5. MessageBytes(sig, owner, r) = MessageBytes(other, name, s)
            <=> MessageOf(sig, owner, r) = MessageOf(other, name, s)
      BY <3>3, BytesTell, MessageTells
    <3> QED
      BY <3>4, <3>5
  <2> QED
    BY <2>1, <2>2 DEF MessagesAreToldApart
<1> QED
  BY <1>1, ToldIsInductive, PTL

------------------------------------------------------------------------------
(* Reading names, with a bound on the labels and pointers followed.          *)
ReadUnit == Seq(Bytes) \cup {Failed}
Reads0 == [at \in Nat |-> <<Failed>>]
Readers == [Nat -> Seq(ReadUnit)]

IsReader(read, b) ==
  /\ read \in [0 .. Len(b) -> Readers]
  /\ read[0] = Reads0
  /\ \A k \in 1 .. Len(b) : read[k] = NextLabels(b, read[k - 1])

Reader(b) == CHOOSE read : IsReader(read, b)

(* What may be found at a place. *)
EndsAt(b, at) == at < Len(b) /\ b[at + 1] = 0
LabelAt(b, at, end) ==
  at < Len(b) /\ b[at + 1] \in 1 .. 191 /\ end = at + 1 + b[at + 1] /\ end <= Len(b)
PointerAt(b, at, target) ==
  /\ at + 2 <= Len(b) /\ b[at + 1] \in 192 .. 255
  /\ target = 256 * (b[at + 1] - 192) + b[at + 2]
NothingAt(b, at) ==
  ~EndsAt(b, at) /\ (\A end \in Nat : ~LabelAt(b, at, end)) /\ (\A t \in Nat : ~PointerAt(b, at, t))

LabelFrom(b, at, end) == SubSeq(b, at + 2, end)

LEMMA NextCases ==
  ASSUME NEW b \in Seq(Bytes), NEW next, NEW at \in Nat
  PROVE  /\ EndsAt(b, at) => NextLabels(b, next)[at] = <<>>
         /\ \A end \in Nat : LabelAt(b, at, end) =>
              NextLabels(b, next)[at] = <<LabelFrom(b, at, end)>> \o next[end]
         /\ \A t \in Nat : PointerAt(b, at, t) => NextLabels(b, next)[at] = next[t]
         /\ NothingAt(b, at) => NextLabels(b, next)[at] = <<Failed>>
<1> DEFINE size == b[at + 1]
           other == b[at + 2]
           last == at + 1 + size
           target == 256 * (size - 192) + other
           n == Len(b)
           label == <<SubSeq(b, at + 2, last)>> \o next[last]
           none == <<>>
           fail == <<Failed>>
           result == IF at >= n THEN fail
                     ELSE IF size = 0 THEN none
                     ELSE IF size < 192 /\ last <= n THEN label
                     ELSE IF size >= 192 /\ at + 2 <= n THEN next[target] ELSE fail
           it == NextLabels(b, next)[at]
<1>1. it = result
  BY DEF NextLabels
<1>2. n \in Nat /\ (at < n => size \in 0 .. 255) /\ (at + 2 <= n => other \in 0 .. 255)
  <2>1. n \in Nat
    OBVIOUS
  <2>2. (at < n => at + 1 \in 1 .. n) /\ (at + 2 <= n => at + 2 \in 1 .. n)
    BY <2>1
  <2> QED
    BY <2>1, <2>2, ElementOfSeq DEF Bytes
<1> HIDE DEF it, label, none, fail
<1>3. EndsAt(b, at) => it = none
  <2> SUFFICES ASSUME EndsAt(b, at) PROVE it = none
    OBVIOUS
  <2>1. at < n /\ size = 0
    BY DEF EndsAt
  <2> HIDE DEF size, n, last, target
  <2> QED
    BY <1>1, <1>2, <2>1
<1>4. ASSUME NEW end \in Nat, LabelAt(b, at, end)
      PROVE  it = <<LabelFrom(b, at, end)>> \o next[end]
  <2>1. at < n /\ size \in 1 .. 191 /\ end = last /\ last <= n
    BY <1>4 DEF LabelAt
  <2>2. <<LabelFrom(b, at, end)>> \o next[end] = label
    BY <2>1 DEF LabelFrom, label
  <2>3. it = label
    <3> HIDE DEF size, n, last, target
    <3> QED
      BY <1>1, <1>2, <2>1
  <2> QED
    BY <2>2, <2>3
<1>5. ASSUME NEW t \in Nat, PointerAt(b, at, t)
      PROVE  it = next[t]
  <2>1. at + 2 <= n /\ size \in 192 .. 255 /\ t = target
    BY <1>5 DEF PointerAt
  <2> HIDE DEF size, n, target, last
  <2>2. ~(at >= n) /\ size # 0 /\ ~(size < 192) /\ size >= 192
    BY <1>2, <2>1
  <2> QED
    BY <1>1, <2>1, <2>2
<1>6. NothingAt(b, at) => it = fail
  <2> SUFFICES ASSUME NothingAt(b, at), at < n PROVE it = fail
    <3> HIDE DEF n
    <3> QED
      BY <1>1, <1>2
  <2>1. size \in 0 .. 255 /\ n \in Nat
    BY <1>2
  <2>2. size # 0
    BY DEF NothingAt, EndsAt
  <2>3. last \in Nat
    <3> HIDE DEF size
    <3> QED
      BY <2>1
  <2>4. ~(size < 192 /\ last <= n)
    <3> SUFFICES ASSUME size < 192, last <= n PROVE FALSE
      OBVIOUS
    <3>1. size \in 1 .. 191
      <4> HIDE DEF size, last, n
      <4> QED
        BY <2>1, <2>2
    <3> QED
      BY <2>3, <3>1 DEF NothingAt, LabelAt
  <2>5. ~(size >= 192 /\ at + 2 <= n)
    <3> SUFFICES ASSUME size >= 192, at + 2 <= n PROVE FALSE
      OBVIOUS
    <3>1. other \in 0 .. 255
      BY <1>2
    <3>2. target \in Nat /\ size \in 192 .. 255
      <4> HIDE DEF size, other, n
      <4> QED
        BY <2>1, <3>1
    <3> QED
      BY <3>2 DEF NothingAt, PointerAt
  <2> HIDE DEF size, n, last, target
  <2> QED
    BY <1>1, <2>1, <2>2, <2>4, <2>5
<1> HIDE DEF result
<1>7. /\ EndsAt(b, at) => it = none
      /\ \A end \in Nat : LabelAt(b, at, end) => it = <<LabelFrom(b, at, end)>> \o next[end]
      /\ \A t \in Nat : PointerAt(b, at, t) => it = next[t]
      /\ NothingAt(b, at) => it = fail
  BY <1>3, <1>4, <1>5, <1>6
<1> QED
  BY <1>7, Zenon DEF it, none, fail

LEMMA NextLabel ==
  ASSUME NEW b \in Seq(Bytes), NEW next, NEW at \in Nat, NEW end \in Nat, LabelAt(b, at, end)
  PROVE  NextLabels(b, next)[at] = <<LabelFrom(b, at, end)>> \o next[end]
BY NextCases, Zenon

LEMMA LabelTyped ==
  ASSUME NEW b \in Seq(Bytes), NEW at \in Nat, NEW end \in Nat, LabelAt(b, at, end)
  PROVE  LabelFrom(b, at, end) \in Seq(Bytes)
<1>1. \A i \in at + 2 .. end : i \in 1 .. Len(b)
  BY DEF LabelAt
<1>2. \A i \in at + 2 .. end : b[i] \in Bytes
  BY <1>1, ElementOfSeq
<1> QED
  BY <1>2, SubSeqProperties DEF LabelFrom

LEMMA NextTyped ==
  ASSUME NEW b \in Seq(Bytes), NEW next \in Readers
  PROVE  NextLabels(b, next) \in Readers
<1> DEFINE T == Seq(ReadUnit)
           it == NextLabels(b, next)
<1>0. \A i \in Nat : next[i] \in T
  BY DEF Readers
<1>1. ASSUME NEW at \in Nat
      PROVE  it[at] \in T
  <2>1. CASE EndsAt(b, at)
    <3>1. it[at] = <<>>
      BY <2>1, NextCases
    <3> QED
      BY <3>1, EmptySeq
  <2>2. ASSUME NEW end \in Nat, LabelAt(b, at, end)
        PROVE  it[at] \in T
    <3> DEFINE l == LabelFrom(b, at, end)
    <3>1. it[at] = <<l>> \o next[end]
      BY <2>2, NextCases
    <3>2. l \in ReadUnit
      BY <2>2, LabelTyped DEF ReadUnit
    <3>3. next[end] \in T
      BY <1>0
    <3> HIDE DEF l, it
    <3>4. <<l>> \in Seq(ReadUnit)
      BY <3>2
    <3>5. <<l>> \o next[end] \in Seq(ReadUnit)
      BY <3>3, <3>4, ConcatProperties
    <3> QED
      BY <3>1, <3>5
  <2>3. ASSUME NEW t \in Nat, PointerAt(b, at, t)
        PROVE  it[at] \in T
    <3>1. it[at] = next[t]
      BY <2>3, NextCases
    <3> QED
      BY <1>0, <3>1
  <2>4. CASE NothingAt(b, at)
    <3> DEFINE fail == <<Failed>>
    <3>1. it[at] = fail
      BY <2>4, NextCases
    <3>2. fail \in T
      BY DEF ReadUnit
    <3> QED
      BY <3>1, <3>2
  <2> HIDE DEF it, T
  <2> QED
    BY <2>1, <2>2, <2>3, <2>4 DEF NothingAt
<1>2. it = [at \in Nat |-> it[at]]
  BY DEF NextLabels
<1> HIDE DEF it, T
<1>3. it \in [Nat -> T]
  BY <1>1, <1>2
<1> QED
  BY <1>3 DEF Readers, T, it

LEMMA FirstReader == Reads0 \in Readers
<1> DEFINE none == <<Failed>>
<1>1. none \in Seq(ReadUnit)
  BY DEF ReadUnit
<1> HIDE DEF none
<1> QED
  BY <1>1 DEF Reads0, Readers, none

LEMMA ReaderIsThere ==
  ASSUME NEW b \in Seq(Bytes)
  PROVE  IsReader(Reader(b), b) /\ \A at : LabelsAt(b, at) = Reader(b)[Len(b)][at]
<1> DEFINE n == Len(b)
           next == [k \in 1 .. n |-> [f \in Readers |-> NextLabels(b, f)]]
           Step(h) == [fuel \in 0 .. n |-> IF fuel = 0 THEN Reads0 ELSE NextLabels(b, h[fuel - 1])]
<1>1. n \in Nat
  OBVIOUS
<1>2. next \in [1 .. n -> [Readers -> Readers]]
  <2>1. \A f \in Readers : NextLabels(b, f) \in Readers
    BY NextTyped
  <2> DEFINE T == Readers
             one == [f \in T |-> NextLabels(b, f)]
  <2> HIDE DEF T
  <2>2. one \in [T -> T]
    BY <2>1 DEF T
  <2> HIDE DEF one, n
  <2>3. [k \in 1 .. n |-> one] \in [1 .. n -> [T -> T]]
    BY <2>2
  <2> QED
    BY <2>3 DEF one, T
<1> HIDE DEF n
<1>3. PICK f : IsRun(f, Readers, n, Reads0, next)
  BY <1>1, <1>2, FirstReader, RunExists
<1>4. IsReader(f, b)
  <2>1. ASSUME NEW k \in 1 .. n
        PROVE  f[k] = NextLabels(b, f[k - 1])
    <3>1. k - 1 \in 0 .. n
      BY <1>1
    <3> QED
      BY <1>3, <3>1 DEF IsRun
  <2> QED
    BY <1>3, <2>1 DEF IsRun, IsReader, n
<1>5. IsReader(Reader(b), b)
  BY <1>4 DEF Reader
<1>6. ASSUME NEW read
      PROVE  IsReader(read, b) => read = Step(read)
  <2> SUFFICES ASSUME IsReader(read, b) PROVE read = Step(read)
    OBVIOUS
  <2>1. read = [fuel \in 0 .. n |-> read[fuel]]
    BY DEF IsReader, n
  <2>2. ASSUME NEW fuel \in 0 .. n
        PROVE  read[fuel] = IF fuel = 0 THEN Reads0 ELSE NextLabels(b, read[fuel - 1])
    BY <1>1 DEF IsReader, n
  <2> QED
    BY <2>1, <2>2
<1>7. ASSUME NEW read, read = Step(read)
      PROVE  \A i \in 0 .. n : read[i] = Reader(b)[i]
  <2> DEFINE numbers == {i \in 0 .. n : read[i] = Reader(b)[i]}
  <2>1. Reader(b) = Step(Reader(b))
    BY <1>5, <1>6
  <2>2. 0 \in numbers
    BY <1>1, <1>7, <2>1
  <2>3. ASSUME NEW i \in 0 .. n - 1, i \in numbers
        PROVE  i + 1 \in numbers
    <3>1. i + 1 \in 0 .. n /\ (i + 1) - 1 = i /\ i + 1 # 0
      BY <1>1
    <3>2. read[i + 1] = NextLabels(b, read[i])
      BY <1>7, <3>1
    <3>3. Reader(b)[i + 1] = NextLabels(b, Reader(b)[i])
      BY <2>1, <3>1
    <3> QED
      BY <2>3, <3>1, <3>2, <3>3
  <2> HIDE DEF numbers
  <2>4. \A i \in 0 .. n : i \in numbers
    BY <1>1, <2>2, <2>3, CountedNumbers
  <2> QED
    BY <2>4 DEF numbers
<1>8. ASSUME NEW at
      PROVE  LabelsAt(b, at) = Reader(b)[n][at]
  <2> DEFINE it == CHOOSE h : h = Step(h)
  <2>1. LabelsAt(b, at) = it[n][at]
    BY DEF LabelsAt, Reads0, n
  <2>2. Reader(b) = Step(Reader(b))
    BY <1>5, <1>6
  <2>3. it = Step(it)
    <3> HIDE DEF Step
    <3> QED
      BY <2>2
  <2> HIDE DEF it, Step
  <2>4. it[n] = Reader(b)[n]
    BY <1>1, <1>7, <2>3
  <2> QED
    BY <2>1, <2>4
<1> QED
  BY <1>5, <1>8 DEF n

(* What is read at a place with a bound on the steps. *)
Reads(b, k, at, labels) == k \in 0 .. Len(b) /\ at \in Nat /\ Reader(b)[k][at] = labels

LEMMA ReadsOf ==
  ASSUME NEW b \in Seq(Bytes)
  PROVE  /\ \A k \in 0 .. Len(b), at \in Nat : Reader(b)[k][at] \in Seq(ReadUnit)
         /\ \A at \in Nat : Reader(b)[0][at] = <<Failed>>
         /\ \A k \in 1 .. Len(b) : Reader(b)[k] = NextLabels(b, Reader(b)[k - 1])
         /\ \A at \in Nat : \A labels : LabelsAt(b, at) = labels <=> Reads(b, Len(b), at, labels)
<1>1. IsReader(Reader(b), b) /\ \A at : LabelsAt(b, at) = Reader(b)[Len(b)][at]
  BY ReaderIsThere
<1> DEFINE n == Len(b)
<1>2. n \in Nat
  OBVIOUS
<1> HIDE DEF n
<1>3. n \in 0 .. n
  BY <1>2
<1> USE DEF n
<1>4. \A k \in 0 .. Len(b), at \in Nat : Reader(b)[k][at] \in Seq(ReadUnit)
  BY <1>1 DEF IsReader, Readers
<1>5. \A at \in Nat : Reader(b)[0][at] = <<Failed>>
  BY <1>1 DEF IsReader, Reads0
<1>6. \A at \in Nat : \A labels : LabelsAt(b, at) = labels <=> Reads(b, Len(b), at, labels)
  BY <1>1, <1>3 DEF Reads
<1> QED
  BY <1>1, <1>4, <1>5, <1>6 DEF IsReader

LEMMA ReadsEnd ==
  ASSUME NEW b \in Seq(Bytes), NEW at \in Nat, EndsAt(b, at), NEW k \in 1 .. Len(b)
  PROVE  Reads(b, k, at, <<>>)
<1>1. Reader(b)[k] = NextLabels(b, Reader(b)[k - 1])
  BY ReadsOf
<1>2. NextLabels(b, Reader(b)[k - 1])[at] = <<>>
  BY NextCases
<1> QED
  BY <1>1, <1>2 DEF Reads

LEMMA ReadsLabel ==
  ASSUME NEW b \in Seq(Bytes), NEW at \in Nat, NEW end \in Nat, LabelAt(b, at, end),
         NEW k \in Nat, k < Len(b), NEW rest, Reads(b, k, end, rest)
  PROVE  Reads(b, k + 1, at, <<LabelFrom(b, at, end)>> \o rest)
<1>1. k + 1 \in 1 .. Len(b) /\ (k + 1) - 1 = k
  OBVIOUS
<1>2. Reader(b)[k + 1] = NextLabels(b, Reader(b)[k])
  BY <1>1, ReadsOf
<1> DEFINE next == Reader(b)[k]
<1> HIDE DEF next
<1>3. NextLabels(b, next)[at] = <<LabelFrom(b, at, end)>> \o next[end]
  BY NextCases
<1> USE DEF next
<1> QED
  BY <1>1, <1>2, <1>3 DEF Reads

LEMMA ReadsPointer ==
  ASSUME NEW b \in Seq(Bytes), NEW at \in Nat, NEW t \in Nat, PointerAt(b, at, t),
         NEW k \in Nat, k < Len(b), NEW rest, Reads(b, k, t, rest)
  PROVE  Reads(b, k + 1, at, rest)
<1>1. k + 1 \in 1 .. Len(b) /\ (k + 1) - 1 = k
  OBVIOUS
<1>2. Reader(b)[k + 1] = NextLabels(b, Reader(b)[k])
  BY <1>1, ReadsOf
<1>3. NextLabels(b, Reader(b)[k])[at] = Reader(b)[k][t]
  BY NextCases
<1> QED
  BY <1>1, <1>2, <1>3 DEF Reads

(* What follows does not change what is found. *)
LEMMA FoundMore ==
  ASSUME NEW b \in Seq(Bytes), NEW d \in Seq(Bytes), NEW at \in Nat
  PROVE  /\ EndsAt(b, at) => EndsAt(Cat(b, d), at)
         /\ \A end \in Nat : LabelAt(b, at, end) =>
              LabelAt(Cat(b, d), at, end) /\ LabelFrom(Cat(b, d), at, end) = LabelFrom(b, at, end)
         /\ \A t \in Nat : PointerAt(b, at, t) => PointerAt(Cat(b, d), at, t)
<1> DEFINE c == Cat(b, d)
<1>1. Len(b) \in Nat /\ Len(c) \in Nat /\ Len(b) <= Len(c) /\ c \in Seq(Bytes)
  <2>1. Len(b) \in Nat /\ Len(d) \in Nat /\ Len(c) = Len(b) + Len(d) /\ c \in Seq(Bytes)
    BY CatLength
  <2> HIDE DEF c
  <2> QED
    BY <2>1
<1>2. \A i \in 1 .. Len(b) : c[i] = b[i]
  BY CatFirst
<1> HIDE DEF c
<1>3. at < Len(b) => at < Len(c) /\ c[at + 1] = b[at + 1]
  <2>1. at < Len(b) => at + 1 \in 1 .. Len(b) /\ at < Len(c)
    BY <1>1
  <2> QED
    BY <1>2, <2>1
<1>4. at + 2 <= Len(b) => at + 2 <= Len(c) /\ c[at + 2] = b[at + 2] /\ at < Len(b)
  <2>1. at + 2 <= Len(b) => at + 2 \in 1 .. Len(b) /\ at + 2 <= Len(c) /\ at < Len(b)
    BY <1>1
  <2> QED
    BY <1>2, <2>1
<1>5. EndsAt(b, at) => EndsAt(c, at)
  BY <1>3 DEF EndsAt
<1>6. ASSUME NEW end \in Nat, LabelAt(b, at, end)
      PROVE  LabelAt(c, at, end) /\ LabelFrom(c, at, end) = LabelFrom(b, at, end)
  <2>1. end <= Len(b) /\ end <= Len(c)
    BY <1>1, <1>6 DEF LabelAt
  <2>2. LabelAt(c, at, end)
    BY <1>3, <1>6, <2>1 DEF LabelAt
  <2>3. SubSeq(c, at + 2, end) = SubSeq(b, at + 2, end)
    <3> DEFINE n == end - (at + 2) + 1
    <3>1. \A i \in at + 2 .. end : i \in 1 .. Len(b) /\ i \in 1 .. Len(c)
      BY <1>1, <2>1
    <3>2. \A i \in at + 2 .. end : b[i] \in Bytes /\ c[i] \in Bytes /\ c[i] = b[i]
      BY <1>1, <1>2, <3>1, ElementOfSeq
    <3> DEFINE x == SubSeq(b, at + 2, end)  y == SubSeq(c, at + 2, end)
    <3>3. x \in Seq(Bytes) /\ Len(x) = (IF at + 2 <= end THEN n ELSE 0)
          /\ \A i \in 1 .. n : x[i] = b[at + 2 + i - 1]
      BY <3>2, SubSeqProperties
    <3>4. y \in Seq(Bytes) /\ Len(y) = (IF at + 2 <= end THEN n ELSE 0)
          /\ \A i \in 1 .. n : y[i] = c[at + 2 + i - 1]
      BY <3>2, SubSeqProperties
    <3> HIDE DEF x, y
    <3>5. \A i \in 1 .. Len(x) : x[i] = y[i]
      <4>1. \A i \in 1 .. Len(x) : i \in 1 .. n /\ at + 2 + i - 1 \in at + 2 .. end
        BY <3>3
      <4> QED
        BY <3>2, <3>3, <3>4, <4>1
    <3>6. x = y
      BY <3>3, <3>4, <3>5, SeqEqual
    <3> QED
      BY <3>6 DEF x, y
  <2> QED
    BY <2>2, <2>3 DEF LabelFrom
<1>7. ASSUME NEW t \in Nat, PointerAt(b, at, t)
      PROVE  PointerAt(c, at, t)
  BY <1>3, <1>4, <1>7 DEF PointerAt
<1> QED
  BY <1>5, <1>6, <1>7 DEF c

(* Nor does a larger bound. *)
LEMMA NotFailed ==
  ASSUME NEW S, Failed \notin S, NEW l, NEW s \in Seq(ReadUnit), <<l>> \o s \in Seq(S)
  PROVE  s \in Seq(S)
<1> DEFINE t == <<l>> \o s
<1>1. Len(t) = 1 + Len(s) /\ Len(s) \in Nat /\ \A i \in 1 .. Len(s) : t[i + 1] = s[i]
  OBVIOUS
<1> HIDE DEF t
<1>2. \A i \in 1 .. Len(s) : i + 1 \in 1 .. Len(t)
  BY <1>1
<1>3. \A i \in 1 .. Len(t) : t[i] \in S
  BY DEF t
<1>4. \A i \in 1 .. Len(s) : s[i] \in S
  BY <1>1, <1>2, <1>3
<1>5. s = [i \in 1 .. Len(s) |-> s[i]]
  OBVIOUS
<1> QED
  BY <1>1, <1>4, <1>5

Kept(b, c, S, k) ==
  \A at \in Nat, m \in k .. Len(c) :
    Reader(b)[k][at] \in Seq(S) => Reader(c)[m][at] = Reader(b)[k][at]

LEMMA ReadsKept ==
  ASSUME NEW b \in Seq(Bytes), NEW d \in Seq(Bytes), NEW S, Failed \notin S
  PROVE  \A k \in 0 .. Len(b) : Kept(b, Cat(b, d), S, k)
<1> DEFINE c == Cat(b, d)
           numbers == {k \in 0 .. Len(b) : Kept(b, c, S, k)}
<1>1. Len(b) \in Nat /\ Len(c) \in Nat /\ Len(b) <= Len(c) /\ c \in Seq(Bytes)
  <2>1. Len(b) \in Nat /\ Len(d) \in Nat /\ Len(c) = Len(b) + Len(d) /\ c \in Seq(Bytes)
    BY CatLength
  <2> HIDE DEF c
  <2> QED
    BY <2>1
<1>2. \A at \in Nat :
        /\ EndsAt(b, at) => EndsAt(c, at)
        /\ \A end \in Nat : LabelAt(b, at, end) =>
             LabelAt(c, at, end) /\ LabelFrom(c, at, end) = LabelFrom(b, at, end)
        /\ \A t \in Nat : PointerAt(b, at, t) => PointerAt(c, at, t)
  BY FoundMore
<1> HIDE DEF c
<1> DEFINE fail == <<Failed>>
<1>3. fail \notin Seq(S)
  <2>1. fail[1] = Failed /\ Len(fail) = 1 /\ 1 \in 1 .. Len(fail)
    OBVIOUS
  <2> HIDE DEF fail
  <2> QED
    BY <2>1, ElementOfSeq
<1>4. 0 \in numbers
  <2>1. \A at \in Nat : Reader(b)[0][at] = fail
    BY ReadsOf
  <2> HIDE DEF fail
  <2> QED
    BY <1>1, <1>3, <2>1 DEF Kept
<1> HIDE DEF fail
<1>5. ASSUME NEW k \in 0 .. Len(b) - 1, k \in numbers
      PROVE  k + 1 \in numbers
  <2>1. k + 1 \in 1 .. Len(b) /\ (k + 1) - 1 = k /\ k \in 0 .. Len(b) /\ k + 1 \in 0 .. Len(b)
    BY <1>1
  <2> DEFINE next == Reader(b)[k]  it == Reader(b)[k + 1]
  <2>2. it = NextLabels(b, next)
    BY <2>1, ReadsOf
  <2>3. \A i \in Nat : next[i] \in Seq(ReadUnit)
    BY <2>1, ReadsOf
  <2>4. ASSUME NEW at \in Nat, NEW m \in k + 1 .. Len(c), it[at] \in Seq(S)
        PROVE  Reader(c)[m][at] = it[at]
    <3>1. m \in 1 .. Len(c) /\ m - 1 \in k .. Len(c)
      BY <1>1, <2>1
    <3> DEFINE more == Reader(c)[m - 1]  other == Reader(c)[m]
    <3>2. other = NextLabels(c, more)
      BY <1>1, <3>1, ReadsOf
    <3>3. \A i \in Nat : next[i] \in Seq(S) => more[i] = next[i]
      BY <1>5, <3>1 DEF Kept
    <3> HIDE DEF next, it, more, other, numbers
    <3>4. CASE EndsAt(b, at)
      <4>1. EndsAt(c, at)
        BY <1>2, <3>4
      <4>2. it[at] = <<>>
        BY <2>2, <3>4, NextCases
      <4>3. other[at] = <<>>
        BY <1>1, <3>2, <4>1, NextCases
      <4> QED
        BY <4>2, <4>3 DEF other
    <3>5. ASSUME NEW end \in Nat, LabelAt(b, at, end)
          PROVE  other[at] = it[at]
      <4> DEFINE l == LabelFrom(b, at, end)
      <4>1. LabelAt(c, at, end) /\ LabelFrom(c, at, end) = l
        BY <1>2, <3>5
      <4>2. it[at] = <<l>> \o next[end]
        BY <2>2, <3>5, NextCases
      <4>3. other[at] = <<LabelFrom(c, at, end)>> \o more[end]
        <5>1. LabelAt(c, at, end) /\ c \in Seq(Bytes)
          BY <1>1, <4>1
        <5>2. NextLabels(c, more)[at] = <<LabelFrom(c, at, end)>> \o more[end]
          BY <5>1, NextLabel
        <5> QED
          BY <3>2, <5>2
      <4> HIDE DEF l
      <4>4. next[end] \in Seq(S)
        <5> DEFINE s == next[end]
        <5>1. s \in Seq(ReadUnit) /\ <<l>> \o s \in Seq(S)
          BY <2>3, <2>4, <4>2
        <5> HIDE DEF s
        <5>2. s \in Seq(S)
          BY <5>1, NotFailed
        <5> QED
          BY <5>2 DEF s
      <4> QED
        BY <3>3, <4>1, <4>2, <4>3, <4>4
    <3>6. ASSUME NEW t \in Nat, PointerAt(b, at, t)
          PROVE  other[at] = it[at]
      <4>1. PointerAt(c, at, t)
        BY <1>2, <3>6
      <4>2. it[at] = next[t]
        BY <2>2, <3>6, NextCases
      <4>3. other[at] = more[t]
        BY <1>1, <3>2, <4>1, NextCases
      <4> QED
        BY <2>4, <3>3, <4>2, <4>3
    <3>7. CASE NothingAt(b, at)
      <4>1. it[at] = fail
        BY <2>2, <3>7, NextCases DEF fail
      <4> QED
        BY <1>3, <2>4, <4>1
    <3>8. other[at] = it[at]
      BY <3>4, <3>5, <3>6, <3>7 DEF NothingAt, other
    <3> QED
      BY <3>8 DEF other
  <2>5. Kept(b, c, S, k + 1)
    BY <2>4 DEF Kept
  <2> QED
    BY <2>1, <2>5
<1> HIDE DEF numbers
<1>6. \A k \in 0 .. Len(b) : k \in numbers
  BY <1>1, <1>4, <1>5, CountedNumbers
<1> QED
  BY <1>6 DEF numbers, c

LEMMA ReadsMore ==
  ASSUME NEW b \in Seq(Bytes), NEW d \in Seq(Bytes), NEW labels \in Seq(Labels), NEW at, NEW k,
         Reads(b, k, at, labels), NEW m \in k .. Len(Cat(b, d))
  PROVE  Reads(Cat(b, d), m, at, labels)
<1>1. Failed \notin Labels
  <2>1. Failed \in Broken
    BY DEF Broken
  <2> QED
    BY <2>1, EncoderAssumption
<1>2. k \in 0 .. Len(b) /\ at \in Nat /\ Reader(b)[k][at] = labels
  BY DEF Reads
<1>3. Kept(b, Cat(b, d), Labels, k)
  BY <1>1, <1>2, ReadsKept
<1> DEFINE size == Len(Cat(b, d))
<1>4. m \in 0 .. size
  <2>1. size \in Nat
    BY CatLength
  <2> HIDE DEF size
  <2>2. m \in k .. size
    BY DEF size
  <2> QED
    BY <1>2, <2>1, <2>2
<1> QED
  BY <1>2, <1>3, <1>4 DEF Kept, Reads

LEMMA ReadsLonger ==
  ASSUME NEW b \in Seq(Bytes), NEW labels \in Seq(Labels), NEW at, NEW k, Reads(b, k, at, labels),
         NEW m \in k .. Len(b)
  PROVE  Reads(b, m, at, labels)
<1> DEFINE none == <<>>
<1>1. none \in Seq(Bytes)
  OBVIOUS
<1>2. Cat(b, none) = b
  BY CatNothing
<1> HIDE DEF none
<1> QED
  BY <1>1, <1>2, ReadsMore

(* A name on the wire, label by label. *)
LEMMA WireAppend ==
  ASSUME NEW labels \in Seq(Labels), NEW l \in Labels
  PROVE  /\ CharacterStrings(Append(labels, l)) = Cat(CharacterStrings(labels), CharacterData(l))
         /\ l \in Seq(Bytes) /\ Len(l) \in 1 .. 191
         /\ CharacterStrings(labels) \in Seq(Bytes) /\ CharacterData(l) \in Seq(Bytes)
<1> DEFINE more == Append(labels, l)  n == Len(labels)
<1>1. l \in Seq(Bytes) /\ Len(l) \in 1 .. 191
  <2> DEFINE one == <<l>>
  <2>1. one \in Seq(Labels) /\ Len(one) = 1 /\ one[1] = l
    OBVIOUS
  <2> HIDE DEF one
  <2>2. 1 \in 1 .. Len(one)
    BY <2>1
  <2>3. one[1] \in Seq(Bytes) /\ Len(one[1]) \in 1 .. MAX_LABEL
    BY <2>1, <2>2, LabelBytes
  <2>4. MAX_LABEL \in Nat /\ MAX_LABEL < 192
    BY EncoderAssumption, NameAssumption
  <2>5. l \in Seq(Bytes) /\ Len(l) \in 1 .. MAX_LABEL
    BY <2>1, <2>3
  <2> DEFINE size == Len(l)  most == MAX_LABEL
  <2>6. size \in 1 .. most /\ most \in Nat /\ most < 192
    BY <2>4, <2>5
  <2> HIDE DEF size, most
  <2>7. size \in 1 .. 191
    BY <2>6
  <2> QED
    BY <2>5, <2>7 DEF size
<1>2. CharacterData(l) \in Seq(Bytes)
  BY <1>1, CharacterBytes
<1>3. n \in Nat /\ more \in Seq(Labels) /\ Len(more) = n + 1 /\ more[n + 1] = l
      /\ \A i \in 1 .. n : more[i] = labels[i]
  OBVIOUS
<1> HIDE DEF more
<1>4. labels \in Seq(Seq(Bytes)) /\ more \in Seq(Seq(Bytes))
  BY <1>3, LabelBytes
<1> DEFINE p == StringParts(labels)  q == StringParts(more)
<1>5. /\ p \in Seq(Seq(Bytes)) /\ Len(p) = n
      /\ \A i \in 1 .. n : p[i] = CharacterData(labels[i])
      /\ CharacterStrings(labels) = FlattenSeq(p) /\ CharacterStrings(labels) \in Seq(Bytes)
  BY <1>4, StringBytes
<1>6. /\ q \in Seq(Seq(Bytes)) /\ Len(q) = n + 1
      /\ \A i \in 1 .. n + 1 : q[i] = CharacterData(more[i])
      /\ CharacterStrings(more) = FlattenSeq(q)
  BY <1>3, <1>4, StringBytes
<1> DEFINE Q == Seq(Bytes)  d == CharacterData(l)
<1> HIDE DEF p, q, Q, d, n
<1>7. q = Append(p, d)
  <2> DEFINE r == Append(p, d)
  <2>1. p \in Seq(Q) /\ q \in Seq(Q) /\ d \in Q
    BY <1>2, <1>5, <1>6 DEF Q, d
  <2>2. r \in Seq(Q) /\ Len(r) = n + 1 /\ r[n + 1] = d /\ \A i \in 1 .. n : r[i] = p[i]
    BY <1>3, <1>5, <2>1
  <2> HIDE DEF r
  <2>3. \A i \in 1 .. n + 1 : i \in 1 .. n \/ i = n + 1
    BY <1>3
  <2>4. \A i \in 1 .. n : q[i] = r[i]
    <3>1. \A i \in 1 .. n : i \in 1 .. n + 1
      BY <1>3
    <3> QED
      BY <1>3, <1>5, <1>6, <2>2, <3>1
  <2>5. q[n + 1] = r[n + 1]
    <3>1. n + 1 \in 1 .. n + 1
      BY <1>3
    <3> QED
      BY <1>3, <1>6, <2>2, <3>1 DEF d
  <2>6. q = r
    BY <1>6, <2>1, <2>2, <2>3, <2>4, <2>5, SeqEqual
  <2> QED
    BY <2>6 DEF r
<1>8. FlattenSeq(Append(p, d)) = Cat(FlattenSeq(p), d)
  BY <1>2, <1>5, FlattenAppend DEF Cat, d
<1> QED
  BY <1>1, <1>2, <1>5, <1>6, <1>7, <1>8 DEF d, more

LEMMA WireNothing == CharacterStrings(<<>>) = <<>>
<1> DEFINE none == <<>>
<1>1. none \in Seq(Seq(Bytes)) /\ Len(none) = 0
  OBVIOUS
<1> HIDE DEF none
<1> DEFINE p == StringParts(none)
<1>2. CharacterStrings(none) = FlattenSeq(p) /\ p \in Seq(Seq(Bytes)) /\ Len(p) = 0
  BY <1>1, StringBytes
<1>3. p = <<>>
  BY <1>2
<1> QED
  BY <1>2, <1>3, FlattenNone DEF none

LEMMA WireCat ==
  ASSUME NEW front \in Seq(Labels), NEW rear \in Seq(Labels)
  PROVE  /\ Cat(front, rear) \in Seq(Labels)
         /\ CharacterStrings(Cat(front, rear)) = Cat(CharacterStrings(front), CharacterStrings(rear))
         /\ CharacterStrings(front) \in Seq(Bytes) /\ CharacterStrings(rear) \in Seq(Bytes)
<1> DEFINE n == Len(rear)
           Some(m) == SubSeq(rear, 1, m)
           numbers == {m \in 0 .. n : CharacterStrings(Cat(front, Some(m)))
                                        = Cat(CharacterStrings(front), CharacterStrings(Some(m)))}
<1>1. n \in Nat /\ Some(n) = rear
  BY SubSeqFull
<1>2. CharacterStrings(front) \in Seq(Bytes) /\ CharacterStrings(rear) \in Seq(Bytes)
  BY LabelBytes, StringBytes
<1>3. 0 \in numbers
  <2>1. Some(0) = <<>>
    BY SubSeqEmpty
  <2>2. Cat(front, Some(0)) = front
    BY <2>1, CatNothing
  <2>3. Cat(CharacterStrings(front), CharacterStrings(Some(0))) = CharacterStrings(front)
    BY <1>2, <2>1, CatNothing, WireNothing
  <2> QED
    BY <1>1, <2>2, <2>3
<1>4. ASSUME NEW m \in 0 .. n - 1, m \in numbers
      PROVE  m + 1 \in numbers
  <2> DEFINE s == Some(m)  l == rear[m + 1]  wire == CharacterStrings(front)
             end == CharacterStrings(s)  d == CharacterData(l)  fs == Cat(front, s)
  <2>1. s \in Seq(Labels) /\ l \in Labels /\ Some(m + 1) = Append(s, l)
    BY NextPrefix
  <2>2. m + 1 \in 0 .. n
    BY <1>1
  <2> HIDE DEF s, l
  <2>3. Cat(front, Append(s, l)) = Append(fs, l) /\ fs \in Seq(Labels)
    <3> DEFINE one == <<l>>
    <3>1. one \in Seq(Labels) /\ Append(s, l) = Cat(s, one)
      BY <2>1, AppendIsConcat DEF Cat
    <3>2. fs \in Seq(Labels)
      BY <2>1, CatLength
    <3>3. Append(fs, l) = Cat(fs, one)
      <4> HIDE DEF fs
      <4> QED
        BY <2>1, <3>2, AppendIsConcat DEF Cat
    <3> HIDE DEF one
    <3>4. Cat(front, Cat(s, one)) = Cat(fs, one)
      BY <2>1, <3>1, CatThree
    <3> QED
      BY <3>1, <3>2, <3>3, <3>4
  <2>4. CharacterStrings(Append(s, l)) = Cat(end, d) /\ end \in Seq(Bytes) /\ d \in Seq(Bytes)
    BY <2>1, WireAppend
  <2>5. CharacterStrings(Append(fs, l)) = Cat(CharacterStrings(fs), d)
    <3> HIDE DEF fs
    <3> QED
      BY <2>1, <2>3, WireAppend
  <2>6. CharacterStrings(fs) = Cat(wire, end)
    BY <1>4 DEF s
  <2>7. Cat(Cat(wire, end), d) = Cat(wire, Cat(end, d))
    <3> HIDE DEF wire, end, d
    <3> QED
      BY <1>2, <2>4, CatThree DEF wire
  <2>8. CharacterStrings(Cat(front, Some(m + 1))) = Cat(wire, CharacterStrings(Some(m + 1)))
    BY <2>1, <2>3, <2>4, <2>5, <2>6, <2>7
  <2> QED
    BY <2>2, <2>8
<1> HIDE DEF numbers
<1>5. \A m \in 0 .. n : m \in numbers
  BY <1>1, <1>3, <1>4, CountedNumbers
<1>6. n \in numbers
  BY <1>1, <1>5
<1>7. Cat(front, rear) \in Seq(Labels)
  BY CatLength
<1> QED
  BY <1>1, <1>2, <1>6, <1>7 DEF numbers

(* What is written is found. *)
LEMMA LabelPlaced ==
  ASSUME NEW x \in Seq(Bytes), NEW l \in Seq(Bytes), Len(l) \in 1 .. 191, NEW z \in Seq(Bytes)
  PROVE  /\ LabelAt(Cat(Cat(x, CharacterData(l)), z), Len(x), Len(x) + (1 + Len(l)))
         /\ LabelFrom(Cat(Cat(x, CharacterData(l)), z), Len(x), Len(x) + (1 + Len(l))) = l
<1> DEFINE size == Len(l)  d == CharacterData(l)  xd == Cat(x, d)  all == Cat(xd, z)
           at == Len(x)  end == at + (1 + size)  head == <<size % 256>>
<1>1. /\ d \in Seq(Bytes) /\ Len(d) = 1 + size /\ d[1] = size % 256
      /\ at \in Nat /\ size \in 1 .. 191 /\ d = Cat(head, l) /\ head \in Seq(Bytes) /\ Len(head) = 1
  <2>1. d \in Seq(Bytes) /\ Len(d) = 1 + size /\ d[1] = size % 256
    BY CharacterBytes
  <2>2. d = Cat(head, l)
    BY DEF CharacterData, Cat
  <2>3. size % 256 \in Bytes
    BY LowByte
  <2>4. head \in Seq(Bytes) /\ Len(head) = 1
    BY <2>3
  <2> QED
    BY <2>1, <2>2, <2>4
<1>2. size % 256 = size
  <2>1. size \in 1 .. 191
    OBVIOUS
  <2> HIDE DEF size
  <2> QED
    BY <2>1
<1> HIDE DEF d, head
<1>3. xd \in Seq(Bytes) /\ Len(xd) = at + (1 + size)
  <2>1. xd \in Seq(Bytes) /\ Len(xd) = Len(x) + Len(d)
    BY <1>1, CatLength
  <2> QED
    BY <1>1, <2>1
<1>4. all \in Seq(Bytes) /\ Len(all) = Len(xd) + Len(z) /\ Len(z) \in Nat
  <2> HIDE DEF xd
  <2> QED
    BY <1>3, CatLength
<1>5. all[at + 1] = size
  <2>1. 1 \in 1 .. Len(d) /\ at + 1 \in 1 .. Len(xd)
    <3> HIDE DEF xd, at, size
    <3> QED
      BY <1>1, <1>3
  <2>2. xd[at + 1] = d[1]
    <3> DEFINE i == 1  j == at + 1
    <3>1. Behind(x, d, i, j)
      BY <2>1 DEF Behind
    <3> HIDE DEF i, j
    <3>2. xd[j] = d[i]
      BY <1>1, <3>1, CatSecond
    <3> QED
      BY <3>2 DEF i, j
  <2>3. all[at + 1] = xd[at + 1]
    <3> DEFINE j == at + 1
    <3>1. j \in 1 .. Len(xd)
      BY <2>1
    <3> HIDE DEF j, xd
    <3>2. Cat(xd, z)[j] = xd[j]
      BY <1>3, <3>1, CatFirst
    <3> QED
      BY <3>2 DEF j
  <2> QED
    BY <1>1, <1>2, <2>2, <2>3
<1>6. SubSeq(all, at + 2, end) = l
  <2> DEFINE s == Cat(x, head)
  <2>1. s \in Seq(Bytes) /\ Len(s) = at + 1
    <3>1. s \in Seq(Bytes) /\ Len(s) = Len(x) + Len(head)
      BY <1>1, CatLength
    <3> QED
      BY <1>1, <3>1
  <2>2. xd = Cat(s, l)
    BY <1>1, CatThree
  <2> HIDE DEF s, xd
  <2>3. SubSeq(Cat(Cat(s, l), z), Len(s) + 1, Len(s) + Len(l)) = l
    BY <2>1, SliceMiddle
  <2>4. Len(s) + 1 = at + 2 /\ Len(s) + Len(l) = end
    <3> HIDE DEF at, size
    <3>1. Len(s) + 1 = at + 2 /\ Len(s) + size = at + (1 + size)
      BY <1>1, <2>1
    <3> QED
      BY <3>1 DEF size
  <2> QED
    BY <2>2, <2>3, <2>4
<1>7. LabelAt(all, at, end)
  <2> HIDE DEF all, at, size, xd
  <2>1. at < Len(all) /\ size \in 1 .. 191 /\ end = at + 1 + size /\ end <= Len(all)
    BY <1>1, <1>3, <1>4
  <2> QED
    BY <1>5, <2>1 DEF LabelAt
<1> QED
  BY <1>6, <1>7 DEF LabelFrom, d

LEMMA ZeroPlaced ==
  ASSUME NEW x \in Seq(Bytes)
  PROVE  EndsAt(Cat(x, <<0>>), Len(x))
<1> DEFINE z == <<0>>  all == Cat(x, z)
<1>1. z \in Seq(Bytes) /\ Len(z) = 1 /\ z[1] = 0
  BY DEF Bytes
<1> HIDE DEF z
<1>2. Len(all) = Len(x) + 1 /\ Len(x) \in Nat
  BY <1>1, CatLength
<1> DEFINE i == 1
<1>3. i \in 1 .. Len(z) /\ z[i] = 0
  BY <1>1
<1> HIDE DEF i
<1> DEFINE j == Len(x) + i
<1>4. all[j] = 0
  <2>1. Behind(x, z, i, j)
    BY <1>3 DEF Behind
  <2> HIDE DEF j
  <2> QED
    BY <1>1, <1>3, <2>1, CatSecond
<1> USE DEF i
<1> HIDE DEF all
<1>5. EndsAt(all, Len(x))
  BY <1>2, <1>4 DEF EndsAt
<1> QED
  BY <1>5 DEF all, z

LEMMA PointerBytes ==
  ASSUME NEW t \in Nat, t < 16384
  PROVE  /\ ((49152 + t) \div 256) % 256 \in 192 .. 255
         /\ 256 * ((((49152 + t) \div 256) % 256) - 192) + ((49152 + t) % 256) = t
<1> DEFINE q == t \div 256  r == t % 256
<1>1. q \in 0 .. 63 /\ r \in 0 .. 255 /\ t = 256 * q + r
  OBVIOUS
<1> HIDE DEF q, r
<1>2. 49152 + t = 256 * (192 + q) + r
  BY <1>1
<1> DEFINE n == 49152 + t  m == 192 + q
<1>3. n = 256 * m + r /\ m \in 192 .. 255
  BY <1>1, <1>2
<1> HIDE DEF n, m
<1>4. n \div 256 = m /\ n % 256 = r
  BY <1>1, <1>3
<1>5. m % 256 = m
  BY <1>3
<1>6. 256 * (m - 192) + r = t
  BY <1>1 DEF m
<1> QED
  BY <1>3, <1>4, <1>5, <1>6 DEF n

LEMMA PointerPlaced ==
  ASSUME NEW x \in Seq(Bytes), NEW t \in Nat, t <= MAX_POINTER
  PROVE  PointerAt(Cat(x, U16(PointerTo(t))), Len(x), t)
<1> DEFINE k == PointerTo(t)  z == U16(k)  all == Cat(x, z)  a == (k \div 256) % 256  c == k % 256
<1>1. MAX_POINTER \in Nat /\ MAX_POINTER <= 16383
  BY EncoderAssumption
<1>2. k = 49152 + t /\ t < 16384
  <2> DEFINE m == MAX_POINTER + 1
  <2>1. m \in Nat /\ t < m /\ m <= 16384
    BY <1>1
  <2>2. k = 49152 + (t % m)
    BY DEF PointerTo
  <2> HIDE DEF m, k
  <2>3. t % m = t
    BY <2>1
  <2> QED
    BY <2>1, <2>2, <2>3
<1>3. a \in 192 .. 255 /\ 256 * (a - 192) + c = t
  BY <1>2, PointerBytes
<1>4. z = <<a, c>>
  BY DEF U16
<1> HIDE DEF k
<1>5. z \in Seq(Bytes) /\ Len(z) = 2 /\ z[1] = a /\ z[2] = c
  <2>1. k \in Nat
    BY <1>2
  <2>2. z \in Seq(Bytes) /\ Len(z) = 2
    BY <2>1, U16Bytes
  <2> HIDE DEF a, c
  <2>3. <<a, c>>[1] = a /\ <<a, c>>[2] = c
    OBVIOUS
  <2> QED
    BY <1>4, <2>2, <2>3
<1> HIDE DEF z, a, c
<1>6. Len(all) = Len(x) + 2 /\ Len(x) \in Nat
  BY <1>5, CatLength
<1> DEFINE i == 1  j == 2
<1>7. i \in 1 .. Len(z) /\ j \in 1 .. Len(z) /\ z[i] = a /\ z[j] = c
  BY <1>5
<1> HIDE DEF i, j
<1> DEFINE m == Len(x) + i  n == Len(x) + j
<1>8. all[m] = a /\ all[n] = c
  <2>1. Behind(x, z, i, m) /\ Behind(x, z, j, n)
    BY <1>7 DEF Behind
  <2> HIDE DEF m, n
  <2>2. all[m] = a
    BY <1>5, <1>7, <2>1, CatSecond
  <2>3. all[n] = c
    BY <1>5, <1>7, <2>1, CatSecond
  <2> QED
    BY <2>2, <2>3
<1> USE DEF i, j
<1> HIDE DEF all
<1>9. Len(x) + 2 <= Len(all)
  BY <1>6
<1>10. PointerAt(all, Len(x), t)
  BY <1>3, <1>8, <1>9 DEF PointerAt
<1> QED
  BY <1>10 DEF all, z, k

(* Labels before something that is read are read with it. *)
BytesWith(x, front, z) == Cat(Cat(x, CharacterStrings(front)), z)
PlaceBehind(x, front) == Len(x) + Len(CharacterStrings(front))
BoundWith(front, k) == k + Len(CharacterStrings(front))

ReadsOn(x, front) ==
  \A z \in Seq(Bytes), rest \in Seq(Labels), k \in Nat :
    /\ Reads(BytesWith(x, front, z), k, PlaceBehind(x, front), rest)
    /\ BoundWith(front, k) <= Len(BytesWith(x, front, z))
    => Reads(BytesWith(x, front, z), BoundWith(front, k), Len(x), Cat(front, rest))

LEMMA NoneReadOn ==
  ASSUME NEW x \in Seq(Bytes)
  PROVE  ReadsOn(x, <<>>)
<1> DEFINE none == <<>>
<1>1. CharacterStrings(none) = none /\ Len(none) = 0 /\ Len(x) + 0 = Len(x) /\ \A k \in Nat : k + 0 = k
  BY WireNothing
<1>2. Cat(x, none) = x
  BY CatNothing
<1>3. \A rest \in Seq(Labels) : Cat(none, rest) = rest
  BY CatNothing
<1>4. \A z : BytesWith(x, none, z) = Cat(x, z)
  <2> HIDE DEF none
  <2> QED
    BY <1>1, <1>2 DEF BytesWith
<1>5. PlaceBehind(x, none) = Len(x) /\ \A k \in Nat : BoundWith(none, k) = k
  <2> HIDE DEF none
  <2> QED
    BY <1>1 DEF PlaceBehind, BoundWith
<1> HIDE DEF none
<1>6. ReadsOn(x, none)
  BY <1>3, <1>4, <1>5 DEF ReadsOn
<1> QED
  BY <1>6 DEF none

LEMMA NextReadOn ==
  ASSUME NEW x \in Seq(Bytes), NEW front \in Seq(Labels), ReadsOn(x, front), NEW l \in Labels
  PROVE  ReadsOn(x, Append(front, l))
<1> DEFINE more == Append(front, l)  wire == CharacterStrings(front)  d == CharacterData(l)
           one == <<l>>
<1>1. /\ CharacterStrings(more) = Cat(wire, d) /\ wire \in Seq(Bytes) /\ d \in Seq(Bytes)
      /\ l \in Seq(Bytes) /\ Len(l) \in 1 .. 191
  BY WireAppend
<1>2. Len(d) = 1 + Len(l)
  BY <1>1, CharacterBytes
<1>3. more = Cat(front, one) /\ one \in Seq(Labels)
  BY AppendIsConcat DEF Cat
<1> HIDE DEF more, wire, d, one
<1>4. /\ Len(wire) \in Nat /\ Len(x) \in Nat /\ Len(d) \in Nat
      /\ Len(Cat(wire, d)) = Len(wire) + Len(d)
      /\ Cat(x, wire) \in Seq(Bytes) /\ Len(Cat(x, wire)) = Len(x) + Len(wire)
  BY <1>1, CatLength
<1> SUFFICES ASSUME NEW z \in Seq(Bytes), NEW rest \in Seq(Labels), NEW k \in Nat,
                    Reads(BytesWith(x, more, z), k, PlaceBehind(x, more), rest),
                    BoundWith(more, k) <= Len(BytesWith(x, more, z))
             PROVE  Reads(BytesWith(x, more, z), BoundWith(more, k), Len(x), Cat(more, rest))
  BY DEF ReadsOn, more
<1> DEFINE all == BytesWith(x, more, z)  begun == Cat(x, wire)  tail == Cat(d, z)
           labels == Cat(one, rest)
           at == Len(begun)  end == at + (1 + Len(l))  size == Len(all)
           a == k + 1  b == k + Len(d)  c == BoundWith(more, k)
<1>5. all = Cat(Cat(begun, d), z) /\ all = Cat(begun, tail) /\ tail \in Seq(Bytes) /\ all \in Seq(Bytes)
  <2>1. all = Cat(Cat(x, Cat(wire, d)), z)
    BY <1>1 DEF BytesWith
  <2>2. Cat(x, Cat(wire, d)) = Cat(begun, d)
    BY <1>1, CatThree
  <2> HIDE DEF begun
  <2>3. Cat(Cat(begun, d), z) = Cat(begun, tail) /\ tail \in Seq(Bytes)
    BY <1>1, <1>4, CatThree DEF begun
  <2> HIDE DEF tail
  <2>4. Cat(begun, tail) \in Seq(Bytes)
    BY <1>4, <2>3, CatLength DEF begun
  <2> QED
    BY <2>1, <2>2, <2>3, <2>4
<1>6. all = BytesWith(x, front, tail)
  BY <1>5 DEF BytesWith, wire
<1>7. LabelAt(Cat(Cat(begun, d), z), at, end) /\ LabelFrom(Cat(Cat(begun, d), z), at, end) = l
  <2> HIDE DEF begun
  <2> QED
    BY <1>1, <1>4, LabelPlaced DEF d, begun
<1>8. PlaceBehind(x, more) = end /\ PlaceBehind(x, front) = at /\ at \in Nat /\ end \in Nat
  <2>1. PlaceBehind(x, more) = Len(x) + (Len(wire) + Len(d)) /\ PlaceBehind(x, front) = Len(x) + Len(wire)
    BY <1>1, <1>4 DEF PlaceBehind, wire
  <2> DEFINE i == Len(x)  j == Len(wire)  m == Len(l)
  <2>2. at = i + j /\ m \in Nat /\ i \in Nat /\ j \in Nat
        /\ PlaceBehind(x, more) = i + (j + (1 + m)) /\ PlaceBehind(x, front) = i + j
    BY <1>1, <1>2, <1>4, <2>1
  <2> HIDE DEF i, j, m, at
  <2>3. PlaceBehind(x, more) = at + (1 + m)
    BY <2>2
  <2> QED
    BY <2>2, <2>3 DEF m
<1>9. /\ BoundWith(front, b) = c /\ a \in Nat /\ k < size /\ size \in Nat /\ b \in a .. size
      /\ c \in Nat /\ c <= size
  <2> DEFINE j == Len(wire)  m == Len(l)
  <2>1. c = k + (j + (1 + m)) /\ BoundWith(front, b) = b + j /\ b = k + (1 + m)
    BY <1>1, <1>2, <1>4 DEF BoundWith, wire
  <2>2. j \in Nat /\ m \in Nat /\ m >= 1 /\ size \in Nat /\ c <= size
    <3>1. j \in Nat /\ m \in 1 .. 191
      BY <1>1, <1>4
    <3>2. size \in Nat
      <4> HIDE DEF all
      <4> QED
        BY <1>5
    <3>3. c <= size
      OBVIOUS
    <3> HIDE DEF j, m, size, c
    <3> QED
      BY <3>1, <3>2, <3>3
  <2> HIDE DEF j, m, b, c, size
  <2> QED
    BY <2>1, <2>2
<1>10. labels \in Seq(Labels) /\ labels = one \o rest /\ Cat(front, labels) = Cat(more, rest)
  <2>1. labels \in Seq(Labels) /\ Cat(Cat(front, one), rest) = Cat(front, Cat(one, rest))
    BY <1>3, CatThree
  <2> QED
    BY <1>3, <2>1 DEF Cat
<1>11. Reads(all, k, end, rest) /\ LabelAt(all, at, end) /\ LabelFrom(all, at, end) = l
  BY <1>5, <1>7, <1>8
<1> HIDE DEF all, begun, tail, labels, at, end, b, c
<1>12. Reads(all, a, at, labels)
  <2>1. Reads(all, a, at, <<LabelFrom(all, at, end)>> \o rest)
    <3> HIDE DEF size
    <3> QED
      BY <1>5, <1>8, <1>9, <1>11, ReadsLabel DEF size
  <2> QED
    BY <1>10, <1>11, <2>1 DEF one
<1> HIDE DEF a
<1>13. Reads(all, b, at, labels)
  BY <1>5, <1>9, <1>10, <1>12, ReadsLonger DEF size
<1>14. Reads(all, c, Len(x), Cat(front, labels))
  <2>1. b \in Nat
    <3> HIDE DEF size
    <3> QED
      BY <1>9
  <2>2. BoundWith(front, b) <= Len(BytesWith(x, front, tail))
    BY <1>6, <1>9 DEF size
  <2> QED
    BY <1>5, <1>6, <1>8, <1>9, <1>10, <1>13, <2>1, <2>2 DEF ReadsOn
<1> QED
  BY <1>10, <1>14 DEF all, c

LEMMA ReadsFront ==
  ASSUME NEW x \in Seq(Bytes), NEW front \in Seq(Labels)
  PROVE  ReadsOn(x, front)
<1> DEFINE n == Len(front)
           numbers == {m \in 0 .. n : ReadsOn(x, SubSeq(front, 1, m))}
<1>1. n \in Nat /\ SubSeq(front, 1, n) = front /\ SubSeq(front, 1, 0) = <<>>
  BY SubSeqFull, SubSeqEmpty
<1>2. 0 \in numbers
  <2>1. ReadsOn(x, SubSeq(front, 1, 0))
    BY <1>1, NoneReadOn, Zenon
  <2> QED
    BY <1>1, <2>1
<1>3. ASSUME NEW m \in 0 .. n - 1, m \in numbers
      PROVE  m + 1 \in numbers
  <2> DEFINE s == SubSeq(front, 1, m)  l == front[m + 1]
  <2>1. s \in Seq(Labels) /\ l \in Labels /\ SubSeq(front, 1, m + 1) = Append(s, l)
    BY NextPrefix
  <2>2. ReadsOn(x, s) /\ m + 1 \in 0 .. n
    BY <1>1, <1>3
  <2> HIDE DEF s, l
  <2>3. ReadsOn(x, Append(s, l))
    BY <2>1, <2>2, NextReadOn
  <2> QED
    BY <2>1, <2>2, <2>3
<1> HIDE DEF numbers
<1>4. \A m \in 0 .. n : m \in numbers
  BY <1>1, <1>2, <1>3, CountedNumbers
<1>5. n \in numbers
  BY <1>1, <1>4
<1> QED
  BY <1>1, <1>5 DEF numbers

------------------------------------------------------------------------------
(* A name cut before one of its labels. *)
Cut(labels, i, front, rear) ==
  /\ front \in Seq(Labels) /\ rear \in Seq(Labels) /\ labels = Cat(front, rear)
  /\ front = SubSeq(labels, 1, i - 1) /\ Len(front) = i - 1

LEMMA CutAt ==
  ASSUME NEW labels \in Seq(Labels), NEW i \in 1 .. Len(labels)
  PROVE  \E front, rear : Cut(labels, i, front, rear)
<1> DEFINE n == Len(labels)  k == i - 1
           front == SubSeq(labels, 1, k)  rear == SubSeq(labels, k + 1, n)
<1>1. n \in Nat /\ k \in 0 .. n /\ k \in 1 - 1 .. n /\ 1 \in 1 .. n + 1 /\ n \in k .. n
  OBVIOUS
<1>2. front \in Seq(Labels) /\ Len(front) = k
  BY <1>1, Prefix
<1>3. rear \in Seq(Labels)
  <2>1. \A j \in k + 1 .. n : j \in 1 .. Len(labels)
    BY <1>1
  <2>2. \A j \in k + 1 .. n : labels[j] \in Labels
    BY <2>1, ElementOfSeq
  <2>3. k + 1 \in Int /\ n \in Int
    BY <1>1
  <2> HIDE DEF n, k
  <2> QED
    BY <2>2, <2>3, SubSeqProperties
<1>4. front \o rear = labels
  <2>1. SubSeq(labels, 1, n) = labels
    BY SubSeqFull
  <2>2. SubSeq(labels, 1, k) \o SubSeq(labels, k + 1, n) = SubSeq(labels, 1, n)
    BY <1>1, ConcatAdjacentSubSeq
  <2> QED
    BY <2>1, <2>2
<1>5. Cut(labels, i, front, rear)
  BY <1>2, <1>3, <1>4 DEF Cut, Cat
<1> QED
  BY <1>5

LEMMA CutTwice ==
  ASSUME NEW labels \in Seq(Labels), NEW i \in 1 .. Len(labels), NEW front, NEW rear,
         Cut(labels, i, front, rear), NEW j \in 1 .. i - 1
  PROVE  \E first, mid : /\ Cut(front, j, first, mid) /\ Cut(labels, j, first, Cat(mid, rear))
                         /\ mid \in Seq(Labels)
<1>1. /\ front \in Seq(Labels) /\ rear \in Seq(Labels) /\ labels = Cat(front, rear)
      /\ front = SubSeq(labels, 1, i - 1) /\ Len(front) = i - 1
  BY DEF Cut
<1>2. j \in 1 .. Len(front)
  BY <1>1
<1>3. PICK first, mid : Cut(front, j, first, mid)
  BY <1>1, <1>2, CutAt
<1>4. /\ first \in Seq(Labels) /\ mid \in Seq(Labels) /\ front = Cat(first, mid)
      /\ first = SubSeq(front, 1, j - 1) /\ Len(first) = j - 1
  BY <1>3 DEF Cut
<1>5. labels = Cat(first, Cat(mid, rear)) /\ Cat(mid, rear) \in Seq(Labels)
  <2>1. first \in Seq(Labels) /\ mid \in Seq(Labels) /\ rear \in Seq(Labels)
    BY <1>1, <1>4
  <2>2. Cat(Cat(first, mid), rear) = Cat(first, Cat(mid, rear))
    BY <2>1, CatThree
  <2>3. Cat(mid, rear) \in Seq(Labels)
    BY <2>1, CatLength
  <2> QED
    BY <1>1, <1>4, <2>2, <2>3
<1>6. SubSeq(labels, 1, Len(first)) = first
  <2> DEFINE tail == Cat(mid, rear)
  <2>1. tail \in Seq(Labels) /\ labels = Cat(first, tail)
    BY <1>5
  <2> HIDE DEF tail
  <2> QED
    BY <1>4, <2>1, SliceBefore
<1>7. Cut(labels, j, first, Cat(mid, rear))
  BY <1>4, <1>5, <1>6 DEF Cut
<1> QED
  BY <1>3, <1>4, <1>7

LEMMA CutWire ==
  ASSUME NEW b \in Seq(Bytes), NEW labels \in Seq(Labels), NEW i, NEW front, NEW rear,
         Cut(labels, i, front, rear)
  PROVE  LET bytes == Cat(b, CharacterStrings(labels))
             begun == Cat(b, CharacterStrings(front))
             at == WireStart(b, labels, i)
         IN  /\ begun \in Seq(Bytes) /\ at = Len(begun) /\ at \in Nat
             /\ CharacterStrings(rear) \in Seq(Bytes)
             /\ bytes = Cat(begun, CharacterStrings(rear))
             /\ SubSeq(bytes, 1, at) = begun
             /\ SubSeq(bytes, at + 1, Len(bytes)) = CharacterStrings(rear)
<1> DEFINE bytes == Cat(b, CharacterStrings(labels))  wire == CharacterStrings(front)
           end == CharacterStrings(rear)
           begun == Cat(b, wire)  at == WireStart(b, labels, i)
<1>1. /\ front \in Seq(Labels) /\ rear \in Seq(Labels) /\ labels = Cat(front, rear)
      /\ front = SubSeq(labels, 1, i - 1)
  BY DEF Cut
<1>2. CharacterStrings(labels) = Cat(wire, end) /\ wire \in Seq(Bytes) /\ end \in Seq(Bytes)
  BY <1>1, WireCat
<1>3. begun \in Seq(Bytes) /\ Len(begun) = Len(b) + Len(wire) /\ Len(begun) \in Nat
  <2>1. begun \in Seq(Bytes) /\ Len(begun) = Len(b) + Len(wire)
    BY <1>2, CatLength
  <2> HIDE DEF begun
  <2> QED
    BY <2>1
<1>4. at = Len(begun)
  <2>1. WireSize(front) = Len(wire)
    BY <1>1, SizeOfWire
  <2> QED
    BY <1>1, <1>3, <2>1 DEF WireStart
<1>5. bytes = Cat(begun, end)
  <2> HIDE DEF wire, end
  <2>1. Cat(Cat(b, wire), end) = Cat(b, Cat(wire, end))
    BY <1>2, CatThree
  <2> QED
    BY <1>2, <2>1
<1> HIDE DEF begun, end, bytes, at
<1>6. SubSeq(bytes, 1, at) = begun
  BY <1>2, <1>3, <1>4, <1>5, SliceBefore
<1>7. SubSeq(bytes, at + 1, Len(bytes)) = end
  BY <1>2, <1>3, <1>4, <1>5, SliceAfter
<1> QED
  BY <1>2, <1>3, <1>4, <1>5, <1>6, <1>7 DEF begun, end, bytes, at

(* A name written in full, and one that ends in a pointer. *)
LEMMA BytesWithTyped ==
  ASSUME NEW x \in Seq(Bytes), NEW front \in Seq(Labels), NEW z \in Seq(Bytes)
  PROVE  LET all == BytesWith(x, front, z)
             begun == Cat(x, CharacterStrings(front))
         IN  /\ all \in Seq(Bytes) /\ begun \in Seq(Bytes) /\ all = Cat(begun, z)
             /\ Len(begun) = PlaceBehind(x, front) /\ Len(x) \in Nat
             /\ Len(CharacterStrings(front)) \in Nat /\ Len(begun) \in Nat
             /\ Len(all) = Len(begun) + Len(z) /\ Len(all) \in Nat
             /\ Len(begun) = Len(x) + Len(CharacterStrings(front))
<1> DEFINE wire == CharacterStrings(front)  begun == Cat(x, wire)  all == Cat(begun, z)
<1>1. wire \in Seq(Bytes)
  BY LabelBytes, StringBytes
<1> HIDE DEF wire
<1>2. /\ begun \in Seq(Bytes) /\ Len(begun) = Len(x) + Len(wire) /\ Len(x) \in Nat /\ Len(wire) \in Nat
  BY <1>1, CatLength
<1> HIDE DEF begun
<1>3. all \in Seq(Bytes) /\ Len(all) = Len(begun) + Len(z) /\ Len(begun) \in Nat /\ Len(z) \in Nat
  BY <1>2, CatLength
<1> HIDE DEF all
<1>4. Len(all) \in Nat
  BY <1>3
<1> QED
  BY <1>2, <1>3, <1>4 DEF all, begun, wire, BytesWith, PlaceBehind

LEMMA FullRead ==
  ASSUME NEW x \in Seq(Bytes), NEW rear \in Seq(Labels)
  PROVE  LabelsAt(BytesWith(x, rear, <<0>>), Len(x)) = rear
<1> DEFINE z == <<0>>  all == BytesWith(x, rear, z)  begun == Cat(x, CharacterStrings(rear))
           none == <<>>  k == 1
<1>1. z \in Seq(Bytes) /\ Len(z) = 1 /\ none \in Seq(Labels) /\ Cat(rear, none) = rear
  BY CatNothing DEF Bytes
<1>2. EndsAt(Cat(begun, z), Len(begun))
  BY BytesWithTyped, ZeroPlaced
<1> HIDE DEF z
<1>3. /\ all \in Seq(Bytes) /\ begun \in Seq(Bytes) /\ all = Cat(begun, z)
      /\ Len(begun) = PlaceBehind(x, rear) /\ Len(x) \in Nat
      /\ Len(CharacterStrings(rear)) \in Nat /\ Len(begun) \in Nat
      /\ Len(all) = Len(begun) + Len(z) /\ Len(all) \in Nat
      /\ Len(begun) = Len(x) + Len(CharacterStrings(rear))
  BY <1>1, BytesWithTyped
<1> HIDE DEF all, begun
<1>4. BoundWith(rear, k) <= Len(all) /\ BoundWith(rear, k) \in Nat /\ k \in 1 .. Len(all) /\ k \in Nat
  BY <1>1, <1>3 DEF BoundWith
<1> HIDE DEF k, none
<1>5. Reads(all, k, Len(begun), none)
  BY <1>2, <1>3, <1>4, ReadsEnd DEF none
<1>6. Reads(all, BoundWith(rear, k), Len(x), Cat(rear, none))
  BY <1>1, <1>3, <1>4, <1>5, ReadsFront DEF ReadsOn, all
<1> DEFINE m == BoundWith(rear, k)  size == Len(all)
<1>7. Reads(all, size, Len(x), rear)
  <2>1. size \in m .. size
    <3>1. m \in Nat /\ size \in Nat /\ m <= size
      BY <1>3, <1>4
    <3> HIDE DEF m, size
    <3> QED
      BY <3>1
  <2>2. Reads(all, m, Len(x), rear)
    BY <1>1, <1>6
  <2> HIDE DEF m
  <2> QED
    BY <1>3, <2>1, <2>2, ReadsLonger
<1> QED
  BY <1>3, <1>7, ReadsOf DEF all, z

LEMMA ReadKept ==
  ASSUME NEW b \in Seq(Bytes), NEW d \in Seq(Bytes), NEW at \in Nat, NEW labels \in Seq(Labels),
         LabelsAt(b, at) = labels
  PROVE  LabelsAt(Cat(b, d), at) = labels
<1> DEFINE c == Cat(b, d)  m == Len(b)  n == Len(c)
<1>1. c \in Seq(Bytes) /\ m \in Nat /\ n \in Nat /\ n = m + Len(d) /\ Len(d) \in Nat
  <2>1. c \in Seq(Bytes) /\ n = m + Len(d) /\ m \in Nat /\ Len(d) \in Nat
    BY CatLength
  <2> HIDE DEF n, m
  <2> QED
    BY <2>1
<1>2. Reads(b, m, at, labels)
  BY ReadsOf
<1>3. n \in m .. n
  <2> HIDE DEF m, n
  <2> QED
    BY <1>1
<1>4. Reads(c, n, at, labels)
  <2> HIDE DEF m
  <2> QED
    BY <1>2, <1>3, ReadsMore
<1> HIDE DEF c
<1> QED
  BY <1>1, <1>4, ReadsOf DEF c

LEMMA PointedRead ==
  ASSUME NEW b \in Seq(Bytes), NEW t \in Nat, t <= MAX_POINTER, NEW rest \in Seq(Labels),
         LabelsAt(b, t) = rest, NEW x \in Seq(Bytes), NEW mid \in Seq(Labels), NEW y \in Seq(Bytes),
         x = Cat(b, y)
  PROVE  LabelsAt(BytesWith(x, mid, U16(PointerTo(t))), Len(x)) = Cat(mid, rest)
<1> DEFINE z == U16(PointerTo(t))  wire == CharacterStrings(mid)
           all == BytesWith(x, mid, z)  begun == Cat(x, wire)
           k == Len(x)  a == k + 1  c == BoundWith(mid, a)  size == Len(all)
<1>1. z \in Seq(Bytes) /\ Len(z) = 2
  <2>1. PointerTo(t) \in Nat
    BY PointerCode, WordNumber
  <2> QED
    BY <2>1, U16Bytes
<1>2. PointerAt(Cat(begun, z), Len(begun), t)
  <2>1. begun \in Seq(Bytes)
    BY <1>1, BytesWithTyped
  <2> HIDE DEF begun
  <2> QED
    BY <2>1, PointerPlaced
<1> HIDE DEF z
<1>3. /\ all \in Seq(Bytes) /\ begun \in Seq(Bytes) /\ all = Cat(begun, z)
      /\ Len(begun) = PlaceBehind(x, mid) /\ Len(x) \in Nat
      /\ Len(wire) \in Nat /\ Len(begun) \in Nat
      /\ size = Len(begun) + Len(z) /\ size \in Nat
      /\ Len(begun) = Len(x) + Len(wire) /\ wire \in Seq(Bytes)
  <2>1. wire \in Seq(Bytes)
    BY LabelBytes, StringBytes
  <2>2. z \in Seq(Bytes)
    BY <1>1
  <2> QED
    BY <2>1, <2>2, BytesWithTyped
<1> HIDE DEF all, begun, wire
<1>4. LabelsAt(x, t) = rest
  BY ReadKept
<1>5. Reads(x, k, t, rest)
  BY <1>4, ReadsOf
<1>6. c = k + 1 + Len(wire) /\ c <= size /\ c \in Nat /\ k < size /\ k \in Nat /\ size \in c .. size
      /\ k \in k .. size /\ a \in Nat
  <2>1. c = k + 1 + Len(wire)
    BY DEF BoundWith, wire
  <2>2. size = (k + Len(wire)) + 2 /\ k \in Nat /\ Len(wire) \in Nat
    BY <1>1, <1>3
  <2> DEFINE w == Len(wire)
  <2> HIDE DEF c, k, size, w
  <2>3. c = k + 1 + w /\ size = k + w + 2 /\ k \in Nat /\ w \in Nat
    BY <2>1, <2>2 DEF w
  <2>4. c <= size /\ c \in Nat /\ k < size /\ k \in Nat /\ size \in c .. size
        /\ k \in k .. size /\ a \in Nat
    BY <2>3
  <2> QED
    BY <2>1, <2>4
<1>7. Reads(all, k, t, rest)
  <2> DEFINE d == Cat(wire, z)
  <2>1. d \in Seq(Bytes) /\ all = Cat(x, d)
    <3>1. d \in Seq(Bytes) /\ Cat(Cat(x, wire), z) = Cat(x, d)
      BY <1>1, <1>3, CatThree
    <3> QED
      BY <1>3, <3>1 DEF begun
  <2> HIDE DEF d, k
  <2> QED
    BY <1>5, <1>6, <2>1, ReadsMore
<1>8. PointerAt(all, Len(begun), t)
  BY <1>2, <1>3
<1> HIDE DEF c, k, size
<1>9. Reads(all, a, Len(begun), rest)
  BY <1>3, <1>6, <1>7, <1>8, ReadsPointer DEF size
<1>10. Reads(all, c, Len(x), Cat(mid, rest))
  <2>1. ReadsOn(x, mid)
    BY ReadsFront
  <2> HIDE DEF a
  <2> QED
    BY <1>1, <1>3, <1>6, <1>9, <2>1 DEF ReadsOn, all, c, size
<1>11. Cat(mid, rest) \in Seq(Labels)
  BY CatLength
<1>12. Reads(all, size, Len(x), Cat(mid, rest))
  BY <1>3, <1>6, <1>10, <1>11, ReadsLonger DEF size
<1> QED
  BY <1>3, <1>12, ReadsOf DEF all, z, size

------------------------------------------------------------------------------
(* Pointers to names that are read as what they are remembered for, and     *)
(* names written so that they are.                                         *)
Good(b) ==
  {p \in PointerSet :
     /\ p.start <= MAX_POINTER
     /\ \E labels \in Seq(Labels) : p.name = CharacterStrings(labels) /\ LabelsAt(b, p.start) = labels}

WrittenAt(b, start, labels) ==
  \E x, y \in Seq(Bytes) : b = Cat(Cat(x, Written(labels)), y) /\ Len(x) = start

NameIn(b, w) ==
  /\ w.start \in Nat /\ w.labels \in Seq(Labels)
  /\ LabelsAt(b, w.start) = w.labels
  /\ w.canonical => WrittenAt(b, w.start, w.labels)

Grown(b, c) == c \in Seq(Bytes) /\ \E d \in Seq(Bytes) : c = Cat(b, d)

LEMMA GoodKept ==
  ASSUME NEW b \in Seq(Bytes), NEW c, Grown(b, c), NEW p \in Good(b)
  PROVE  p \in Good(c)
<1>1. PICK d \in Seq(Bytes) : c = Cat(b, d)
  BY DEF Grown
<1>2. p \in PointerSet /\ p.start <= MAX_POINTER /\ p.start \in Nat
  BY DEF Good, PointerSet
<1>3. PICK labels \in Seq(Labels) : p.name = CharacterStrings(labels) /\ LabelsAt(b, p.start) = labels
  BY DEF Good
<1>4. LabelsAt(c, p.start) = labels
  BY <1>1, <1>2, <1>3, ReadKept
<1> QED
  BY <1>2, <1>3, <1>4 DEF Good

LEMMA NameKept ==
  ASSUME NEW b \in Seq(Bytes), NEW c, Grown(b, c), NEW w, NameIn(b, w)
  PROVE  NameIn(c, w)
<1>1. PICK d \in Seq(Bytes) : c = Cat(b, d)
  BY DEF Grown
<1>2. w.start \in Nat /\ w.labels \in Seq(Labels) /\ LabelsAt(b, w.start) = w.labels
  BY DEF NameIn
<1>3. LabelsAt(c, w.start) = w.labels
  BY <1>1, <1>2, ReadKept
<1>4. ASSUME w.canonical PROVE WrittenAt(c, w.start, w.labels)
  <2> DEFINE name == Written(w.labels)
  <2>1. name \in Seq(Bytes)
    BY <1>2, NameEnds
  <2>2. PICK x \in Seq(Bytes), y \in Seq(Bytes) : b = Cat(Cat(x, name), y) /\ Len(x) = w.start
    BY <1>4 DEF NameIn, WrittenAt
  <2> HIDE DEF name
  <2> DEFINE xn == Cat(x, name)
  <2>3. xn \in Seq(Bytes)
    BY <2>1, CatLength
  <2>4. b = Cat(xn, y)
    BY <2>2
  <2> HIDE DEF xn
  <2>5. Cat(Cat(xn, y), d) = Cat(xn, Cat(y, d)) /\ Cat(y, d) \in Seq(Bytes)
    BY <2>3, CatThree
  <2>6. c = Cat(xn, Cat(y, d))
    BY <1>1, <2>4, <2>5
  <2> QED
    BY <2>2, <2>5, <2>6 DEF WrittenAt, name, xn
<1> QED
  BY <1>2, <1>3, <1>4 DEF NameIn

LEMMA GrownMore ==
  ASSUME NEW b \in Seq(Bytes), NEW c, Grown(b, c), NEW e, Grown(c, e)
  PROVE  Grown(b, e)
<1>1. PICK d \in Seq(Bytes) : c = Cat(b, d)
  BY DEF Grown
<1>2. PICK f \in Seq(Bytes) : e = Cat(c, f)
  BY DEF Grown
<1>3. e = Cat(b, Cat(d, f)) /\ Cat(d, f) \in Seq(Bytes)
  <2>1. Cat(Cat(b, d), f) = Cat(b, Cat(d, f)) /\ Cat(d, f) \in Seq(Bytes)
    BY CatThree
  <2> QED
    BY <1>1, <1>2, <2>1
<1> QED
  BY <1>3 DEF Grown

LEMMA GrownWith ==
  ASSUME NEW b \in Seq(Bytes), NEW front \in Seq(Labels), NEW z \in Seq(Bytes)
  PROVE  Grown(b, BytesWith(b, front, z))
<1> DEFINE wire == CharacterStrings(front)  all == BytesWith(b, front, z)  d == Cat(wire, z)
<1>1. wire \in Seq(Bytes)
  BY LabelBytes, StringBytes
<1>2. all = Cat(Cat(b, wire), z)
  BY DEF BytesWith
<1>3. all \in Seq(Bytes)
  BY BytesWithTyped
<1> HIDE DEF wire, all
<1>4. Cat(Cat(b, wire), z) = Cat(b, d)
  BY <1>1, CatThree
<1>5. d \in Seq(Bytes)
  BY <1>1, CatLength
<1> HIDE DEF d
<1>6. Grown(b, all)
  BY <1>2, <1>3, <1>4, <1>5 DEF Grown
<1> QED
  BY <1>6 DEF all

LEMMA AllKept ==
  ASSUME NEW b \in Seq(Bytes), NEW c, Grown(b, c), NEW ps, AllIn(ps, Good(b))
  PROVE  AllIn(ps, Good(c))
BY GoodKept DEF AllIn

LEMMA AllOf ==
  ASSUME NEW S, NEW b, NEW labels, NEW last, NEW ps, AllIn(ps, S),
         \A p \in Remembered(b, labels, last) : p \in S, NEW qs,
         AllIn(qs, PointersOf(ps, b, labels, last))
  PROVE  AllIn(qs, S)
BY DEF AllIn, PointersOf

(* The bytes of a name are those of its front and its rear. *)
LEMMA BytesCut ==
  ASSUME NEW b \in Seq(Bytes), NEW labels \in Seq(Labels), NEW i, NEW front, NEW rear,
         Cut(labels, i, front, rear), NEW z
  PROVE  /\ BytesWith(b, labels, z) = BytesWith(Cat(b, CharacterStrings(front)), rear, z)
         /\ Cat(b, CharacterStrings(front)) \in Seq(Bytes)
         /\ WireStart(b, labels, i) = Len(Cat(b, CharacterStrings(front)))
BY CutWire DEF BytesWith

LEMMA RememberedGood ==
  ASSUME NEW b \in Seq(Bytes), NEW labels \in Seq(Labels), NEW i, NEW front, NEW rear,
         Cut(labels, i, front, rear), NEW all, NEW p \in PointerSet,
         p = PointerFrom(Cat(b, CharacterStrings(labels)), WireStart(b, labels, i)),
         Len(Cat(b, CharacterStrings(labels))) < MAX_POINTER,
         LabelsAt(all, WireStart(b, labels, i)) = rear
  PROVE  p \in Good(all)
<1> DEFINE bytes == Cat(b, CharacterStrings(labels))
           begun == Cat(b, CharacterStrings(front))
           at == WireStart(b, labels, i)
           end == CharacterStrings(rear)
<1>1. /\ begun \in Seq(Bytes) /\ at = Len(begun) /\ at \in Nat /\ end \in Seq(Bytes)
      /\ bytes = Cat(begun, end)
      /\ SubSeq(bytes, at + 1, Len(bytes)) = end
  BY CutWire
<1>2. rear \in Seq(Labels)
  BY DEF Cut
<1>3. p.start = at /\ p.name = end
  BY <1>1 DEF PointerFrom
<1> HIDE DEF begun, end, at
<1>4. Len(Cat(begun, end)) = Len(begun) + Len(end) /\ Len(begun) \in Nat /\ Len(end) \in Nat
  BY <1>1, CatLength
<1>5. Len(bytes) < MAX_POINTER /\ MAX_POINTER \in Nat
  BY EncoderAssumption
<1>6. at <= MAX_POINTER
  <2> HIDE DEF bytes
  <2> QED
    BY <1>1, <1>4, <1>5
<1>7. p.start <= MAX_POINTER
  BY <1>3, <1>6
<1>8. p.name = CharacterStrings(rear) /\ LabelsAt(all, p.start) = rear
  BY <1>3 DEF end, at
<1> HIDE DEF bytes
<1> QED
  BY <1>2, <1>7, <1>8 DEF Good

(* Names written in full. *)
LEMMA FullRemembers ==
  ASSUME NEW b \in Seq(Bytes), NEW labels \in Seq(Labels),
         NEW p \in Remembered(b, labels, Len(labels))
  PROVE  p \in Good(BytesWith(b, labels, <<0>>))
<1> DEFINE zero == <<0>>  all == BytesWith(b, labels, zero)
<1>1. /\ p \in PointerSet /\ Len(Cat(b, CharacterStrings(labels))) < MAX_POINTER
      /\ \E i \in 1 .. Len(labels) :
           p = PointerFrom(Cat(b, CharacterStrings(labels)), WireStart(b, labels, i))
  BY DEF Remembered
<1>2. PICK i \in 1 .. Len(labels) :
        p = PointerFrom(Cat(b, CharacterStrings(labels)), WireStart(b, labels, i))
  BY <1>1
<1>3. PICK front, rear : Cut(labels, i, front, rear)
  BY CutAt
<1>4. rear \in Seq(Labels)
  BY <1>3 DEF Cut
<1> DEFINE begun == Cat(b, CharacterStrings(front))
<1>5. begun \in Seq(Bytes) /\ all = BytesWith(begun, rear, zero) /\ WireStart(b, labels, i) = Len(begun)
  <2> HIDE DEF zero
  <2> QED
    BY <1>3, BytesCut
<1> HIDE DEF begun, all
<1>6. LabelsAt(BytesWith(begun, rear, zero), Len(begun)) = rear
  BY <1>4, <1>5, FullRead
<1>7. LabelsAt(all, WireStart(b, labels, i)) = rear
  BY <1>5, <1>6
<1>8. p \in Good(all)
  BY <1>1, <1>2, <1>3, <1>7, RememberedGood
<1> QED
  BY <1>8 DEF all

LEMMA FullWritten ==
  ASSUME NEW b \in Seq(Bytes), NEW labels \in Seq(Labels)
  PROVE  WrittenAt(BytesWith(b, labels, <<0>>), Len(b), labels)
<1> DEFINE zero == <<0>>  none == <<>>  wire == CharacterStrings(labels)  name == Cat(wire, zero)
<1>1. zero \in Seq(Bytes) /\ none \in Seq(Bytes)
  BY DEF Bytes
<1>2. wire \in Seq(Bytes)
  BY LabelBytes, StringBytes
<1> HIDE DEF zero, wire
<1>3. name \in Seq(Bytes) /\ Cat(Cat(b, wire), zero) = Cat(b, name)
  BY <1>1, <1>2, CatThree
<1>4. Cat(b, name) \in Seq(Bytes)
  <2> HIDE DEF name
  <2> QED
    BY <1>3, CatLength
<1>5. Cat(Cat(b, name), none) = Cat(b, name)
  <2> DEFINE s == Cat(b, name)
  <2> HIDE DEF s
  <2>1. Cat(s, <<>>) = s
    BY <1>4, CatNothing DEF s
  <2> QED
    BY <2>1 DEF s
<1>6. name = Written(labels)
  BY DEF Written, wire, zero
<1>7. BytesWith(b, labels, zero) = Cat(Cat(b, Written(labels)), none)
  <2> HIDE DEF name
  <2> QED
    BY <1>3, <1>5, <1>6 DEF BytesWith, wire
<1> QED
  BY <1>1, <1>7 DEF WrittenAt, zero

(* Names that end in a pointer. *)
LEMMA PointedWhole ==
  ASSUME NEW b \in Seq(Bytes), NEW labels \in Seq(Labels), NEW i, NEW front, NEW rear,
         Cut(labels, i, front, rear), NEW t \in Nat, t <= MAX_POINTER, LabelsAt(b, t) = rear
  PROVE  LabelsAt(BytesWith(b, front, U16(PointerTo(t))), Len(b)) = labels
<1> DEFINE none == <<>>
<1>1. front \in Seq(Labels) /\ rear \in Seq(Labels) /\ labels = Cat(front, rear)
  BY DEF Cut
<1>2. none \in Seq(Bytes) /\ b = Cat(b, none)
  BY CatNothing
<1> HIDE DEF none
<1>3. LabelsAt(BytesWith(b, front, U16(PointerTo(t))), Len(b)) = Cat(front, rear)
  BY <1>1, <1>2, PointedRead
<1> QED
  BY <1>1, <1>3

LEMMA PointedRemembers ==
  ASSUME NEW b \in Seq(Bytes), NEW labels \in Seq(Labels), NEW i \in 1 .. Len(labels),
         NEW front, NEW rear, Cut(labels, i, front, rear),
         NEW t \in Nat, t <= MAX_POINTER, LabelsAt(b, t) = rear,
         NEW p \in Remembered(b, labels, i - 1)
  PROVE  p \in Good(BytesWith(b, front, U16(PointerTo(t))))
<1> DEFINE z == U16(PointerTo(t))  all == BytesWith(b, front, z)
<1>1. /\ p \in PointerSet /\ Len(Cat(b, CharacterStrings(labels))) < MAX_POINTER
      /\ \E j \in 1 .. i - 1 :
           p = PointerFrom(Cat(b, CharacterStrings(labels)), WireStart(b, labels, j))
  BY DEF Remembered
<1>2. PICK j \in 1 .. i - 1 :
        p = PointerFrom(Cat(b, CharacterStrings(labels)), WireStart(b, labels, j))
  BY <1>1
<1>3. PICK first, mid : /\ Cut(front, j, first, mid) /\ Cut(labels, j, first, Cat(mid, rear))
                        /\ mid \in Seq(Labels)
  BY CutTwice
<1>4. front \in Seq(Labels) /\ rear \in Seq(Labels) /\ first \in Seq(Labels)
  BY <1>3 DEF Cut
<1> DEFINE wire == CharacterStrings(first)  begun == Cat(b, wire)
<1>5. wire \in Seq(Bytes)
  BY <1>4, LabelBytes, StringBytes
<1>6. all = BytesWith(begun, mid, z) /\ begun \in Seq(Bytes)
  <2>1. Cut(front, j, first, mid)
    BY <1>3
  <2> HIDE DEF z
  <2>2. BytesWith(b, front, z) = BytesWith(Cat(b, CharacterStrings(first)), mid, z)
    BY <1>4, <2>1, BytesCut
  <2>3. Cat(b, CharacterStrings(first)) \in Seq(Bytes)
    BY <1>5, CatLength
  <2> QED
    BY <2>2, <2>3
<1>7. WireStart(b, labels, j) = Len(begun)
  BY <1>3, BytesCut
<1> HIDE DEF wire
<1>8. LabelsAt(BytesWith(begun, mid, z), Len(begun)) = Cat(mid, rear)
  <2>1. begun = Cat(b, wire)
    OBVIOUS
  <2> HIDE DEF begun
  <2> QED
    BY <1>3, <1>4, <1>5, <1>6, <2>1, PointedRead
<1> HIDE DEF begun, all
<1>9. LabelsAt(all, WireStart(b, labels, j)) = Cat(mid, rear)
  BY <1>6, <1>7, <1>8
<1>10. p \in Good(all)
  BY <1>1, <1>2, <1>3, <1>9, RememberedGood
<1> QED
  BY <1>10 DEF all, z

(* The labels a name pointed to is read as are those it was remembered for. *)
LEMMA SameWire ==
  ASSUME NEW s \in Seq(Labels), NEW t \in Seq(Labels), CharacterStrings(s) = CharacterStrings(t)
  PROVE  s = t
<1>1. ASSUME NEW labels \in Seq(Labels)
      PROVE  AllShort(labels)
  <2>1. labels \in Seq(Seq(Bytes))
    BY LabelBytes
  <2>2. \A i \in 1 .. Len(labels) : Len(labels[i]) < 256
    <3> SUFFICES ASSUME NEW i \in 1 .. Len(labels) PROVE Len(labels[i]) < 256
      OBVIOUS
    <3>1. Len(labels[i]) \in 1 .. MAX_LABEL
      BY LabelBytes
    <3>2. MAX_LABEL \in Nat /\ MAX_LABEL < 192
      BY EncoderAssumption, NameAssumption
    <3> QED
      BY <3>1, <3>2
  <2> QED
    BY <2>1, <2>2 DEF AllShort
<1> QED
  BY <1>1, SameStrings

LEMMA GoodFor ==
  ASSUME NEW b, NEW p \in Good(b), NEW labels \in Seq(Labels), p.name = CharacterStrings(labels)
  PROVE  p.start \in Nat /\ p.start <= MAX_POINTER /\ LabelsAt(b, p.start) = labels
<1>1. PICK other \in Seq(Labels) : p.name = CharacterStrings(other) /\ LabelsAt(b, p.start) = other
  BY DEF Good
<1>2. other = labels
  BY <1>1, SameWire
<1> QED
  BY <1>1, <1>2 DEF Good, PointerSet

------------------------------------------------------------------------------
(* An encoder all of whose pointers are to such names, and what a name      *)
(* written to it leaves.                                                   *)
Readable(e) == Sound(e) /\ AllIn(e.name_pointers, Good(e.buffer))

NamesKept(e, out, start, labels, canonical) ==
  /\ Readable(out) /\ Grown(e.buffer, out.buffer) /\ out.canonical_names = e.canonical_names
  /\ NameIn(out.buffer, NameAt(start, labels, canonical))

LEMMA ReadableParts ==
  ASSUME NEW e, Readable(e)
  PROVE  \E b \in Seq(Bytes), c \in BOOLEAN :
           \E ps \in Seq(PointersTo(Len(b))) : e = EncoderOf(b, ps, c) /\ AllIn(ps, Good(b))
<1>1. PICK b \in Seq(Bytes), c \in BOOLEAN : \E ps \in Seq(PointersTo(Len(b))) : e = EncoderOf(b, ps, c)
  BY DEF Readable, Sound
<1>2. PICK ps \in Seq(PointersTo(Len(b))) : e = EncoderOf(b, ps, c)
  BY <1>1
<1>3. e.name_pointers = ps /\ e.buffer = b
  BY <1>2, EncoderFields
<1> QED
  BY <1>2, <1>3 DEF Readable

LEMMA ReadableFull ==
  ASSUME NEW b \in Seq(Bytes), NEW c, NEW ps, AllIn(ps, Good(b)),
         NEW labels \in Seq(Labels), NEW out, Sound(out), NEW canonical, InFull(out, b, ps, c, labels)
  PROVE  /\ AllIn(out.name_pointers, Good(out.buffer)) /\ Grown(b, out.buffer)
         /\ out.canonical_names = c /\ NameIn(out.buffer, NameAt(Len(b), labels, canonical))
<1> DEFINE zero == <<0>>  all == BytesWith(b, labels, zero)
<1>1. PICK qs : /\ AllIn(qs, PointersOf(ps, b, labels, Len(labels)))
                /\ out = EncoderOf(all, qs, c)
  BY DEF InFull, BytesWith
<1>2. zero \in Seq(Bytes)
  BY DEF Bytes
<1>3. Grown(b, all)
  <2> HIDE DEF zero
  <2> QED
    BY <1>2, GrownWith
<1>4. AllIn(ps, Good(all))
  <2> HIDE DEF all
  <2> QED
    BY <1>3, AllKept
<1>5. \A p \in Remembered(b, labels, Len(labels)) : p \in Good(all)
  BY FullRemembers
<1>6. AllIn(qs, Good(all))
  <2> HIDE DEF all
  <2> QED
    BY <1>1, <1>4, <1>5, AllOf
<1>7. LabelsAt(all, Len(b)) = labels /\ WrittenAt(all, Len(b), labels)
  BY FullRead, FullWritten
<1> HIDE DEF all
<1>8. out.name_pointers = qs /\ out.buffer = all /\ out.canonical_names = c
  BY <1>1, EncoderFields
<1> DEFINE w == NameAt(Len(b), labels, canonical)
<1>9. w.start = Len(b) /\ w.labels = labels /\ Len(b) \in Nat
  BY DEF NameAt
<1> HIDE DEF w
<1>10. NameIn(all, w)
  BY <1>7, <1>9 DEF NameIn
<1> QED
  BY <1>3, <1>6, <1>8, <1>10 DEF w

LEMMA ReadablePointed ==
  ASSUME NEW b \in Seq(Bytes), NEW c, NEW ps, AllIn(ps, Good(b)),
         NEW labels \in Seq(Labels), NEW out, Pointed(out, b, ps, c, labels)
  PROVE  /\ AllIn(out.name_pointers, Good(out.buffer)) /\ Grown(b, out.buffer)
         /\ out.canonical_names = c /\ NameIn(out.buffer, NameAt(Len(b), labels, FALSE))
<1> DEFINE bytes == Cat(b, CharacterStrings(labels))
<1>1. PICK i \in 1 .. Len(labels), n \in 1 .. Len(ps) :
        PointsFrom(out, bytes, WireStart(b, labels, i), n, ps, c, PointersOf(ps, b, labels, i - 1))
  BY DEF Pointed
<1> DEFINE at == WireStart(b, labels, i)  t == ps[n].start  z == U16(PointerTo(t))
<1>2. PICK rs : /\ ps[n].name = SubSeq(bytes, at + 1, Len(bytes))
                /\ AllIn(rs, PointersOf(ps, b, labels, i - 1))
                /\ out = EncoderOf(Cat(SubSeq(bytes, 1, at), z), rs, c)
  BY <1>1 DEF PointsFrom
<1>3. PICK front, rear : Cut(labels, i, front, rear)
  BY CutAt
<1>4. front \in Seq(Labels) /\ rear \in Seq(Labels)
  BY <1>3 DEF Cut
<1> DEFINE all == BytesWith(b, front, z)
<1>5. ps[n].name = CharacterStrings(rear) /\ Cat(SubSeq(bytes, 1, at), z) = all
  <2> HIDE DEF z
  <2>1. SubSeq(bytes, 1, at) = Cat(b, CharacterStrings(front))
    BY <1>3, CutWire
  <2>2. SubSeq(bytes, at + 1, Len(bytes)) = CharacterStrings(rear)
    BY <1>3, CutWire
  <2> HIDE DEF bytes, at
  <2> QED
    BY <1>2, <2>1, <2>2 DEF BytesWith
<1>6. t \in Nat /\ t <= MAX_POINTER /\ LabelsAt(b, t) = rear
  <2>1. ps[n] \in Good(b)
    BY DEF AllIn
  <2> QED
    BY <1>4, <1>5, <2>1, GoodFor
<1> HIDE DEF t, bytes, at
<1>7. z \in Seq(Bytes)
  <2>1. PointerTo(t) \in Nat
    BY <1>6, PointerCode, WordNumber
  <2> QED
    BY <2>1, U16Bytes
<1>8. Grown(b, all)
  <2> HIDE DEF z
  <2> QED
    BY <1>4, <1>7, GrownWith
<1>9. AllIn(ps, Good(all))
  <2> HIDE DEF all
  <2> QED
    BY <1>8, AllKept
<1>10. \A p \in Remembered(b, labels, i - 1) : p \in Good(all)
  BY <1>3, <1>6, PointedRemembers
<1>11. LabelsAt(all, Len(b)) = labels
  BY <1>3, <1>6, PointedWhole
<1> HIDE DEF all, z
<1>12. AllIn(rs, Good(all))
  BY <1>2, <1>9, <1>10, AllOf
<1>13. out.name_pointers = rs /\ out.buffer = all /\ out.canonical_names = c
  BY <1>2, <1>5, EncoderFields
<1> DEFINE w == NameAt(Len(b), labels, FALSE)
<1>14. w.start = Len(b) /\ w.labels = labels /\ ~w.canonical /\ Len(b) \in Nat
  BY DEF NameAt
<1> HIDE DEF w
<1>15. NameIn(all, w)
  BY <1>11, <1>14 DEF NameIn
<1> QED
  BY <1>8, <1>12, <1>13, <1>15 DEF w

(* What else is written lets names be read as before. *)
ReadsAsBefore(e, out) == Readable(out) /\ Grown(e.buffer, out.buffer)

LEMMA GrownNot ==
  ASSUME NEW b \in Seq(Bytes)
  PROVE  Grown(b, b)
<1> DEFINE none == <<>>
<1>1. none \in Seq(Bytes) /\ b = Cat(b, none)
  BY CatNothing
<1> HIDE DEF none
<1> QED
  BY <1>1 DEF Grown

LEMMA ReadableWrite ==
  ASSUME NEW e, Readable(e), NEW d \in Seq(Bytes)
  PROVE  /\ ReadsAsBefore(e, WriteSlice(e, d))
         /\ WriteSlice(e, d).buffer = Cat(e.buffer, d)
         /\ WriteSlice(e, d).offset = e.offset + Len(d)
         /\ WriteSlice(e, d).canonical_names = e.canonical_names
<1>1. PICK b \in Seq(Bytes), c \in BOOLEAN :
        \E ps \in Seq(PointersTo(Len(b))) : e = EncoderOf(b, ps, c) /\ AllIn(ps, Good(b))
  BY ReadableParts
<1>2. PICK ps \in Seq(PointersTo(Len(b))) : e = EncoderOf(b, ps, c) /\ AllIn(ps, Good(b))
  BY <1>1
<1> DEFINE more == Cat(b, d)  out == WriteSlice(e, d)
<1>3. out = EncoderOf(more, ps, c)
  BY <1>2, WriteTo
<1>4. Sound(out)
  BY SoundWrite DEF Readable
<1>5. more \in Seq(Bytes) /\ Len(more) = Len(b) + Len(d)
  BY CatLength
<1>6. Grown(b, more)
  BY <1>5 DEF Grown
<1> HIDE DEF more, out
<1>7. AllIn(ps, Good(more))
  BY <1>2, <1>6, AllKept
<1>8. /\ out.buffer = more /\ out.name_pointers = ps /\ out.offset = Len(more) /\ out.canonical_names = c
      /\ e.buffer = b /\ e.offset = Len(b) /\ e.canonical_names = c
  BY <1>2, <1>3, EncoderFields
<1>9. ReadsAsBefore(e, out)
  BY <1>4, <1>6, <1>7, <1>8 DEF ReadsAsBefore, Readable
<1> QED
  BY <1>5, <1>8, <1>9 DEF out, more

LEMMA ReadableForm ==
  ASSUME NEW e, Readable(e), NEW canonical \in BOOLEAN
  PROVE  LET out == [e EXCEPT !.canonical_names = canonical]
         IN  /\ Readable(out) /\ out.buffer = e.buffer /\ out.offset = e.offset
             /\ out.canonical_names = canonical
<1>1. PICK b \in Seq(Bytes), c \in BOOLEAN :
        \E ps \in Seq(PointersTo(Len(b))) : e = EncoderOf(b, ps, c) /\ AllIn(ps, Good(b))
  BY ReadableParts
<1>2. PICK ps \in Seq(PointersTo(Len(b))) : e = EncoderOf(b, ps, c) /\ AllIn(ps, Good(b))
  BY <1>1
<1> DEFINE out == [e EXCEPT !.canonical_names = canonical]
<1>3. out = EncoderOf(b, ps, canonical)
  BY <1>2, SetCanonical
<1>4. Sound(out)
  BY SoundForm DEF Readable
<1> HIDE DEF out
<1>5. /\ out.buffer = b /\ out.name_pointers = ps /\ out.offset = Len(b)
      /\ out.canonical_names = canonical
      /\ e.buffer = b /\ e.offset = Len(b)
  BY <1>2, <1>3, EncoderFields
<1>6. Readable(out)
  BY <1>2, <1>4, <1>5 DEF Readable
<1> QED
  BY <1>5, <1>6 DEF out

LEMMA ReadableBuffer ==
  ASSUME NEW e, Readable(e)
  PROVE  /\ e.buffer \in Seq(Bytes) /\ e.offset = Len(e.buffer) /\ e.offset \in Nat
         /\ e.canonical_names \in BOOLEAN /\ e \notin Broken
<1>1. PICK b \in Seq(Bytes), c \in BOOLEAN :
        \E ps \in Seq(PointersTo(Len(b))) : e = EncoderOf(b, ps, c) /\ AllIn(ps, Good(b))
  BY ReadableParts
<1>2. e.buffer = b /\ e.offset = Len(b) /\ e.canonical_names = c /\ Len(b) \in Nat
  BY <1>1, EncoderFields
<1>3. e \notin Broken
  BY EncoderTyped DEF Readable
<1> QED
  BY <1>2, <1>3

(* Names. *)
LEMMA ReadableName ==
  ASSUME NEW e, Readable(e), NEW labels \in Seq(Labels), NEW canonical \in BOOLEAN
  PROVE  \/ EmitAsCanonical(e, labels, canonical) \in Broken
         \/ NamesKept(e, EmitAsCanonical(e, labels, canonical), e.offset, labels, canonical)
<1> DEFINE out == EmitAsCanonical(e, labels, canonical)
<1>1. PICK b \in Seq(Bytes), c \in BOOLEAN :
        \E ps \in Seq(PointersTo(Len(b))) : e = EncoderOf(b, ps, c) /\ AllIn(ps, Good(b))
  BY ReadableParts
<1>2. PICK ps \in Seq(PointersTo(Len(b))) : e = EncoderOf(b, ps, c) /\ AllIn(ps, Good(b))
  BY <1>1
<1>3. \/ out = Panicked \/ out = Failed
      \/ InFull(out, b, ps, c, labels) \/ (~canonical /\ Pointed(out, b, ps, c, labels))
  BY <1>2, EmittedName
<1>4. out \in Broken \/ Sound(out)
  BY SoundName DEF Readable
<1>5. e.buffer = b /\ e.offset = Len(b) /\ e.canonical_names = c
  BY <1>2, EncoderFields
<1> HIDE DEF out
<1>6. CASE out \in Broken
  BY <1>6 DEF out
<1>7. CASE out \notin Broken /\ InFull(out, b, ps, c, labels)
  <2>1. /\ AllIn(out.name_pointers, Good(out.buffer)) /\ Grown(b, out.buffer)
        /\ out.canonical_names = c /\ NameIn(out.buffer, NameAt(Len(b), labels, canonical))
    BY <1>2, <1>4, <1>7, ReadableFull
  <2>2. NamesKept(e, out, e.offset, labels, canonical)
    BY <1>4, <1>5, <1>7, <2>1 DEF NamesKept, Readable
  <2> QED
    BY <2>2 DEF out
<1>8. CASE out \notin Broken /\ ~canonical /\ Pointed(out, b, ps, c, labels)
  <2>1. /\ AllIn(out.name_pointers, Good(out.buffer)) /\ Grown(b, out.buffer)
        /\ out.canonical_names = c /\ NameIn(out.buffer, NameAt(Len(b), labels, FALSE))
    BY <1>2, <1>8, ReadablePointed
  <2>2. canonical = FALSE
    BY <1>8
  <2>3. NamesKept(e, out, e.offset, labels, canonical)
    BY <1>4, <1>5, <1>8, <2>1, <2>2 DEF NamesKept, Readable
  <2> QED
    BY <2>3 DEF out
<1> QED
  BY <1>3, <1>6, <1>7, <1>8 DEF Broken

(* The form a name is given. *)
FormGiven(labels, lowercase) == IF lowercase THEN Lowercase(labels) ELSE labels

LEMMA ReadableLowercase ==
  ASSUME NEW e, Readable(e), NEW labels \in Seq(Labels), NEW lowercase
  PROVE  \/ EmitWithLowercase(e, labels, lowercase) \in Broken
         \/ NamesKept(e, EmitWithLowercase(e, labels, lowercase), e.offset,
                      FormGiven(labels, lowercase), e.canonical_names)
<1> DEFINE names == FormGiven(labels, lowercase)
<1>1. names \in Seq(Labels)
  BY LowercaseTyped DEF FormGiven
<1>2. EmitWithLowercase(e, labels, lowercase) = EmitAsCanonical(e, names, e.canonical_names)
  BY DEF EmitWithLowercase, FormGiven
<1>3. e.canonical_names \in BOOLEAN
  BY ReadableBuffer
<1> HIDE DEF names
<1>4. \/ EmitAsCanonical(e, names, e.canonical_names) \in Broken
      \/ NamesKept(e, EmitAsCanonical(e, names, e.canonical_names), e.offset, names, e.canonical_names)
  BY <1>1, <1>3, ReadableName
<1> QED
  BY <1>2, <1>4 DEF names

------------------------------------------------------------------------------
(* Record data. *)
Keeps(e, out, names) ==
  out \notin Broken => ReadsAsBefore(e, out) /\ \A w \in names : NameIn(out.buffer, w)

LEMMA KeptWrite ==
  ASSUME NEW e, Readable(e), NEW d \in Seq(Bytes)
  PROVE  Keeps(e, WriteSlice(e, d), {})
<1>1. ReadsAsBefore(e, WriteSlice(e, d))
  BY ReadableWrite
<1> QED
  BY <1>1 DEF Keeps

LEMMA KeptTxt ==
  ASSUME NEW e, Readable(e), NEW strings \in Seq(Seq(Bytes))
  PROVE  Keeps(e, EmitTxt(e, strings), {})
<1> DEFINE d == CharacterStrings(strings)
<1>1. d \in Seq(Bytes)
  BY StringBytes
<1>2. EmitTxt(e, strings) = Failed \/ EmitTxt(e, strings) = WriteSlice(e, d)
  BY DEF EmitTxt
<1> HIDE DEF d
<1>3. Keeps(e, WriteSlice(e, d), {})
  BY <1>1, KeptWrite
<1>4. Keeps(e, Failed, {})
  BY DEF Keeps, Broken
<1> QED
  BY <1>2, <1>3, <1>4

LEMMA KeptKey ==
  ASSUME NEW e, Readable(e), NEW key, key.algorithm \in DOMAIN AlgorithmCodes,
         key.public_key \in Seq(Bytes)
  PROVE  Keeps(e, EmitDnskey(e, key), {})
<1> DEFINE a == AlgorithmCodes[key.algorithm]
           p == U16(Flags(key))
           q == <<3, a>>
           r == key.public_key
<1>1. Flags(key) \in Nat
  BY DEF Flags
<1>2. p \in Seq(Bytes)
  BY <1>1, U16Bytes
<1>3. a \in Bytes /\ 3 \in Bytes
  BY AlgorithmCode DEF Bytes
<1>4. q \in Seq(Bytes) /\ r \in Seq(Bytes)
  BY <1>3, Pair
<1>5. EmitDnskey(e, key) = WriteSlice(e, Cat(Cat(p, q), r))
  BY DEF EmitDnskey, Cat
<1> HIDE DEF p, q, r
<1>6. Cat(Cat(p, q), r) \in Seq(Bytes)
  <2>1. Cat(p, q) \in Seq(Bytes)
    BY <1>2, <1>4, CatLength
  <2> QED
    BY <1>4, <2>1, CatLength
<1> QED
  BY <1>5, <1>6, KeptWrite

(* The signer of a signature is written in lower case, canonically. *)
LEMMA KeptSig ==
  ASSUME NEW e, Readable(e), e.canonical_names = TRUE,
         NEW sig, sig.terms \in Terms, sig.num_labels \in Bytes,
         sig.signer_name \in Seq(Labels), sig.signature \in Seq(Bytes)
  PROVE  Keeps(e, EmitSig(e, sig),
              {NameAt(e.offset + Len(SigHeader(sig.terms, sig.num_labels)),
                      Lowercase(sig.signer_name), TRUE)})
<1> DEFINE header == SigHeader(sig.terms, sig.num_labels)
           begun == WriteSlice(e, header)
           signed == EmitWithLowercase(begun, sig.signer_name, e.canonical_names)
           out == WriteSlice(signed, sig.signature)
           w == NameAt(e.offset + Len(header), Lowercase(sig.signer_name), TRUE)
<1>1. header \in Seq(Bytes)
  BY HeaderBytes
<1>2. EmitSig(e, sig) = IF signed \in Broken THEN signed ELSE out
  BY DEF EmitSig
<1> HIDE DEF header
<1>3. /\ Readable(begun) /\ Grown(e.buffer, begun.buffer)
      /\ begun.offset = e.offset + Len(header) /\ begun.canonical_names = TRUE
  BY <1>1, ReadableWrite DEF ReadsAsBefore
<1> HIDE DEF begun
<1>4. signed \in Broken \/ NamesKept(begun, signed, begun.offset, FormGiven(sig.signer_name, TRUE), TRUE)
  BY <1>3, ReadableLowercase
<1>5. FormGiven(sig.signer_name, TRUE) = Lowercase(sig.signer_name)
  BY DEF FormGiven
<1> HIDE DEF signed
<1>6. CASE signed \in Broken
  BY <1>2, <1>6 DEF Keeps
<1>7. CASE signed \notin Broken
  <2>1. Readable(signed) /\ Grown(begun.buffer, signed.buffer) /\ NameIn(signed.buffer, w)
    BY <1>3, <1>4, <1>5, <1>7 DEF NamesKept
  <2>2. Readable(out) /\ Grown(signed.buffer, out.buffer)
    BY <2>1, ReadableWrite DEF ReadsAsBefore
  <2> HIDE DEF out, w
  <2>3. e.buffer \in Seq(Bytes) /\ begun.buffer \in Seq(Bytes) /\ signed.buffer \in Seq(Bytes)
    BY <1>3, <2>1, ReadableBuffer
  <2>4. Grown(e.buffer, signed.buffer)
    BY <1>3, <2>1, <2>3, GrownMore
  <2>5. Grown(e.buffer, out.buffer)
    BY <2>2, <2>3, <2>4, GrownMore
  <2>6. NameIn(out.buffer, w)
    BY <2>1, <2>2, <2>3, NameKept
  <2>7. Keeps(e, out, {w})
    BY <2>2, <2>5, <2>6 DEF Keeps, ReadsAsBefore
  <2> QED
    BY <1>2, <1>7, <2>7 DEF w, header
<1> QED
  BY <1>6, <1>7

LEMMA KeptForm ==
  ASSUME NEW e, Readable(e), NEW done, NEW names, Keeps(Canonically(e), done, names)
  PROVE  Keeps(e, FormOf(e, done), names)
<1> DEFINE c == e.canonical_names  out == [done EXCEPT !.canonical_names = c]
<1>1. c \in BOOLEAN
  BY ReadableBuffer
<1>2. CASE done \in Broken
  BY <1>2 DEF FormOf, Keeps
<1>3. CASE done \notin Broken
  <2>1. Canonically(e).buffer = e.buffer
    <3> DEFINE yes == TRUE
    <3>1. yes \in BOOLEAN /\ Canonically(e) = [e EXCEPT !.canonical_names = yes]
      BY DEF Canonically
    <3> HIDE DEF yes
    <3> QED
      BY <3>1, ReadableForm
  <2>2. /\ Readable(done) /\ Grown(e.buffer, done.buffer)
        /\ \A w \in names : NameIn(done.buffer, w)
    BY <1>3, <2>1 DEF Keeps, ReadsAsBefore
  <2> HIDE DEF c
  <2>3. Readable(out) /\ out.buffer = done.buffer
    BY <1>1, <2>2, ReadableForm
  <2>4. FormOf(e, done) = out
    BY <1>3 DEF FormOf, c
  <2> HIDE DEF out
  <2> QED
    BY <2>2, <2>3, <2>4 DEF Keeps, ReadsAsBefore
<1> QED
  BY <1>2, <1>3

(* Of record data only the signer of a signature is a name. *)
NamesOf(e, rdata) ==
  IF rdata.type # "SIG" THEN {}
  ELSE {NameAt(e.offset + Len(SigHeader(rdata.sig.terms, rdata.sig.num_labels)),
               Lowercase(rdata.sig.signer_name), TRUE)}

LEMMA KeptRdata ==
  ASSUME NEW e, Readable(e), NEW rdata \in Rdatas
  PROVE  Keeps(e, EmitRdata(e, rdata), NamesOf(e, rdata))
<1> DEFINE canonical == Canonically(e)
<1>1. Readable(canonical) /\ canonical.canonical_names = TRUE /\ canonical.offset = e.offset
  <2> DEFINE yes == TRUE
  <2>1. yes \in BOOLEAN /\ canonical = [e EXCEPT !.canonical_names = yes]
    BY DEF Canonically
  <2> HIDE DEF yes, canonical
  <2>2. Readable(canonical) /\ canonical.canonical_names = yes /\ canonical.offset = e.offset
    BY <2>1, ReadableForm
  <2> QED
    BY <2>2 DEF yes
<1> HIDE DEF canonical
<1>2. CASE rdata.type = "TXT" /\ rdata.txt_data \in Seq(Seq(Bytes))
  <2>1. EmitRdata(e, rdata) = EmitTxt(e, rdata.txt_data) /\ NamesOf(e, rdata) = {}
    BY <1>2 DEF EmitRdata, NamesOf
  <2> QED
    BY <1>2, <2>1, KeptTxt
<1>3. CASE /\ rdata.type = "DNSKEY" /\ rdata.algorithm \in DOMAIN AlgorithmCodes
           /\ rdata.public_key \in Seq(Bytes)
  <2>1. EmitRdata(e, rdata) = FormOf(e, EmitDnskey(canonical, rdata)) /\ NamesOf(e, rdata) = {}
    BY <1>3 DEF EmitRdata, canonical, NamesOf
  <2>2. Keeps(canonical, EmitDnskey(canonical, rdata), {})
    BY <1>1, <1>3, KeptKey
  <2> QED
    BY <2>1, <2>2, KeptForm DEF canonical
<1>4. CASE /\ rdata.type = "SIG" /\ rdata.sig.terms \in Terms /\ rdata.sig.num_labels \in Bytes
           /\ rdata.sig.signer_name \in Seq(Labels) /\ rdata.sig.signature \in Seq(Bytes)
  <2>1. EmitRdata(e, rdata) = FormOf(e, EmitSig(canonical, rdata.sig))
    BY <1>4 DEF EmitRdata, canonical
  <2>2. Keeps(canonical, EmitSig(canonical, rdata.sig), NamesOf(e, rdata))
    <3> DEFINE sig == rdata.sig
    <3>1. /\ sig.terms \in Terms /\ sig.num_labels \in Bytes
          /\ sig.signer_name \in Seq(Labels) /\ sig.signature \in Seq(Bytes)
      BY <1>4
    <3>2. NamesOf(e, rdata)
          = {NameAt(canonical.offset + Len(SigHeader(sig.terms, sig.num_labels)),
                    Lowercase(sig.signer_name), TRUE)}
      BY <1>1, <1>4 DEF NamesOf
    <3> HIDE DEF sig
    <3>3. Keeps(canonical, EmitSig(canonical, sig), NamesOf(e, rdata))
      BY <1>1, <3>1, <3>2, KeptSig
    <3> QED
      BY <3>3 DEF sig
  <2> QED
    BY <2>1, <2>2, KeptForm DEF canonical
<1> QED
  BY <1>2, <1>3, <1>4, RdataTyped

------------------------------------------------------------------------------
(* What the encoder and the names written keep. *)
TypedNames(names) == \A w \in names : w.start \in Nat /\ w.labels \in Seq(Labels)
ReadableState(e, names) == e \in Broken \/ (Readable(e) /\ \A w \in names : NameIn(e.buffer, w))

ReadableInv == TypedNames(written) /\ ReadableState(encoder, written)

LEMMA ReadableStep ==
  ASSUME NEW e, Readable(e), NEW old, TypedNames(old), \A w \in old : NameIn(e.buffer, w),
         NEW out, NEW names, TypedNames(names), Keeps(e, out, names)
  PROVE  TypedNames(old \cup names) /\ ReadableState(out, old \cup names)
<1>1. TypedNames(old \cup names)
  BY DEF TypedNames
<1>2. CASE out \in Broken
  BY <1>1, <1>2 DEF ReadableState
<1>3. CASE out \notin Broken
  <2>1. Readable(out) /\ Grown(e.buffer, out.buffer) /\ \A w \in names : NameIn(out.buffer, w)
    BY <1>3 DEF Keeps, ReadsAsBefore
  <2>2. e.buffer \in Seq(Bytes)
    BY ReadableBuffer
  <2>3. \A w \in old : NameIn(out.buffer, w)
    BY <2>1, <2>2, NameKept
  <2> QED
    BY <1>1, <2>1, <2>3 DEF ReadableState
<1> QED
  BY <1>2, <1>3

LEMMA NewIsReadable == Readable(NewEncoder)
<1> DEFINE none == <<>>  no == FALSE
<1>1. none \in Seq(Bytes) /\ none \in Seq(PointersTo(Len(none))) /\ Len(none) = 0
  BY EmptySeq
<1>2. NewEncoder = EncoderOf(none, none, no) /\ no \in BOOLEAN
  BY <1>1 DEF NewEncoder, EncoderOf
<1>3. AllIn(none, Good(none))
  BY <1>1 DEF AllIn
<1> HIDE DEF none, no
<1>4. Sound(NewEncoder)
  BY <1>1, <1>2 DEF Sound
<1>5. NewEncoder.name_pointers = none /\ NewEncoder.buffer = none
  BY <1>2, EncoderFields
<1> QED
  BY <1>3, <1>4, <1>5 DEF Readable

LEMMA ReadableIsInductive == Spec => []ReadableInv
<1>1. Init => ReadableInv
  BY NewIsReadable DEF Init, ReadableInv, ReadableState, TypedNames
<1>2. ReadableInv /\ [Next]_vars => ReadableInv'
  <2> SUFFICES ASSUME ReadableInv, [Next]_vars
               PROVE  TypedNames(written') /\ ReadableState(encoder', written')
    BY DEF ReadableInv
  <2>1. CASE UNCHANGED <<encoder, written>>
    BY <2>1 DEF ReadableInv
  <2>2. ASSUME NEW e, NEW names, Emitted(e, names),
               Readable(encoder) => Keeps(encoder, e, names) /\ TypedNames(names)
        PROVE  TypedNames(written') /\ ReadableState(encoder', written')
    <3>1. /\ Readable(encoder) /\ (\A w \in written : NameIn(encoder.buffer, w)) /\ TypedNames(written)
          /\ encoder' = e /\ written' = written \cup names
      BY <2>2 DEF Emitted, ReadableInv, ReadableState
    <3>2. TypedNames(written \cup names) /\ ReadableState(e, written \cup names)
      BY <2>2, <3>1, ReadableStep
    <3> QED
      BY <3>1, <3>2
  <2>3. ASSUME NEW c \in Characters, Type(c)
        PROVE  UNCHANGED <<encoder, written>>
    BY <2>3 DEF Type
  <2>4. ASSUME NEW name \in GivenNames, NEW lowercase \in BOOLEAN, EmitName(name.labels, lowercase)
        PROVE  TypedNames(written') /\ ReadableState(encoder', written')
    <3> DEFINE e == EmitWithLowercase(encoder, name.labels, lowercase)
               labels == FormGiven(name.labels, lowercase)
               names == {NameAt(encoder.offset, labels, encoder.canonical_names)}
    <3>1. name.labels \in Seq(Labels)
      BY CodecAssumption DEF GivenNames
    <3>2. labels \in Seq(Labels)
      BY <3>1, LowercaseTyped DEF FormGiven
    <3>3. Emitted(e, names)
      BY <2>4 DEF EmitName, FormGiven
    <3>4. ASSUME Readable(encoder)
          PROVE  Keeps(encoder, e, names) /\ TypedNames(names)
      <4>1. encoder.offset \in Nat
        BY <3>4, ReadableBuffer
      <4>2. e \in Broken \/ NamesKept(encoder, e, encoder.offset, labels, encoder.canonical_names)
        BY <3>1, <3>4, ReadableLowercase
      <4> HIDE DEF e, labels
      <4>3. Keeps(encoder, e, names)
        BY <4>2 DEF NamesKept, Keeps, ReadsAsBefore
      <4>4. TypedNames(names)
        BY <3>2, <4>1 DEF TypedNames, NameAt
      <4> QED
        BY <4>3, <4>4
    <3> HIDE DEF e, names
    <3> QED
      BY <2>2, <3>3, <3>4
  <2>5. ASSUME NEW data \in Fields, EmitField(data)
        PROVE  TypedNames(written') /\ ReadableState(encoder', written')
    <3> DEFINE e == WriteSlice(encoder, data)  names == {}
    <3>1. data \in Seq(Bytes)
      BY WriteAssumption
    <3>2. Emitted(e, names)
      BY <2>5 DEF EmitField
    <3>3. Readable(encoder) => Keeps(encoder, e, names) /\ TypedNames(names)
      BY <3>1, KeptWrite DEF TypedNames
    <3> HIDE DEF e, names
    <3> QED
      BY <2>2, <3>2, <3>3
  <2>6. ASSUME NEW rdata \in Rdatas, EmitRecordData(rdata)
        PROVE  TypedNames(written') /\ ReadableState(encoder', written')
    <3> DEFINE e == EmitRdata(encoder, rdata)  names == NamesOf(encoder, rdata)
    <3>1. Emitted(e, names)
      BY <2>6 DEF EmitRecordData, NamesOf
    <3>2. Readable(encoder) => Keeps(encoder, e, names)
      BY KeptRdata
    <3>3. Readable(encoder) => TypedNames(names)
      <4> SUFFICES ASSUME Readable(encoder), rdata.type = "SIG"
                   PROVE  TypedNames(names)
        BY DEF TypedNames, NamesOf
      <4> DEFINE header == SigHeader(rdata.sig.terms, rdata.sig.num_labels)
                 signer == Lowercase(rdata.sig.signer_name)
      <4>1. /\ rdata.sig.terms \in Terms /\ rdata.sig.num_labels \in Bytes
            /\ rdata.sig.signer_name \in Seq(Labels)
        BY RdataTyped
      <4>2. Len(header) = 18
        BY <4>1, HeaderBytes
      <4>3. encoder.offset \in Nat
        BY ReadableBuffer
      <4>4. signer \in Seq(Labels)
        BY <4>1, LowercaseTyped
      <4>5. names = {NameAt(encoder.offset + Len(header), signer, TRUE)}
        BY DEF NamesOf
      <4> HIDE DEF header, signer, names
      <4> QED
        BY <4>2, <4>3, <4>4, <4>5 DEF NameAt, TypedNames
    <3> HIDE DEF e, names
    <3> QED
      BY <2>2, <3>1, <3>2, <3>3
  <2>7. CASE SetCanonicalNames
    <3> DEFINE c == ~encoder.canonical_names  e == [encoder EXCEPT !.canonical_names = c]
    <3>1. /\ Readable(encoder) /\ encoder' = e /\ written' = written /\ TypedNames(written)
          /\ \A w \in written : NameIn(encoder.buffer, w)
      BY <2>7 DEF SetCanonicalNames, ReadableInv, ReadableState
    <3>2. c \in BOOLEAN
      OBVIOUS
    <3> HIDE DEF c
    <3>3. Readable(e) /\ e.buffer = encoder.buffer
      BY <3>1, <3>2, ReadableForm
    <3> HIDE DEF e
    <3> QED
      BY <3>1, <3>3 DEF ReadableState
  <2>8. ASSUME NEW name \in GivenNames, NEW sig \in Sig, NEW records \in SeqOf(Rdata, MaxRecords),
               Construct(name, sig, records)
        PROVE  UNCHANGED <<encoder, written>>
    BY <2>8 DEF Construct
  <2>9. CASE UNCHANGED vars
    BY <2>1, <2>9 DEF vars
  <2> QED
    BY <2>1, <2>3, <2>4, <2>5, <2>6, <2>7, <2>8, <2>9 DEF Next
<1> QED
  BY <1>1, <1>2, PTL DEF Spec

(***************************************************************************)
(* Whatever is typed, written and signed, the reader of a text is in one   *)
(* of its states or has ended, and the encoder is one whose offset is the  *)
(* length of its buffer of bytes, or broken: resetting it for a pointer    *)
(* trims both.                                                             *)
(***************************************************************************)
THEOREM EncoderIsAlwaysSound == Spec => []TypeOK
<1>1. ReadableInv /\ ParserInv => TypeOK
  <2> SUFFICES ASSUME ReadableInv, ParserInv PROVE TypeOK
    OBVIOUS
  <2>1. text \in Seq(Characters) /\ parser.state \in ParseState \cup {"failed", Panicked}
    BY DEF ParserInv, Parsers
  <2>2. encoder \in Broken \/ (encoder \in BinEncoder /\ encoder.offset = Len(encoder.buffer))
    BY EncoderTyped DEF ReadableInv, ReadableState, Readable
  <2> QED
    BY <2>1, <2>2 DEF TypeOK, ReadableInv, TypedNames
<1> QED
  BY <1>1, ReadableIsInductive, ParserIsInductive, PTL

(***************************************************************************)
(* Whatever names, fields and record data are written in whichever form,   *)
(* every name is read at its place as the labels it was written for,       *)
(* behind pointers to names that end in pointers too: what a pointer       *)
(* stands for was remembered at a place where it is read as just that, and *)
(* what is written later is written behind it.  A canonical name stands    *)
(* there in full.                                                          *)
(***************************************************************************)
THEOREM NamesAreAlwaysReadable == Spec => []NamesAreReadable
<1>1. ReadableInv => NamesAreReadable
  <2> SUFFICES ASSUME ReadableInv, encoder \notin Broken, NEW w \in written
               PROVE  /\ LabelsAt(encoder.buffer, w.start) = w.labels
                      /\ w.canonical => IsPrefix(WireForm(w.labels),
                                                 SubSeq(encoder.buffer, w.start + 1, encoder.offset))
    BY DEF NamesAreReadable
  <2> DEFINE all == encoder.buffer  name == Written(w.labels)
  <2>1. Readable(encoder) /\ NameIn(all, w)
    BY DEF ReadableInv, ReadableState
  <2>2. all \in Seq(Bytes) /\ encoder.offset = Len(all)
    BY <2>1, ReadableBuffer
  <2>3. LabelsAt(all, w.start) = w.labels /\ w.labels \in Seq(Labels)
    BY <2>1 DEF NameIn
  <2>4. WireForm(w.labels) = name
    BY DEF WireForm, Written, Cat
  <2>5. name \in Seq(Bytes)
    BY <2>3, NameEnds
  <2>6. ASSUME w.canonical
        PROVE  IsPrefix(name, SubSeq(all, w.start + 1, Len(all)))
    <3>1. PICK x \in Seq(Bytes), y \in Seq(Bytes) : all = Cat(Cat(x, name), y) /\ Len(x) = w.start
      BY <2>1, <2>6 DEF NameIn, WrittenAt
    <3> HIDE DEF name, all
    <3> DEFINE tail == Cat(name, y)
    <3>2. tail \in Seq(Bytes) /\ Cat(Cat(x, name), y) = Cat(x, tail)
      BY <2>5, CatThree
    <3>3. Len(tail) = Len(name) + Len(y) /\ Len(name) \in Nat /\ Len(y) \in Nat
      BY <2>5, CatLength
    <3>4. SubSeq(tail, 1, Len(name)) = name
      BY <2>5, SliceBefore
    <3>5. SubSeq(name, 1, Len(name)) = name
      BY <2>5, SubSeqFull
    <3> HIDE DEF tail
    <3>6. SubSeq(Cat(x, tail), Len(x) + 1, Len(Cat(x, tail))) = tail
      BY <3>2, SliceAfter
    <3>7. SubSeq(all, w.start + 1, Len(all)) = tail
      BY <3>1, <3>2, <3>6
    <3>8. Len(name) <= Len(tail)
      BY <3>3
    <3> QED
      BY <3>4, <3>5, <3>7, <3>8 DEF IsPrefix
  <2> HIDE DEF name
  <2> QED
    BY <2>2, <2>3, <2>4, <2>6
<1> QED
  BY <1>1, ReadableIsInductive, PTL
==============================================================================
